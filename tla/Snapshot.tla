------------------------------- MODULE Snapshot -------------------------------
(***************************************************************************)
(* The copy of a dataset for a launch (training_snapshot.py, capture)      *)
(* while the dataset is edited: decisions and captions, in-place edits of  *)
(* the pictures (crop_image, clean_watermarks), and moves to the Trash.    *)
(*                                                                         *)
(* A picture is a number; a write gives its file a new time stamp, a move  *)
(* keeps the stamp.  The upload of an import never changes.  The settings  *)
(* of the dataset, its trigger word, kind and fidelity are one value.  A   *)
(* JPEG that the inpainting turns into a PNG changes its name with the row *)
(* and is left out, and so are two edits of one picture at the same time.  *)
(***************************************************************************)
EXTENDS Integers, FiniteSets

CONSTANTS Images,     \* the ids of the images
          Imported,   \* those with a full-resolution upload
          MaxEdits    \* edits begun before the copy ends

ASSUME SnapshotBounds == /\ Images \subseteq Nat /\ IsFiniteSet(Images)
                         /\ Imported \subseteq Images /\ MaxEdits \in Nat

VARIABLES photo,     \* the rows: status, caption, upscale_ratio set by a crop
          settings,  \* the dataset's own fields
          revision,  \* counted by the triggers on the rows
          disk,      \* the working file of each image
          orig,      \* its .orig sibling, once there is one
          redraw,    \* [Images -> where an in-place edit of the picture is]
          moving,    \* the images a Trash transaction has moved, uncommitted
          capture,   \* the copy under way
          moments,   \* what the dataset was since the copy began, as far as
                     \* the entries copied so far agree with it
          edits      \* edits begun

dataset == <<photo, settings, revision, disk, orig>>
editors == <<redraw, moving>>
snapshotVars == <<dataset, editors, capture, moments, edits>>

None == -1
Uploaded == 0                                  \* the picture as it came
Edited(p) == p + 1
Sources == {"upload", "working"}
Captions == {"short", "long"}
NoCopy == [at |-> "off"]
Idle == [by |-> "none", at |-> "idle"]

SnapshotInit ==
  /\ photo = [i \in Images |-> [status |-> "keep", caption |-> "short", scaled |-> FALSE]]
  /\ settings = 0 /\ revision = 0
  /\ disk = [i \in Images |-> [there |-> TRUE, picture |-> Uploaded, stamp |-> 0]]
  /\ orig = [i \in Images |-> None]
  /\ redraw = [i \in Images |-> Idle] /\ moving = {}
  /\ capture = NoCopy /\ moments = {} /\ edits = 0

KeptImages == {i \in Images : photo[i].status = "keep"}
Copying == capture.at \in {"query", "copy", "check", "verify"}

(* A source file as a copy finds it.                                       *)
Picture(i, source) == IF source = "upload" THEN Uploaded ELSE disk[i].picture

File(i, source) ==
  IF ~disk[i].there THEN [there |-> FALSE, picture |-> None, stamp |-> None]
  ELSE [there |-> TRUE, picture |-> Picture(i, source),
        stamp |-> IF source = "upload" THEN 0 ELSE disk[i].stamp]

(* The dataset at this moment, and whether a snapshot's entry agrees.  A    *)
(* picture that a deletion has moved and not committed is still part of it. *)
Moment == [settings |-> settings,
           captions |-> [i \in KeptImages |-> photo[i].caption],
           files |-> [i \in Images |-> [s \in Sources |-> Picture(i, s)]]]

Agrees(m, i, entry) == /\ i \in DOMAIN m.captions /\ m.captions[i] = entry.caption
                       /\ m.files[i][entry.source] = entry.picture
Entries == IF capture.at = "query" THEN [i \in {} |-> None] ELSE capture.entries

-----------------------------------------------------------------------------
(* Edits.  Every step that changes the dataset is one commit, or one       *)
(* replacement or move of a file.                                          *)

Observed ==
  moments' = moments \cup
    IF Copying /\ \A i \in DOMAIN Entries : Agrees(Moment', i, Entries[i])
    THEN {Moment'} ELSE {}
Begun == edits < MaxEdits /\ edits' = edits + 1

\* The triggers of migration 8 on face_dataset_image.
Commits(i, new) ==
  /\ photo' = [photo EXCEPT ![i] = new]
  /\ revision' = revision + 1
  /\ UNCHANGED settings

\* A decision, or a caption, by the user or a pass.
SetPhoto(i) ==
  /\ photo[i].status # "trashed" /\ Begun
  /\ \/ \E c \in Captions \ {photo[i].caption} :
          Commits(i, [photo[i] EXCEPT !.caption = c])
     \/ \E s \in {"keep", "reject"} \ {photo[i].status} :
          Commits(i, [photo[i] EXCEPT !.status = s])
  /\ UNCHANGED <<disk, orig, editors, capture>> /\ Observed

\* The settings have no trigger.
SetSettings ==
  /\ Begun
  /\ settings' = settings + 1
  /\ UNCHANGED <<photo, revision, disk, orig, editors, capture>> /\ Observed

(* An edit of a picture: _preserve_original keeps its first bytes, once;   *)
(* the file is replaced; the row is committed.  "crop" is crop_image, under *)
(* the curation lock.  The others are the routes of clean_watermarks, which *)
(* trims one picture after the other, and inpaints the rest as a batch:    *)
(* all are preserved, then drawn, then their rows are committed.           *)

At(by, at) == {k \in Images : redraw[k].by \in by /\ redraw[k].at \in at}
Cleaning == {"trim", "inpaint"}
Ways == {"crop"} \cup Cleaning

Preserve(i, by) ==
  /\ Begun
  /\ redraw[i] = Idle /\ disk[i].there
  /\ by = "crop" => At({"crop"}, {"preserved", "written"}) = {}
  /\ by \in Cleaning => /\ At({"trim"}, {"preserved", "written"}) = {}
                       /\ At({"inpaint"}, {"written"}) = {}
  /\ orig' = [orig EXCEPT ![i] = IF @ = None THEN disk[i].picture ELSE @]
  /\ redraw' = [redraw EXCEPT ![i] = [by |-> by, at |-> "preserved"]]
  /\ UNCHANGED <<photo, settings, revision, disk, moving, capture>> /\ Observed

\* _atomic_write_bytes
WriteFile(i, picture) ==
  disk' = [disk EXCEPT ![i] = [there |-> TRUE, picture |-> picture, stamp |-> @.stamp + 1]]

Draw(i) ==
  /\ redraw[i].at = "preserved" /\ disk[i].there
  /\ redraw[i].by = "inpaint" => At({"trim"}, {"preserved", "written"}) = {}
  /\ WriteFile(i, Edited(disk[i].picture))
  /\ redraw' = [redraw EXCEPT ![i].at = "written"]
  /\ UNCHANGED <<photo, settings, revision, orig, moving, capture, edits>> /\ Observed

\* A crop returns; the pass records the failure.
DrawFails(i) ==
  /\ redraw[i].at = "preserved"
  /\ IF redraw[i].by \in Cleaning THEN Commits(i, photo[i])
                               ELSE UNCHANGED <<photo, revision, settings>>
  /\ redraw' = [redraw EXCEPT ![i] = Idle]
  /\ UNCHANGED <<disk, orig, moving, capture, edits>> /\ Observed

Drawn(i) ==
  /\ redraw[i].at = "written"
  /\ redraw[i].by = "inpaint" => At({"inpaint"}, {"preserved"}) = {}

CommitDrawn(i) ==
  /\ Drawn(i)
  /\ Commits(i, [photo[i] EXCEPT !.scaled = @ \/ redraw[i].by = "crop"])
  /\ redraw' = [redraw EXCEPT ![i] = Idle]
  /\ UNCHANGED <<disk, orig, moving, capture, edits>> /\ Observed

\* The commit fails: crop_image writes back the bytes it had read,
\* clean_watermarks the preserved ones, and the pass ends.
RollBackDrawn(i) ==
  /\ Drawn(i)
  /\ IF redraw[i].by = "crop"
       THEN /\ WriteFile(i, disk[i].picture - 1)
            /\ redraw' = [redraw EXCEPT ![i] = Idle]
       ELSE /\ WriteFile(i, orig[i])
            /\ redraw' = [k \in Images |-> IF redraw[k].by \in Cleaning THEN Idle ELSE redraw[k]]
  /\ UNCHANGED <<photo, settings, revision, orig, moving, capture, edits>> /\ Observed

\* delete_image: the files are moved, then the row is committed, or the
\* files are moved back.
Delete(i) ==
  /\ Begun
  /\ moving = {} /\ photo[i].status # "trashed" /\ disk[i].there
  /\ disk' = [disk EXCEPT ![i].there = FALSE]
  /\ moving' = {i}
  /\ UNCHANGED <<photo, settings, revision, orig, redraw, capture>> /\ Observed

CommitDeleted(i) ==
  /\ i \in moving
  /\ Commits(i, [photo[i] EXCEPT !.status = "trashed"])
  /\ moving' = {}
  /\ UNCHANGED <<disk, orig, redraw, capture, edits>> /\ Observed

RollBackDeleted(i) ==
  /\ i \in moving
  /\ disk' = [disk EXCEPT ![i].there = TRUE]
  /\ moving' = {}
  /\ UNCHANGED <<photo, settings, revision, orig, redraw, capture, edits>> /\ Observed

-----------------------------------------------------------------------------
(* capture: the rows are listed, each file is copied and compared, then    *)
(* every file is compared again, and at last the dataset's fields.  Any    *)
(* difference ends the launch.                                             *)

Capture(new) == capture' = new /\ UNCHANGED <<dataset, editors, moments, edits>>
Fails == Capture([at |-> "failed"])

\* The rows are taken in the order of their ids.
Turn(i) == i \in capture.todo /\ \A k \in capture.todo : i <= k

CaptureBegins ==
  /\ capture = NoCopy
  /\ capture' = [at |-> "query", revision |-> revision, settings |-> settings]
  /\ moments' = {Moment}
  /\ UNCHANGED <<dataset, editors, edits>>

CaptureQueries ==
  /\ capture.at = "query"
  /\ IF KeptImages = {} THEN Fails
     ELSE Capture([at |-> "copy", revision |-> capture.revision,
                   settings |-> capture.settings, todo |-> KeptImages,
                   entries |-> [i \in {} |-> None]])

\* training_source_path
SourceOf(i) ==
  IF i \in Imported /\ ~photo[i].scaled /\ disk[i].there /\ orig[i] = None
  THEN "upload" ELSE "working"

\* The commit before the loop expired the rows: each is read again here.  The
\* copy takes the bytes of one file, whatever replaces it meanwhile.
CaptureCopies(i) ==
  /\ capture.at = "copy" /\ Turn(i)
  /\ LET file == File(i, SourceOf(i))
         entry == [source |-> SourceOf(i), picture |-> file.picture,
                   stamp |-> file.stamp, caption |-> photo[i].caption]
     IN IF ~file.there THEN Fails
        ELSE /\ capture' = [capture EXCEPT !.at = "check",
                  !.entries = [k \in DOMAIN @ \cup {i} |-> IF k = i THEN entry ELSE @[k]]]
             /\ moments' = {m \in moments : Agrees(m, i, entry)}
             /\ UNCHANGED <<dataset, editors, edits>>

Unchanged(i) ==
  LET file == File(i, capture.entries[i].source)
  IN /\ file.there
     /\ <<file.stamp, file.picture>> = <<capture.entries[i].stamp, capture.entries[i].picture>>

CaptureChecks(i) ==
  /\ capture.at = "check" /\ Turn(i)
  /\ IF Unchanged(i) THEN Capture([capture EXCEPT !.at = "copy", !.todo = @ \ {i}]) ELSE Fails

CaptureReviews ==
  /\ capture.at = "copy" /\ capture.todo = {}
  /\ Capture([capture EXCEPT !.at = "verify", !.todo = DOMAIN capture.entries])

CaptureVerifies(i) ==
  /\ capture.at = "verify" /\ Turn(i)
  /\ IF Unchanged(i) THEN Capture([capture EXCEPT !.todo = @ \ {i}]) ELSE Fails

\* Mutant of CapturePublishes: the dataset's revision is not compared again.
PublishesBlindly ==
  /\ capture.at = "verify" /\ capture.todo = {}
  /\ Capture([capture EXCEPT !.at = "published"])

\* The manifest is written and the directory renamed after the comparison;
\* nothing that follows looks at the dataset again.
CapturePublishes ==
  /\ capture.at = "verify" /\ capture.todo = {}
  /\ IF <<revision, settings>> = <<capture.revision, capture.settings>>
     THEN Capture([capture EXCEPT !.at = "published"])
     ELSE Fails

-----------------------------------------------------------------------------
Edits ==
  \/ SetSettings
  \/ \E i \in Images :
       \/ SetPhoto(i)
       \/ \E by \in Ways : Preserve(i, by)
       \/ Draw(i) \/ DrawFails(i) \/ CommitDrawn(i) \/ RollBackDrawn(i)
       \/ Delete(i) \/ CommitDeleted(i) \/ RollBackDeleted(i)

Captures ==
  \/ CaptureBegins \/ CaptureQueries \/ CaptureReviews \/ CapturePublishes
  \/ \E i \in Images : CaptureCopies(i) \/ CaptureChecks(i) \/ CaptureVerifies(i)

CaptureOver == capture.at \in {"published", "failed"}

SnapshotNext == (~CaptureOver /\ Edits) \/ Captures
SnapshotSpec == SnapshotInit /\ [][SnapshotNext]_snapshotVars

-----------------------------------------------------------------------------
(* Properties                                                              *)

PictureEntry == [source : Sources, picture : Int, stamp : Int, caption : Captions]
EntriesTyped(entries) == /\ DOMAIN entries \subseteq Images
                         /\ entries \in [DOMAIN entries -> PictureEntry]
HasEntries == capture.at \in {"copy", "check", "verify", "published"}

Photos == [status : {"keep", "reject", "trashed"}, caption : Captions, scaled : BOOLEAN]
Files == [there : BOOLEAN, picture : Int, stamp : Nat]

RowsTypeOK ==
  /\ photo \in [Images -> Photos]
  /\ settings \in Nat /\ revision \in Nat /\ edits \in 0..MaxEdits
FilesTypeOK ==
  /\ disk \in [Images -> Files]
  /\ orig \in [Images -> Int]
  /\ redraw \in [Images -> [by : {"none"} \cup Ways, at : {"idle", "preserved", "written"}]]
  /\ moving \subseteq Images
CaptureTypeOK ==
  \/ capture \in [at : {"off", "failed", "returned", "refused"}]
  \/ capture \in [at : {"query"}, revision : Nat, settings : Nat]
  \/ /\ HasEntries
     /\ capture \in [at : {capture.at}, revision : Nat, settings : Nat,
                    todo : SUBSET Images, entries : {capture.entries}]
     /\ EntriesTyped(capture.entries)

SnapshotTypeOK == RowsTypeOK /\ FilesTypeOK /\ CaptureTypeOK

(* A published snapshot is the dataset as it was at one moment of the      *)
(* copy: its images were those kept, with these captions and settings, and *)
(* every file it took held the picture it copied (the file that a failed   *)
(* deletion moved and moved back included), whatever was edited before,    *)
(* between and after the copies (training_snapshot.py:30).                 *)
SnapshotIsOneMoment ==
  capture.at = "published" =>
    \E m \in moments : /\ m.settings = capture.settings
                       /\ DOMAIN m.captions = DOMAIN capture.entries
                       /\ \A i \in DOMAIN capture.entries : Agrees(m, i, capture.entries[i])
=============================================================================
