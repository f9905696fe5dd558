--------------------------- MODULE CloudRunProofs ----------------------------
(***************************************************************************)
(* Proofs about cloud runs and the copies of their datasets, for any number *)
(* of runs, crashes, failing calls, images and edits.                      *)
(*                                                                         *)
(* The copy first.  The moment a published snapshot shows is the one at    *)
(* which the copy began to compare all files again: between copying a file *)
(* and comparing it again its time stamp did not change, so neither did the *)
(* file at that moment, and the revision and the settings did not change   *)
(* from the begin of the copy to its end.  VerifyInv keeps that moment     *)
(* until the last comparison.                                              *)
(*                                                                         *)
(* Then the runs: their submission, their machines and the abstract rental *)
(* they implement.                                                         *)
(***************************************************************************)
EXTENDS CloudLaunch, TLAPS

Fits(m) == /\ m.settings = capture.settings
           /\ DOMAIN m.captions = DOMAIN capture.entries
           /\ \A i \in DOMAIN capture.entries : Agrees(m, i, capture.entries[i])

\* The file was written after it was copied.
Stale(i) == /\ capture.entries[i].source = "working"
            /\ capture.entries[i].stamp < disk[i].stamp

ClockInv == Copying => capture.revision <= revision /\ capture.settings <= settings

FilesInv ==
  Copying => \A i \in DOMAIN Entries :
    \/ Entries[i].source = "upload" /\ Entries[i].picture = Uploaded
    \/ /\ Entries[i].source = "working"
       /\ Entries[i].stamp <= disk[i].stamp
       /\ Entries[i].stamp = disk[i].stamp => Entries[i].picture = disk[i].picture

(* A file is copied when its turn comes, and compared before the next one. *)
TurnInv ==
  /\ capture.at = "copy" => capture.todo \cap DOMAIN capture.entries = {}
  /\ capture.at = "check" => \A i \in Images :
                               i \in capture.todo \cap DOMAIN capture.entries <=> Turn(i)

RowsInv ==
  capture.at \in {"copy", "check", "verify"} /\ revision = capture.revision =>
    /\ KeptImages = DOMAIN capture.entries \cup (IF capture.at = "verify" THEN {} ELSE capture.todo)
    /\ \A i \in DOMAIN capture.entries : photo[i].caption = capture.entries[i].caption

MomentInv ==
  Copying /\ (\A i \in DOMAIN Entries : Agrees(Moment, i, Entries[i])) => Moment \in moments

VerifyInv ==
  capture.at = "verify" =>
    /\ capture.todo \subseteq DOMAIN capture.entries
    /\ /\ revision = capture.revision /\ settings = capture.settings
       /\ \A i \in capture.todo : ~Stale(i)
       => \E m \in moments : Fits(m)

CaptureInv == /\ SnapshotTypeOK
              /\ ClockInv /\ FilesInv /\ TurnInv /\ RowsInv /\ MomentInv /\ VerifyInv
              /\ SnapshotIsOneMoment
-----------------------------------------------------------------------------
(* What an edit of the dataset can do to a copy: a row or a file that      *)
(* changes has moved the revision or its time stamp on.                    *)
EditEffect ==
  /\ capture' = capture
  /\ revision' \in Nat /\ settings' \in Nat
  /\ revision <= revision' /\ settings <= settings'
  /\ revision' = revision => photo' = photo
  /\ \A i \in Images : /\ disk[i].stamp <= disk'[i].stamp
                       /\ disk'[i].stamp = disk[i].stamp => disk'[i].picture = disk[i].picture
  /\ Observed

LEMMA PhotoFields ==
  ASSUME NEW p \in Photos
  PROVE  /\ \A c \in Captions : [p EXCEPT !.caption = c] \in Photos
         /\ \A s \in {"keep", "reject", "trashed"} : [p EXCEPT !.status = s] \in Photos
         /\ \A b \in BOOLEAN : [p EXCEPT !.scaled = b] \in Photos
BY Zenon DEF Photos

LEMMA FileFields ==
  ASSUME NEW f \in Files, NEW there \in BOOLEAN
  PROVE  LET g == [f EXCEPT !.there = there]
         IN g \in Files /\ g.picture = f.picture /\ g.stamp = f.stamp
BY Zenon DEF Files

LEMMA EditsAreSeen ==
  ASSUME SnapshotTypeOK, Edits
  PROVE  EditEffect /\ SnapshotTypeOK'
<1> USE SnapshotBounds
<1> USE DEF SnapshotTypeOK, RowsTypeOK, FilesTypeOK, EditEffect, Begun, Commits, editors
<1>0. capture' = capture => CaptureTypeOK'
  BY DEF CaptureTypeOK, HasEntries
<1>a. \A i \in Images : photo[i] \in Photos /\ disk[i] \in Files
  OBVIOUS
<1>b. \A i \in Images : disk[i].stamp \in Nat /\ disk[i].picture \in Int
  BY DEF Files
<1>1. CASE SetSettings
  BY <1>0, <1>b, <1>1 DEF SetSettings
<1>2. ASSUME NEW i \in Images, SetPhoto(i) PROVE EditEffect /\ SnapshotTypeOK'
  <2>1. PICK new \in Photos : Commits(i, new)
    BY <1>2, <1>a, PhotoFields DEF SetPhoto
  <2> QED BY <1>0, <1>b, <1>2, <2>1 DEF SetPhoto
<1>3. ASSUME NEW i \in Images, NEW by \in Ways, Preserve(i, by)
      PROVE EditEffect /\ SnapshotTypeOK'
  BY <1>0, <1>b, <1>3 DEF Preserve, Files
<1>4. ASSUME NEW i \in Images, Draw(i) PROVE EditEffect /\ SnapshotTypeOK'
  BY <1>0, <1>b, <1>4 DEF Draw, WriteFile, Edited, Files
<1>5. ASSUME NEW i \in Images, DrawFails(i) PROVE EditEffect /\ SnapshotTypeOK'
  BY <1>0, <1>b, <1>5 DEF DrawFails, Idle
<1>6. ASSUME NEW i \in Images, CommitDrawn(i) PROVE EditEffect /\ SnapshotTypeOK'
  <2>1. PICK new \in Photos : Commits(i, new)
    <3>1. (photo[i].scaled \/ redraw[i].by = "crop") \in BOOLEAN
      OBVIOUS
    <3> QED BY <1>6, <1>a, <3>1, PhotoFields, Zenon DEF CommitDrawn
  <2>2. /\ redraw' = [redraw EXCEPT ![i] = Idle]
        /\ UNCHANGED <<disk, orig, moving, capture, edits>> /\ Observed
    BY <1>6 DEF CommitDrawn
  <2> QED BY <1>0, <1>b, <2>1, <2>2 DEF Idle
<1>7. ASSUME NEW i \in Images, RollBackDrawn(i) PROVE EditEffect /\ SnapshotTypeOK'
  <2>1. PICK picture \in Int : WriteFile(i, picture)
    BY <1>7 DEF RollBackDrawn, Files
  <2>2. redraw' \in [Images -> [by : {"none"} \cup Ways, at : {"idle", "preserved", "written"}]]
    BY <1>7 DEF RollBackDrawn, Idle
  <2> QED BY <1>0, <1>b, <1>7, <2>1, <2>2 DEF RollBackDrawn, WriteFile, Files
<1>8. ASSUME NEW i \in Images, Delete(i) PROVE EditEffect /\ SnapshotTypeOK'
  <2> DEFINE g == [disk[i] EXCEPT !.there = FALSE]
  <2>1. g \in Files /\ g.picture = disk[i].picture /\ g.stamp = disk[i].stamp
    BY <1>a, FileFields, Zenon
  <2>2. /\ disk' = [disk EXCEPT ![i] = g] /\ moving' = {i} /\ edits' = edits + 1
        /\ edits < MaxEdits
        /\ UNCHANGED <<photo, settings, revision, orig, redraw, capture>> /\ Observed
    BY <1>8 DEF Delete
  <2> HIDE DEF g
  <2> QED BY <1>0, <1>b, <2>1, <2>2
<1>9. ASSUME NEW i \in Images, CommitDeleted(i) PROVE EditEffect /\ SnapshotTypeOK'
  <2>1. PICK new \in Photos : Commits(i, new)
    BY <1>9, <1>a, PhotoFields, Zenon DEF CommitDeleted
  <2>2. moving' = {} /\ UNCHANGED <<disk, orig, redraw, capture, edits>> /\ Observed
    BY <1>9 DEF CommitDeleted
  <2> QED BY <1>0, <1>b, <2>1, <2>2
<1>10. ASSUME NEW i \in Images, RollBackDeleted(i) PROVE EditEffect /\ SnapshotTypeOK'
  <2> DEFINE g == [disk[i] EXCEPT !.there = TRUE]
  <2>1. g \in Files /\ g.picture = disk[i].picture /\ g.stamp = disk[i].stamp
    BY <1>a, FileFields, Zenon
  <2>2. /\ disk' = [disk EXCEPT ![i] = g] /\ moving' = {}
        /\ UNCHANGED <<photo, settings, revision, orig, redraw, capture, edits>> /\ Observed
    BY <1>10 DEF RollBackDeleted
  <2> HIDE DEF g
  <2> QED BY <1>0, <1>b, <2>1, <2>2
<1> QED BY <1>1, <1>2, <1>3, <1>4, <1>5, <1>6, <1>7, <1>8, <1>9, <1>10 DEF Edits

-----------------------------------------------------------------------------
(* The shape of a copy.                                                    *)
LEMMA CopyFields ==
  ASSUME SnapshotTypeOK
  PROVE  /\ capture.at \in {"off", "query", "copy", "check", "verify", "published",
                            "failed", "returned", "refused"}
         /\ capture.at \in {"query", "copy", "check", "verify", "published"} =>
              capture.revision \in Nat /\ capture.settings \in Nat
         /\ HasEntries => /\ capture.todo \subseteq Images /\ EntriesTyped(capture.entries)
                          /\ DOMAIN capture = {"at", "revision", "settings", "todo", "entries"}
BY DEF SnapshotTypeOK, CaptureTypeOK, HasEntries

LEMMA EntriesCopied ==
  ASSUME SnapshotTypeOK, Copying, NEW i \in DOMAIN Entries
  PROVE  /\ i \in Images /\ HasEntries /\ Entries = capture.entries
         /\ Entries[i].stamp \in Int /\ Entries[i].picture \in Int
         /\ disk[i].stamp \in Nat
<1>1. capture.at # "query"
  BY DEF Entries
<1>2. HasEntries /\ Entries = capture.entries
  BY <1>1 DEF Copying, HasEntries, Entries
<1> QED BY <1>2, CopyFields DEF EntriesTyped, PictureEntry, SnapshotTypeOK, FilesTypeOK, Files

(* An edit keeps the invariant: what it changes shows in the revision, the *)
(* settings or a stamp, and it records the moment it makes.                *)
LEMMA EditsKeepCopies ==
  ASSUME CaptureInv, EditEffect, SnapshotTypeOK'
  PROVE  CaptureInv'
<1> USE DEF CaptureInv
<1>0. /\ capture' = capture /\ moments \subseteq moments' /\ Entries' = Entries
      /\ Copying' = Copying
      /\ revision \in Nat /\ settings \in Nat /\ revision' \in Nat /\ settings' \in Nat
  BY DEF EditEffect, Observed, Entries, SnapshotTypeOK, RowsTypeOK, Copying
<1>1. ClockInv'
  <2> SUFFICES ASSUME Copying PROVE capture.revision <= revision' /\ capture.settings <= settings'
    BY <1>0 DEF ClockInv
  <2>1. capture.revision \in Nat /\ capture.settings \in Nat
    BY CopyFields DEF Copying
  <2> QED BY <1>0, <2>1 DEF ClockInv, EditEffect
<1>2. FilesInv'
  <2> SUFFICES ASSUME Copying, NEW i \in DOMAIN Entries
               PROVE  \/ Entries[i].source = "upload" /\ Entries[i].picture = Uploaded
                      \/ /\ Entries[i].source = "working"
                         /\ Entries[i].stamp <= disk'[i].stamp
                         /\ Entries[i].stamp = disk'[i].stamp => Entries[i].picture = disk'[i].picture
    BY <1>0 DEF FilesInv
  <2>1. disk'[i].stamp \in Nat
    BY EntriesCopied DEF SnapshotTypeOK, FilesTypeOK, Files
  <2> QED BY <2>1, EntriesCopied DEF FilesInv, EditEffect
<1>3. RowsInv'
  <2> SUFFICES ASSUME capture.at \in {"copy", "check", "verify"}, revision' = capture.revision
               PROVE  photo' = photo /\ revision = capture.revision
    BY <1>0 DEF RowsInv, KeptImages
  <2>1. capture.revision <= revision /\ capture.revision \in Nat
    BY CopyFields DEF ClockInv, Copying
  <2> QED BY <1>0, <2>1 DEF EditEffect
<1>4. MomentInv'
  <2> SUFFICES ASSUME Copying, \A i \in DOMAIN Entries : Agrees(Moment', i, Entries[i])
               PROVE  Moment' \in moments'
    BY <1>0 DEF MomentInv, Agrees
  <2> QED BY DEF EditEffect, Observed
<1>5. VerifyInv'
  <2> SUFFICES ASSUME capture.at = "verify", revision' = capture.revision,
                      settings' = capture.settings,
                      \A i \in capture.todo : ~(Stale(i)')
               PROVE  \E m \in moments : Fits(m)
    BY <1>0 DEF VerifyInv, Fits, Agrees
  <2>1. revision = capture.revision /\ settings = capture.settings
    BY <1>0, CopyFields DEF ClockInv, Copying, EditEffect
  <2>2. ASSUME NEW i \in capture.todo PROVE ~Stale(i)
    <3>1. i \in DOMAIN Entries /\ Copying /\ Entries = capture.entries
      BY DEF VerifyInv, Entries, Copying
    <3>2. i \in Images /\ Entries[i].stamp \in Int /\ disk[i].stamp \in Nat
      BY <3>1, EntriesCopied
    <3>3. disk[i].stamp <= disk'[i].stamp /\ disk'[i].stamp \in Nat
      BY <3>2 DEF EditEffect, SnapshotTypeOK, FilesTypeOK, Files
    <3> QED BY <1>0, <3>1, <3>2, <3>3 DEF Stale
  <2> QED BY <2>1, <2>2 DEF VerifyInv
<1>6. SnapshotIsOneMoment'
  BY <1>0 DEF SnapshotIsOneMoment, Agrees
<1>7. TurnInv'
  BY <1>0 DEF TurnInv, Turn
<1> QED BY <1>1, <1>2, <1>3, <1>4, <1>5, <1>6, <1>7

-----------------------------------------------------------------------------
(* The steps of the copy.                                                  *)
LEMMA CopyFails ==
  ASSUME CaptureInv, Fails
  PROVE  CaptureInv'
BY DEF CaptureInv, Fails, Capture, dataset, editors, SnapshotTypeOK, RowsTypeOK, FilesTypeOK,
       CaptureTypeOK, HasEntries, ClockInv, FilesInv, TurnInv, RowsInv, MomentInv, VerifyInv,
       SnapshotIsOneMoment, Copying

LEMMA CopyBegins ==
  ASSUME CaptureInv, CaptureBegins \/ CaptureQueries
  PROVE  CaptureInv'
<1> USE DEF CaptureInv, dataset, editors, Copying, Entries
<1>0. UNCHANGED <<dataset, editors, edits>>
  BY DEF CaptureBegins, CaptureQueries, Capture, Fails
<1>1. RowsTypeOK' /\ FilesTypeOK' /\ Moment' = Moment /\ KeptImages' = KeptImages
  BY <1>0 DEF SnapshotTypeOK, RowsTypeOK, FilesTypeOK, Moment, KeptImages, Picture
<1>2. KeptImages \subseteq Images
  BY DEF KeptImages
<1>3. CASE CaptureBegins
  <2>1. /\ capture' = [at |-> "query", revision |-> revision, settings |-> settings]
        /\ moments' = {Moment}
    BY <1>3 DEF CaptureBegins
  <2>2. CaptureTypeOK'
    BY <2>1 DEF SnapshotTypeOK, RowsTypeOK, CaptureTypeOK
  <2> QED BY <1>0, <1>1, <2>1, <2>2
      DEF SnapshotTypeOK, RowsTypeOK, ClockInv, FilesInv, TurnInv, RowsInv, MomentInv, VerifyInv,
          SnapshotIsOneMoment
<1>4. CASE CaptureQueries /\ ~Fails
  <2> DEFINE none == [i \in {} |-> None]
  <2>1. /\ capture' = [at |-> "copy", revision |-> capture.revision,
                       settings |-> capture.settings, todo |-> KeptImages, entries |-> none]
        /\ moments' = moments /\ capture.at = "query"
    BY <1>4 DEF CaptureQueries, Capture
  <2>2. DOMAIN none = {} /\ none \in [{} -> PictureEntry]
    OBVIOUS
  <2> HIDE DEF none
  <2>3. CaptureTypeOK'
    BY <1>2, <2>1, <2>2, CopyFields DEF CaptureTypeOK, HasEntries, EntriesTyped
  <2>4. MomentInv'
    BY <1>1, <2>1, <2>2 DEF MomentInv
  <2> QED BY <1>0, <1>1, <2>1, <2>2, <2>3, <2>4
      DEF SnapshotTypeOK, ClockInv, FilesInv, TurnInv, RowsInv, VerifyInv, SnapshotIsOneMoment
<1> QED BY <1>3, <1>4, CopyFails

(* The file a copy takes.                                                  *)
LEMMA FileCopied ==
  ASSUME SnapshotTypeOK, NEW i \in Images, NEW source \in Sources, File(i, source).there
  PROVE  /\ File(i, source).picture \in Int /\ File(i, source).stamp \in Int
         /\ File(i, source).picture = Picture(i, source)
         /\ source = "upload" => File(i, source).picture = Uploaded
         /\ source = "working" => /\ File(i, source).picture = disk[i].picture
                                  /\ File(i, source).stamp = disk[i].stamp
<1>1. disk[i].there /\ disk[i].picture \in Int /\ disk[i].stamp \in Nat
  BY DEF File, SnapshotTypeOK, FilesTypeOK, Files
<1> QED BY <1>1 DEF File, Picture, Sources, Uploaded

LEMMA CopyTakes ==
  ASSUME CaptureInv, NEW i \in Images, CaptureCopies(i)
  PROVE  CaptureInv'
<1> DEFINE source == SourceOf(i)
           file == File(i, source)
           entry == [source |-> source, picture |-> file.picture,
                     stamp |-> file.stamp, caption |-> photo[i].caption]
           new == [k \in DOMAIN capture.entries \cup {i} |->
                     IF k = i THEN entry ELSE capture.entries[k]]
<1> USE DEF CaptureInv
<1>1. CASE Fails
  BY <1>1, CopyFails
<1>2. CASE ~Fails
  <2>1. /\ capture.at = "copy" /\ Turn(i) /\ file.there
        /\ capture' = [capture EXCEPT !.at = "check", !.entries = new]
        /\ moments' = {m \in moments : Agrees(m, i, entry)}
        /\ UNCHANGED <<dataset, editors, edits>>
    BY <1>2 DEF CaptureCopies
  <2>2. source \in Sources
    BY DEF SourceOf, Sources
  <2>3. file.picture = Picture(i, source) /\ entry \in PictureEntry
    <3>1. photo[i].caption \in Captions
      BY DEF SnapshotTypeOK, RowsTypeOK, Photos
    <3> QED BY <2>1, <2>2, <3>1, FileCopied DEF PictureEntry
  <2>4. \/ source = "upload" /\ file.picture = Uploaded
        \/ source = "working" /\ file.picture = disk[i].picture /\ file.stamp = disk[i].stamp
    BY <2>1, <2>2, FileCopied DEF Sources
  <2>5. /\ capture.todo \subseteq Images /\ EntriesTyped(capture.entries)
        /\ DOMAIN capture = {"at", "revision", "settings", "todo", "entries"}
        /\ capture.revision \in Nat /\ capture.settings \in Nat
    BY <2>1, CopyFields DEF HasEntries
  <2>6. /\ entry.source = source /\ entry.picture = file.picture /\ entry.stamp = file.stamp
        /\ entry.caption = photo[i].caption
    OBVIOUS
  <2>7. /\ DOMAIN new = DOMAIN capture.entries \cup {i}
        /\ new[i] = entry
        /\ \A k \in DOMAIN capture.entries : k # i => new[k] = capture.entries[k]
    OBVIOUS
  <2>8. EntriesTyped(new)
    <3>1. \A k \in DOMAIN capture.entries : capture.entries[k] \in PictureEntry
      BY <2>5 DEF EntriesTyped
    <3> HIDE DEF entry
    <3> QED BY <2>3, <2>5, <3>1 DEF EntriesTyped
  <2>9. Moment' = Moment /\ KeptImages' = KeptImages /\ photo' = photo /\ disk' = disk
        /\ revision' = revision /\ settings' = settings
    BY <2>1 DEF dataset, Moment, KeptImages, Picture
  <2> HIDE DEF new, entry, file, source
  <2>10. /\ capture'.at = "check" /\ capture'.entries = new /\ capture'.todo = capture.todo
         /\ capture'.revision = capture.revision /\ capture'.settings = capture.settings
         /\ capture' \in [at : {"check"}, revision : Nat, settings : Nat,
                          todo : SUBSET Images, entries : {new}]
    BY <2>1, <2>5
  <2>11. Entries = capture.entries /\ Entries' = new /\ Copying /\ Copying'
    BY <2>1, <2>10 DEF Entries, Copying
  <2>12. SnapshotTypeOK'
    BY <2>1, <2>8, <2>10 DEF SnapshotTypeOK, RowsTypeOK, FilesTypeOK, CaptureTypeOK, HasEntries,
       dataset, editors
  <2>13. ClockInv'
    BY <2>9, <2>10, <2>11 DEF ClockInv
  <2>14. FilesInv'
    <3> SUFFICES ASSUME NEW k \in DOMAIN new
                 PROVE  \/ new[k].source = "upload" /\ new[k].picture = Uploaded
                        \/ /\ new[k].source = "working"
                           /\ new[k].stamp <= disk[k].stamp
                           /\ new[k].stamp = disk[k].stamp => new[k].picture = disk[k].picture
      BY <2>9, <2>11 DEF FilesInv
    <3>1. CASE k = i
      <4>1. disk[i].stamp \in Nat
        BY DEF SnapshotTypeOK, FilesTypeOK, Files
      <4> QED BY <2>4, <2>6, <2>7, <3>1, <4>1
    <3>2. CASE k # i
      BY <2>7, <2>11, <3>2 DEF FilesInv
    <3> QED BY <3>1, <3>2
  <2>15. TurnInv'
    <3>1. capture.todo \cap DOMAIN capture.entries = {} /\ i \in capture.todo
      BY <2>1 DEF TurnInv, Turn
    <3>2. ASSUME NEW k \in Images, Turn(k)' PROVE k = i
      <4>1. k \in capture.todo /\ k <= i /\ i <= k
        BY <2>1, <2>10, <3>2 DEF Turn
      <4> QED BY <4>1, SnapshotBounds
    <3>3. Turn(i)'
      BY <2>1, <2>10 DEF Turn
    <3> QED BY <2>7, <2>10, <3>1, <3>2, <3>3 DEF TurnInv
  <2>16. RowsInv'
    <3> SUFFICES ASSUME revision = capture.revision
                 PROVE  /\ KeptImages = DOMAIN new \cup capture.todo
                        /\ \A k \in DOMAIN new : photo[k].caption = new[k].caption
      BY <2>9, <2>10 DEF RowsInv
    <3>1. /\ KeptImages = DOMAIN capture.entries \cup capture.todo
          /\ \A k \in DOMAIN capture.entries : photo[k].caption = capture.entries[k].caption
      BY <2>1 DEF RowsInv
    <3>2. i \in capture.todo
      BY <2>1 DEF Turn
    <3> QED BY <2>6, <2>7, <3>1, <3>2
  <2>17. MomentInv'
    <3> SUFFICES ASSUME \A k \in DOMAIN new : Agrees(Moment, k, new[k])
                 PROVE  Moment \in moments /\ Agrees(Moment, i, entry)
      BY <2>1, <2>9, <2>11 DEF MomentInv, Agrees
    <3>1. Agrees(Moment, i, entry)
      BY <2>7
    <3>2. ASSUME NEW k \in DOMAIN capture.entries PROVE Agrees(Moment, k, capture.entries[k])
      <4>1. k # i
        BY <2>1 DEF TurnInv, Turn
      <4> QED BY <2>7, <4>1
    <3> QED BY <2>11, <3>1, <3>2 DEF MomentInv
  <2>18. VerifyInv' /\ SnapshotIsOneMoment'
    BY <2>10 DEF VerifyInv, SnapshotIsOneMoment
  <2> QED BY <2>12, <2>13, <2>14, <2>15, <2>16, <2>17, <2>18
<1> QED BY <1>1, <1>2

(* What a comparison and what follows it leave alone.                      *)
LEMMA CopyLeavesData ==
  ASSUME SnapshotTypeOK, UNCHANGED <<dataset, editors, moments, edits>>
  PROVE  /\ RowsTypeOK' /\ FilesTypeOK' /\ Moment' = Moment /\ KeptImages' = KeptImages
         /\ photo' = photo /\ disk' = disk /\ revision' = revision /\ settings' = settings
         /\ moments' = moments
BY DEF dataset, editors, SnapshotTypeOK, RowsTypeOK, FilesTypeOK, Moment, KeptImages, Picture

LEMMA CopyChecks ==
  ASSUME CaptureInv, NEW i \in Images, CaptureChecks(i)
  PROVE  CaptureInv'
<1> USE DEF CaptureInv
<1>1. CASE Fails
  BY <1>1, CopyFails
<1>2. CASE ~Fails
  <2>1. /\ capture.at = "check" /\ Turn(i) /\ UNCHANGED <<dataset, editors, moments, edits>>
        /\ capture' = [capture EXCEPT !.at = "copy", !.todo = @ \ {i}]
    BY <1>2 DEF CaptureChecks, Capture
  <2>2. /\ capture.todo \subseteq Images /\ EntriesTyped(capture.entries)
        /\ DOMAIN capture = {"at", "revision", "settings", "todo", "entries"}
        /\ capture.revision \in Nat /\ capture.settings \in Nat
    BY <2>1, CopyFields DEF HasEntries
  <2>3. /\ capture'.at = "copy" /\ capture'.todo = capture.todo \ {i}
        /\ capture'.entries = capture.entries
        /\ capture'.revision = capture.revision /\ capture'.settings = capture.settings
        /\ capture' \in [at : {"copy"}, revision : Nat, settings : Nat,
                         todo : SUBSET Images, entries : {capture.entries}]
    BY <2>1, <2>2
  <2>4. Entries = capture.entries /\ Entries' = Entries /\ Copying /\ Copying'
    BY <2>1, <2>3 DEF Entries, Copying
  <2>5. SnapshotTypeOK'
    BY <2>1, <2>2, <2>3, CopyLeavesData DEF SnapshotTypeOK, CaptureTypeOK, HasEntries
  <2>6. ClockInv' /\ FilesInv' /\ MomentInv'
    BY <2>1, <2>3, <2>4, CopyLeavesData DEF ClockInv, FilesInv, MomentInv, Agrees
  <2>7. \A k \in Images : k \in capture.todo \cap DOMAIN capture.entries => k = i
    <3> SUFFICES ASSUME NEW k \in Images, k \in capture.todo \cap DOMAIN capture.entries
                 PROVE  k = i
      OBVIOUS
    <3>1. Turn(k)
      BY <2>1 DEF TurnInv
    <3> QED BY <2>1, <3>1, SnapshotBounds DEF Turn
  <2>8. i \in DOMAIN capture.entries
    BY <2>1 DEF TurnInv
  <2>9. TurnInv'
    BY <2>2, <2>3, <2>7 DEF TurnInv, EntriesTyped
  <2>10. RowsInv'
    BY <2>1, <2>3, <2>8, CopyLeavesData DEF RowsInv
  <2> QED BY <2>3, <2>5, <2>6, <2>9, <2>10 DEF VerifyInv, SnapshotIsOneMoment
<1> QED BY <1>1, <1>2

(* The moment of the snapshot: nothing written since it was copied is left *)
(* unseen by the comparison that begins, unless the comparison will see it. *)
LEMMA CopyReviews ==
  ASSUME CaptureInv, CaptureReviews
  PROVE  CaptureInv'
<1> USE DEF CaptureInv
<1>1. /\ capture.at = "copy" /\ capture.todo = {} /\ UNCHANGED <<dataset, editors, moments, edits>>
      /\ capture' = [capture EXCEPT !.at = "verify", !.todo = DOMAIN capture.entries]
  BY DEF CaptureReviews, Capture
<1>2. /\ EntriesTyped(capture.entries)
      /\ DOMAIN capture = {"at", "revision", "settings", "todo", "entries"}
      /\ capture.revision \in Nat /\ capture.settings \in Nat
  BY <1>1, CopyFields DEF HasEntries
<1>3. /\ capture'.at = "verify" /\ capture'.todo = DOMAIN capture.entries
      /\ capture'.entries = capture.entries
      /\ capture'.revision = capture.revision /\ capture'.settings = capture.settings
      /\ capture' \in [at : {"verify"}, revision : Nat, settings : Nat,
                       todo : SUBSET Images, entries : {capture.entries}]
  BY <1>1, <1>2 DEF EntriesTyped
<1>4. Entries = capture.entries /\ Entries' = Entries /\ Copying /\ Copying'
  BY <1>1, <1>3 DEF Entries, Copying
<1>5. SnapshotTypeOK'
  BY <1>1, <1>2, <1>3, CopyLeavesData DEF SnapshotTypeOK, CaptureTypeOK, HasEntries
<1>6. ClockInv' /\ FilesInv' /\ MomentInv' /\ TurnInv' /\ RowsInv'
  BY <1>1, <1>3, <1>4, CopyLeavesData
     DEF ClockInv, FilesInv, MomentInv, TurnInv, RowsInv, Agrees
<1>7. VerifyInv'
  <2> SUFFICES ASSUME revision = capture.revision, settings = capture.settings,
                      \A i \in DOMAIN capture.entries :
                         ~(/\ capture.entries[i].source = "working"
                           /\ capture.entries[i].stamp < disk[i].stamp)
               PROVE  \E m \in moments : Fits(m)
    BY <1>1, <1>3, CopyLeavesData DEF VerifyInv, Fits, Agrees, Stale
  <2>1. /\ KeptImages = DOMAIN capture.entries
        /\ \A i \in DOMAIN capture.entries : photo[i].caption = capture.entries[i].caption
    BY <1>1 DEF RowsInv
  <2>2. /\ Moment.settings = capture.settings /\ DOMAIN Moment.captions = KeptImages
        /\ \A i \in KeptImages : Moment.captions[i] = photo[i].caption
        /\ \A i \in Images : \A s \in Sources : Moment.files[i][s] = Picture(i, s)
    BY DEF Moment
  <2>3. ASSUME NEW i \in DOMAIN capture.entries PROVE Agrees(Moment, i, capture.entries[i])
    <3>1. /\ i \in Images /\ capture.entries[i].stamp \in Int /\ disk[i].stamp \in Nat
      BY <1>4, EntriesCopied
    <3>2. \/ /\ capture.entries[i].source = "upload"
             /\ capture.entries[i].picture = Uploaded
          \/ /\ capture.entries[i].source = "working"
             /\ capture.entries[i].picture = disk[i].picture
      BY <1>4, <3>1 DEF FilesInv
    <3>3. capture.entries[i].picture = Picture(i, capture.entries[i].source)
      BY <3>2 DEF Picture
    <3> QED BY <2>1, <2>2, <3>1, <3>2, <3>3 DEF Agrees, Sources
  <2>4. Moment \in moments
    BY <1>4, <2>3 DEF MomentInv
  <2> QED BY <2>1, <2>2, <2>3, <2>4 DEF Fits
<1> QED BY <1>3, <1>5, <1>6, <1>7 DEF SnapshotIsOneMoment

(* A file that was written since it was copied does not pass.              *)
LEMMA CopyVerifies ==
  ASSUME CaptureInv, NEW i \in Images, CaptureVerifies(i)
  PROVE  CaptureInv'
<1> USE DEF CaptureInv
<1>1. CASE Fails
  BY <1>1, CopyFails
<1>2. CASE ~Fails
  <2>1. /\ capture.at = "verify" /\ Turn(i) /\ Unchanged(i)
        /\ UNCHANGED <<dataset, editors, moments, edits>>
        /\ capture' = [capture EXCEPT !.todo = @ \ {i}]
    BY <1>2 DEF CaptureVerifies, Capture
  <2>2. /\ capture.todo \subseteq Images /\ EntriesTyped(capture.entries)
        /\ DOMAIN capture = {"at", "revision", "settings", "todo", "entries"}
        /\ capture.revision \in Nat /\ capture.settings \in Nat
    BY <2>1, CopyFields DEF HasEntries
  <2>3. /\ capture'.at = "verify" /\ capture'.todo = capture.todo \ {i}
        /\ capture'.entries = capture.entries
        /\ capture'.revision = capture.revision /\ capture'.settings = capture.settings
        /\ capture' \in [at : {"verify"}, revision : Nat, settings : Nat,
                         todo : SUBSET Images, entries : {capture.entries}]
    BY <2>1, <2>2
  <2>4. Entries = capture.entries /\ Entries' = Entries /\ Copying /\ Copying'
    BY <2>1, <2>3 DEF Entries, Copying
  <2>5. SnapshotTypeOK'
    BY <2>1, <2>2, <2>3, CopyLeavesData DEF SnapshotTypeOK, CaptureTypeOK, HasEntries
  <2>6. ClockInv' /\ FilesInv' /\ MomentInv' /\ TurnInv' /\ RowsInv'
    BY <2>1, <2>3, <2>4, CopyLeavesData
       DEF ClockInv, FilesInv, MomentInv, TurnInv, RowsInv, Agrees
  <2>7. ~Stale(i)
    <3>1. i \in DOMAIN capture.entries
      BY <2>1 DEF VerifyInv, Turn
    <3>2. capture.entries[i].stamp \in Int /\ disk[i].stamp \in Nat
      BY <2>4, <3>1, EntriesCopied
    <3> SUFFICES ASSUME capture.entries[i].source = "working"
                 PROVE  disk[i].stamp = capture.entries[i].stamp
      BY <3>2 DEF Stale
    <3>3. File(i, "working").stamp = capture.entries[i].stamp /\ File(i, "working").there
      BY <2>1 DEF Unchanged
    <3> QED BY <3>3, FileCopied DEF Sources
  <2>8. VerifyInv'
    <3>1. capture.todo \ {i} \subseteq DOMAIN capture.entries
      BY <2>1 DEF VerifyInv
    <3> SUFFICES ASSUME revision = capture.revision, settings = capture.settings,
                        \A k \in capture.todo \ {i} : ~Stale(k)
                 PROVE  \E m \in moments : Fits(m)
      BY <2>1, <2>3, <3>1, CopyLeavesData DEF VerifyInv, Fits, Agrees, Stale
    <3> QED BY <2>1, <2>7 DEF VerifyInv
  <2> QED BY <2>3, <2>5, <2>6, <2>8 DEF SnapshotIsOneMoment
<1> QED BY <1>1, <1>2

LEMMA CopyPublishes ==
  ASSUME CaptureInv, CapturePublishes
  PROVE  CaptureInv'
<1> USE DEF CaptureInv
<1>1. CASE Fails
  BY <1>1, CopyFails
<1>2. CASE ~Fails
  <2>1. /\ capture.at = "verify" /\ capture.todo = {}
        /\ revision = capture.revision /\ settings = capture.settings
        /\ UNCHANGED <<dataset, editors, moments, edits>>
        /\ capture' = [capture EXCEPT !.at = "published"]
    BY <1>2 DEF CapturePublishes, Capture
  <2>2. /\ EntriesTyped(capture.entries)
        /\ DOMAIN capture = {"at", "revision", "settings", "todo", "entries"}
        /\ capture.revision \in Nat /\ capture.settings \in Nat
    BY <2>1, CopyFields DEF HasEntries
  <2>3. /\ capture'.at = "published" /\ capture'.entries = capture.entries
        /\ capture'.settings = capture.settings
        /\ capture' \in [at : {"published"}, revision : Nat, settings : Nat,
                         todo : SUBSET Images, entries : {capture.entries}]
    BY <2>1, <2>2
  <2>4. SnapshotTypeOK'
    BY <2>1, <2>2, <2>3, CopyLeavesData DEF SnapshotTypeOK, CaptureTypeOK, HasEntries
  <2>5. \E m \in moments : Fits(m)
    BY <2>1 DEF VerifyInv
  <2>6. SnapshotIsOneMoment'
    BY <2>1, <2>3, <2>5, CopyLeavesData DEF SnapshotIsOneMoment, Fits, Agrees
  <2> QED BY <2>3, <2>4, <2>6
          DEF ClockInv, FilesInv, MomentInv, TurnInv, RowsInv, VerifyInv, Copying
<1> QED BY <1>1, <1>2

LEMMA SnapshotKeeps ==
  ASSUME CaptureInv, SnapshotNext
  PROVE  CaptureInv'
<1>1. CASE Edits
  BY <1>1, EditsAreSeen, EditsKeepCopies DEF CaptureInv
<1>2. CASE Captures
  BY <1>2, CopyBegins, CopyTakes, CopyChecks, CopyReviews, CopyVerifies, CopyPublishes DEF Captures
<1> QED BY <1>1, <1>2 DEF SnapshotNext

-----------------------------------------------------------------------------
(* The launches around the copy.                                           *)
LEMMA FreshDataset ==
  ASSUME NEW at \in {"off", "returned", "refused"}, Leave([at |-> at])
  PROVE  CaptureInv'
<1>1. capture'.at = at /\ capture' = [at |-> at]
  BY DEF Leave
<1>2. SnapshotTypeOK'
  <2>1. [status |-> "keep", caption |-> "short", scaled |-> FALSE] \in Photos
    BY DEF Photos, Captions
  <2>2. [there |-> TRUE, picture |-> Uploaded, stamp |-> 0] \in Files
    BY DEF Files, Uploaded
  <2>3. RowsTypeOK'
    BY <2>1, SnapshotBounds DEF Leave, RowsTypeOK
  <2>4. FilesTypeOK'
    BY <2>2 DEF Leave, FilesTypeOK, Idle, None
  <2>5. CaptureTypeOK'
    BY <1>1 DEF CaptureTypeOK
  <2> QED BY <2>3, <2>4, <2>5 DEF SnapshotTypeOK
<1> QED BY <1>1, <1>2 DEF CaptureInv, ClockInv, FilesInv, MomentInv, TurnInv, RowsInv, VerifyInv,
        SnapshotIsOneMoment, Copying

(* The invariant of the copy holds whatever the runs, the sweeps and the   *)
(* crashes around it do.                                                   *)
THEOREM CaptureInvariant == LaunchSpec => []CaptureInv
<1>1. LaunchInit => CaptureInv
  <2> SUFFICES ASSUME SnapshotInit PROVE CaptureInv
    BY DEF LaunchInit
  <2>1. [status |-> "keep", caption |-> "short", scaled |-> FALSE] \in Photos
    BY DEF Photos, Captions
  <2>2. [there |-> TRUE, picture |-> Uploaded, stamp |-> 0] \in Files
    BY DEF Files, Uploaded
  <2>3. SnapshotTypeOK
    BY <2>1, <2>2, SnapshotBounds
       DEF SnapshotInit, SnapshotTypeOK, RowsTypeOK, FilesTypeOK, CaptureTypeOK, Idle, None, NoCopy
  <2> QED BY <2>3 DEF SnapshotInit, NoCopy, CaptureInv, ClockInv, FilesInv, MomentInv, TurnInv,
          RowsInv, VerifyInv, SnapshotIsOneMoment, Copying
<1>2. CaptureInv /\ [LaunchNext]_launchVars => CaptureInv'
  <2> SUFFICES ASSUME CaptureInv, [LaunchNext]_launchVars PROVE CaptureInv'
    OBVIOUS
  <2>1. CASE UNCHANGED snapshotVars
    <3>1. /\ photo' = photo /\ settings' = settings /\ revision' = revision /\ disk' = disk
          /\ orig' = orig /\ redraw' = redraw /\ moving' = moving /\ capture' = capture
          /\ moments' = moments /\ edits' = edits
      BY <2>1 DEF snapshotVars, dataset, editors
    <3>2. Copying' = Copying /\ Entries' = Entries /\ Moment' = Moment /\ KeptImages' = KeptImages
      BY <3>1 DEF Copying, Entries, Moment, KeptImages, Picture
    <3>3. RowsTypeOK' /\ FilesTypeOK'
      BY <3>1 DEF CaptureInv, SnapshotTypeOK, RowsTypeOK, FilesTypeOK
    <3>4. CaptureTypeOK'
      BY <3>1 DEF CaptureInv, SnapshotTypeOK, CaptureTypeOK, HasEntries
    <3>5. ClockInv' /\ FilesInv' /\ TurnInv' /\ RowsInv'
      BY <3>1, <3>2 DEF CaptureInv, ClockInv, FilesInv, TurnInv, RowsInv, Turn
    <3>6. MomentInv' /\ VerifyInv' /\ SnapshotIsOneMoment'
      BY <3>1, <3>2 DEF CaptureInv, MomentInv, VerifyInv, SnapshotIsOneMoment, Agrees, Fits, Stale
    <3> QED BY <3>3, <3>4, <3>5, <3>6 DEF CaptureInv, SnapshotTypeOK
  <2>2. CASE SnapshotNext
    BY <2>2, SnapshotKeeps
  <2>3. CASE CopyReturns
    BY <2>3, FreshDataset DEF CopyReturns
  <2>4. CASE Leave(NoCopy)
    BY <2>4, FreshDataset DEF NoCopy
  <2> QED BY <2>1, <2>2, <2>3, <2>4 DEF LaunchNext, launchVars, SnapshotStarts, SnapshotFails
<1> QED BY <1>1, <1>2, PTL DEF LaunchSpec

(* Every variable of the copy and of the dataset keeps its type.           *)
THEOREM SnapshotTyped == LaunchSpec => []SnapshotTypeOK
BY CaptureInvariant, PTL DEF CaptureInv

(* A published snapshot is the dataset at one moment of its copy, for any  *)
(* number of images and of edits that run beside it.                       *)
THEOREM SnapshotShowsOneMoment == LaunchSpec => []SnapshotIsOneMoment
BY CaptureInvariant, PTL DEF CaptureInv

-----------------------------------------------------------------------------
(* The runs and their machines.                                            *)

(* The submission.  A phase is recorded after its call and before the next *)
(* one, and the start of the queue before its call.                        *)
SubmitInv == \A r \in Runs :
  /\ remote[r].creates = IF remote[r].job = "none" THEN 0 ELSE 1
  /\ remote[r].starts <= 1
  /\ remote[r].starts > 0 => row[r].phase \in {"queue_starting", "started"}
  /\ row[r].phase # "none" => remote[r].job # "none"
  /\ row[r].phase \notin {"none", "created"} => remote[r].seeded
  /\ remote[r].job \notin {"none", "created"} => remote[r].seeded
  /\ mon[r] = "submit" => row[r].phase \in {"none", "created", "seeded", "job_queued"}
  /\ mon[r] = "resubmit" =>
       row[r].phase \in {"seeded", "job_queued", "queue_starting", "started"}
  /\ mon[r] = "jobmade" => row[r].phase = "none" /\ remote[r].job # "none"
  /\ mon[r] = "seeding" => row[r].phase = "created" /\ remote[r].seeded
  /\ mon[r] = "queueing" => row[r].phase = "seeded"
  /\ mon[r] = "starting" => row[r].phase = "queue_starting" /\ remote[r].starts = 0
  /\ mon[r] = "started" => row[r].phase = "queue_starting"

(* A run has nothing before its launch admitted it, and no monitor before  *)
(* its launch has started it.                                              *)
LaunchInv == \A r \in Runs :
  /\ launch[r] \notin {"copy", "over"} => row[r].status = "none"
  /\ launch[r] # "over" => mon[r] = "off" /\ pod[r] = "none"
  /\ row[r].status = "none" => ~row[r].iid
  /\ row[r].status \in {"terminating", "error_pod_kept"} => row[r].iid
  /\ row[r].status = "terminating" => row[r].target # "none"

(* The machine and the meter.                                              *)
MachineInv == \A r \in Runs :
  /\ row[r].iid => pod[r] # "none" /\ row[r].meter # "none"
  /\ ~row[r].iid => row[r].meter = "none"
  /\ row[r].iid /\ pod[r] = "up" => row[r].meter = "open"
  /\ row[r].iid /\ pod[r] = "up" => row[r].status \notin {"done", "stopped", "error"}
  /\ mon[r] \in {"stage", "provision"} /\ ~row[r].iid => pod[r] = "none"
  /\ mon[r] \in {"provision", "rented"} => ~row[r].iid
  /\ mon[r] = "rented" => pod[r] = "up"
  /\ mon[r] \notin {"off", "stage", "provision", "rented", "closing"} => row[r].iid

(* Clean-ups under way.                                                    *)
ClosingInv == \A r \in Runs :
  /\ closing[<<"monitor", r>>].at # "no" <=> mon[r] = "closing"
  /\ closing[<<"request", r>>].at # "no" => row[r].iid
  /\ \A c \in Closers :
       /\ closing[<<c, r>>].at = "refused" => row[r].iid
       /\ closing[<<c, r>>].at = "destroyed" => ~row[r].iid \/ pod[r] # "up"

(* What a sweep has seen is still so, though only the registration of new  *)
(* machines is locked out.                                                 *)
SweepInv ==
  /\ sweep.at = "idle" <=> sweep.by = "nobody"
  /\ sweep.by \in Runs => launch[sweep.by] = "sweeping"
  /\ sweep.at # "idle" => \A r \in Runs : mon[r] # "rented"
  /\ sweep.at = "read" => \A r \in Runs : pod[r] = "up" => r \in sweep.seen
  /\ sweep.at = "work" => DOMAIN sweep.view = {r \in Runs : row[r].iid}
  /\ sweep.at # "work" => sweep.pods = {} /\ sweep.rows = {} /\ sweep.hit = {}
  /\ \A r \in sweep.seen \cup sweep.pods : pod[r] # "none"
  /\ \A r \in sweep.rows \cup sweep.hit : pod[r] = "gone"
  /\ sweep.rows \subseteq DOMAIN sweep.view
  /\ \A r \in DOMAIN sweep.view :
       sweep.view[r].status = "terminating" => sweep.view[r].target # "none"
  /\ \A r \in sweep.pods \cap DOMAIN sweep.view : pod[r] = "up" =>
       /\ sweep.view[r].status \in {"terminating", "error_pod_kept"}
       /\ sweep.view[r].status = "terminating" => row[r].target # "none"

(* Rows that a recovery has listed were admitted.                          *)
RecoverInv == \A p \in Recoverers : \A r \in rec[p].rows : row[r].status # "none"

CloudInv == /\ CloudTypeOK /\ SubmitInv /\ LaunchInv /\ MachineInv /\ ClosingInv
            /\ SweepInv /\ RecoverInv
-----------------------------------------------------------------------------
(* What the clean-up writes make of a row.                                 *)
LEMMA CompletedFields ==
  ASSUME NEW old \in Rows, NEW goal \in Goals
  PROVE  /\ Completed(old, goal) \in Rows
         /\ Completed(old, goal).status = goal
         /\ Completed(old, goal).iid = old.iid
         /\ Completed(old, goal).phase = old.phase
         /\ Completed(old, goal).target = "none"
         /\ Completed(old, goal).meter = IF old.meter = "none" THEN "none" ELSE "closed"
  BY DEF Completed, Rows, Goals, Ended

LEMMA PendingFields ==
  ASSUME NEW old \in Rows, NEW goal \in Goals
  PROVE  /\ Pending(old, goal) \in Rows
         /\ Pending(old, goal).status = "terminating"
         /\ Pending(old, goal).iid = old.iid
         /\ Pending(old, goal).phase = old.phase
         /\ Pending(old, goal).target = goal
         /\ Pending(old, goal).meter = IF old.meter = "none" THEN "none" ELSE "open"
  BY DEF Pending, Rows, Goals, Active

LEMMA SettledFields ==
  ASSUME NEW old \in Rows, NEW seen \in Views,
         seen.status = "terminating" => seen.target # "none",
         old.meter # "none"
  PROVE  /\ Settled(old, seen) \in Rows
         /\ Settled(old, seen).status =
              IF seen.status = "terminating" THEN seen.target ELSE old.status
         /\ seen.status = "terminating" => Settled(old, seen).status \in Goals
         /\ Settled(old, seen).iid = old.iid
         /\ Settled(old, seen).phase = old.phase
         /\ Settled(old, seen).target =
              IF seen.status = "terminating" THEN "none" ELSE old.target
         /\ Settled(old, seen).meter = "closed"
<1>1. CASE seen.status = "terminating"
  <2>1. seen.target \in Goals
    BY <1>1 DEF Views
  <2> QED BY <1>1, <2>1, CompletedFields DEF Settled
<1>2. CASE seen.status # "terminating"
  BY <1>2 DEF Settled, Rows
<1> QED BY <1>1, <1>2

(* What a sweep and the end of a clean-up write to a row.                  *)
LEMMA SweepWrites ==
  ASSUME CloudInv, NEW r \in Runs, SweepRecords(r) \/ SweepUnlisted(r)
  PROVE  /\ UNCHANGED <<pod, remote, mon, closing, launch, rec>>
         /\ \/ UNCHANGED row
            \/ \E seen \in Views :
                 /\ seen.status = "terminating" => seen.target # "none"
                 /\ row' = [row EXCEPT ![r] = Settled(row[r], seen)]
                 /\ row[r] \in Rows /\ row[r].iid /\ row[r].meter # "none" /\ pod[r] = "gone"
<1>1. UNCHANGED <<pod, remote, mon, closing, launch, rec>>
  BY DEF SweepRecords, SweepUnlisted, External
<1>2. sweep.at = "work" /\ r \in sweep.hit \cup sweep.rows
  BY DEF SweepRecords, SweepUnlisted
<1>3. row[r] \in Rows /\ pod[r] = "gone"
  BY <1>2 DEF CloudInv, CloudTypeOK, SweepInv
<1>4. ASSUME r \in DOMAIN sweep.view
      PROVE  /\ row[r].iid /\ row[r].meter # "none"
             /\ sweep.view[r] \in Views
             /\ sweep.view[r].status = "terminating" => sweep.view[r].target # "none"
  BY <1>2, <1>4 DEF CloudInv, SweepInv, CloudTypeOK, SweepTypeOK, MachineInv
<1>5. /\ Seen(r) \in Views
      /\ Seen(r).status = "terminating" => Seen(r).target # "none"
  BY <1>3 DEF Seen, Views, Rows, CloudInv, LaunchInv
<1>6. CASE SweepRecords(r)
  BY <1>1, <1>3, <1>4, <1>6 DEF SweepRecords, SetRow
<1>7. CASE SweepUnlisted(r)
  <2>1. r \in DOMAIN sweep.view
    BY <1>7 DEF SweepUnlisted, CloudInv, SweepInv
  <2>2. View(r) \in Views /\ (View(r).status = "terminating" => View(r).target # "none")
    BY <1>4, <1>5, <2>1 DEF View
  <2> QED BY <1>1, <1>3, <1>4, <1>7, <2>1, <2>2 DEF SweepUnlisted, SetRow
<1> QED BY <1>6, <1>7

LEMMA FinishWrites ==
  ASSUME CloudInv, NEW c \in Closers, NEW r \in Runs, FinishRecords(c, r)
  PROVE  /\ closing' = [closing EXCEPT ![<<c, r>>] = NotClosing]
         /\ mon' = IF c = "monitor" THEN [mon EXCEPT ![r] = "off"] ELSE mon
         /\ c = "monitor" => mon[r] = "closing"
         /\ UNCHANGED <<pod, remote, launch, rec, sweep>>
         /\ \E new \in Rows :
              /\ row' = [row EXCEPT ![r] = new]
              /\ new.iid = row[r].iid /\ new.phase = row[r].phase
              /\ \/ /\ new.status \in Goals /\ new.target = "none"
                    /\ new.meter = IF row[r].meter = "none" THEN "none" ELSE "closed"
                    /\ ~row[r].iid \/ pod[r] # "up"
                 \/ /\ new.status = "terminating" /\ new.target \in Goals
                    /\ new.meter = IF row[r].meter = "none" THEN "none" ELSE "open"
                    /\ row[r].iid
<1> DEFINE old == closing[<<c, r>>]
<1>1. old \in Closings /\ row[r] \in Rows
  BY DEF CloudInv, CloudTypeOK
<1>2. old.goal \in Goals
  BY <1>1 DEF Closings
<1>3. /\ old.at = "refused" => row[r].iid
      /\ old.at = "destroyed" => ~row[r].iid \/ pod[r] # "up"
      /\ c = "monitor" => (old.at # "no" <=> mon[r] = "closing")
  BY DEF CloudInv, ClosingInv
<1>4. old.at \in {"destroyed", "refused"}
  BY DEF FinishRecords
<1>5. /\ closing' = [closing EXCEPT ![<<c, r>>] = NotClosing]
      /\ mon' = IF c = "monitor" THEN [mon EXCEPT ![r] = "off"] ELSE mon
      /\ UNCHANGED <<pod, remote, launch, rec, sweep>>
  BY DEF FinishRecords, Mon, External
<1>6. CASE old.at = "destroyed"
  <2> DEFINE made == Completed(row[r], old.goal)
  <2>1. row' = [row EXCEPT ![r] = made]
    BY <1>6 DEF FinishRecords, SetRow
  <2>2. made \in Rows /\ made.iid = row[r].iid /\ made.phase = row[r].phase
    BY <1>1, <1>2, CompletedFields
  <2>3. /\ made.status \in Goals /\ made.target = "none"
        /\ made.meter = IF row[r].meter = "none" THEN "none" ELSE "closed"
        /\ ~row[r].iid \/ pod[r] # "up"
    BY <1>1, <1>2, <1>3, <1>6, CompletedFields
  <2>4. c = "monitor" => mon[r] = "closing"
    BY <1>3, <1>6
  <2> HIDE DEF made, old
  <2> QED BY <1>3, <1>5, <1>6, <2>1, <2>2, <2>3, <2>4
<1>7. CASE old.at = "refused"
  <2> DEFINE made == Pending(row[r], old.goal)
  <2>1. row' = [row EXCEPT ![r] = made]
    BY <1>7 DEF FinishRecords, SetRow
  <2>2. made \in Rows /\ made.iid = row[r].iid /\ made.phase = row[r].phase
    BY <1>1, <1>2, PendingFields
  <2>3. /\ made.status = "terminating" /\ made.target \in Goals
        /\ made.meter = IF row[r].meter = "none" THEN "none" ELSE "open"
        /\ row[r].iid
    BY <1>1, <1>2, <1>3, <1>7, PendingFields
  <2>4. c = "monitor" => mon[r] = "closing"
    BY <1>3, <1>7
  <2> HIDE DEF made, old
  <2> QED BY <1>3, <1>5, <1>7, <2>1, <2>2, <2>3, <2>4
<1> QED BY <1>4, <1>6, <1>7

(* None of these writes touches the phase of a submission.                 *)
LEMMA PhaseKept ==
  ASSUME CloudInv, NEW r \in Runs,
         \/ SweepRecords(r) \/ SweepUnlisted(r)
         \/ \E c \in Closers : FinishRecords(c, r)
         \/ \E p \in Recoverers : RecoverRow(p, r)
  PROVE  /\ UNCHANGED remote
         /\ \A s \in Runs : /\ row'[s].phase = row[s].phase
                            /\ mon'[s] = mon[s] \/ mon'[s] \in {"off", "stage"}
<1>1. \A s \in Runs : row[s] \in Rows /\ row \in [Runs -> Rows] /\ mon \in [Runs -> Places]
  BY DEF CloudInv, CloudTypeOK
<1>2. CASE SweepRecords(r) \/ SweepUnlisted(r)
  <2>1. UNCHANGED <<remote, mon>>
    BY <1>2, SweepWrites
  <2>2. CASE UNCHANGED row
    BY <2>1, <2>2
  <2>3. ASSUME NEW seen \in Views, seen.status = "terminating" => seen.target # "none",
               row' = [row EXCEPT ![r] = Settled(row[r], seen)], row[r].meter # "none"
        PROVE  \A s \in Runs : row'[s].phase = row[s].phase
    <3>1. Settled(row[r], seen).phase = row[r].phase
      BY <1>1, <2>3, SettledFields
    <3> QED BY <1>1, <2>3, <3>1
  <2> QED BY <1>2, <2>1, <2>2, <2>3, SweepWrites
<1>3. ASSUME NEW c \in Closers, FinishRecords(c, r)
      PROVE  /\ UNCHANGED remote
             /\ \A s \in Runs : /\ row'[s].phase = row[s].phase
                                /\ mon'[s] = mon[s] \/ mon'[s] \in {"off", "stage"}
  <2>1. PICK new \in Rows : row' = [row EXCEPT ![r] = new] /\ new.phase = row[r].phase
    BY <1>3, FinishWrites
  <2>2. mon' = IF c = "monitor" THEN [mon EXCEPT ![r] = "off"] ELSE mon
    BY <1>3, FinishWrites
  <2>3. UNCHANGED remote
    BY <1>3, FinishWrites
  <2> QED BY <1>1, <2>1, <2>2, <2>3
<1>4. ASSUME NEW p \in Recoverers, RecoverRow(p, r)
      PROVE  /\ UNCHANGED remote
             /\ \A s \in Runs : /\ row'[s].phase = row[s].phase
                                /\ mon'[s] = mon[s] \/ mon'[s] \in {"off", "stage"}
  <2>1. UNCHANGED remote
    BY <1>4 DEF RecoverRow, External
  <2>2. CASE UNCHANGED row /\ (UNCHANGED mon \/ mon' = [mon EXCEPT ![r] = "stage"])
    BY <1>1, <2>1, <2>2
  <2>3. CASE UNCHANGED mon /\ row' = [row EXCEPT ![r] = [row[r] EXCEPT !.status = "error"]]
    BY <1>1, <2>1, <2>3 DEF Rows
  <2>4. CASE mon[r] # "off"
    BY <1>4, <2>2, <2>4 DEF RecoverRow
  <2>5. CASE mon[r] = "off" /\ row[r].iid
    BY <1>4, <2>2, <2>5 DEF RecoverRow, Mon
  <2>6. CASE mon[r] = "off" /\ ~row[r].iid
    BY <1>4, <2>3, <2>6 DEF RecoverRow, SetRow
  <2> QED BY <2>4, <2>5, <2>6
<1> QED BY <1>2, <1>3, <1>4

(* A sweep does not notice a step that leaves it and the machines alone.   *)
LEMMA SweepKept ==
  ASSUME CloudInv, UNCHANGED <<pod, launch, sweep>>,
         \A r \in Runs :
           /\ row'[r].iid = row[r].iid
           /\ mon'[r] = "rented" => mon[r] = "rented"
           /\ row[r].iid /\ pod[r] = "up" /\ row[r].target # "none" => row'[r].target # "none"
  PROVE  SweepInv'
<1>1. DOMAIN sweep.view \subseteq Runs
  BY DEF CloudInv, CloudTypeOK, SweepTypeOK
<1>2. sweep.at = "work" => DOMAIN sweep.view = {r \in Runs : row'[r].iid}
  BY DEF CloudInv, SweepInv
<1>3. \A r \in sweep.pods \cap DOMAIN sweep.view : sweep.at = "work" /\ row[r].iid
  BY DEF CloudInv, SweepInv
<1> QED BY <1>1, <1>2, <1>3 DEF CloudInv, SweepInv

-----------------------------------------------------------------------------
(* Types                                                                   *)
(* The writes of one field or two keep a record in its type.               *)
LEMMA RowFields ==
  ASSUME NEW old \in Rows
  PROVE  /\ \A s \in Active \cup Ended : [old EXCEPT !.status = s] \in Rows
         /\ \A p \in Phases : [old EXCEPT !.phase = p] \in Rows
         /\ [old EXCEPT !.phase = "started", !.status = "training"] \in Rows
         /\ [old EXCEPT !.iid = TRUE, !.meter = "open", !.status = "provisioning"] \in Rows
  BY DEF Rows, Active, Ended, Phases

LEMMA RemoteFields ==
  ASSUME NEW old \in RemoteJobs
  PROVE  /\ \A j \in {"none", "created", "queued"} \cup RemoteStarted :
              [old EXCEPT !.job = j] \in RemoteJobs
         /\ [old EXCEPT !.job = "created", !.creates = @ + 1] \in RemoteJobs
         /\ [old EXCEPT !.seeded = TRUE] \in RemoteJobs
         /\ [old EXCEPT !.starts = @ + 1] \in RemoteJobs
         /\ old.job \in {"none", "created", "queued"} \cup RemoteStarted
<1>1. /\ old.creates \in Nat /\ old.starts \in Nat /\ old.seeded \in BOOLEAN
      /\ old.job \in {"none", "created", "queued"} \cup RemoteStarted
      /\ old = [job |-> old.job, creates |-> old.creates, starts |-> old.starts,
                seeded |-> old.seeded]
  BY DEF RemoteJobs
<1>2. old.creates + 1 \in Nat /\ old.starts + 1 \in Nat
  BY <1>1
<1> QED BY <1>1, <1>2 DEF RemoteJobs

LEMMA ClosingFields ==
  /\ \A g \in Goals : [at |-> "destroy", goal |-> g] \in Closings
  /\ NotClosing \in Closings
  /\ \A old \in Closings : /\ [old EXCEPT !.at = "destroyed"] \in Closings
                           /\ [old EXCEPT !.at = "refused"] \in Closings
  BY DEF Closings, Goals, NotClosing

LEMMA RecoveryFields ==
  /\ \A old \in Recoveries :
       /\ \A a \in {"sweep", "sweeping", "list", "recover", "over"} :
            [old EXCEPT !.at = a] \in Recoveries
       /\ \A r \in Runs : [old EXCEPT !.rows = @ \ {r}] \in Recoveries
  /\ [at |-> "recover", rows |-> ActiveRuns] \in Recoveries
  /\ [at |-> "sweep", rows |-> {}] \in Recoveries
  BY DEF Recoveries, ActiveRuns

(* The writes that take more than a look.                                  *)
LEMMA SweepRowsTyped ==
  ASSUME CloudInv, NEW r \in Runs, SweepRecords(r) \/ SweepUnlisted(r)
  PROVE  row' \in [Runs -> Rows]
<1>1. row \in [Runs -> Rows]
  BY DEF CloudInv, CloudTypeOK
<1>2. ASSUME NEW seen \in Views, seen.status = "terminating" => seen.target # "none",
             row' = [row EXCEPT ![r] = Settled(row[r], seen)], row[r].meter # "none"
      PROVE  row' \in [Runs -> Rows]
  BY <1>1, <1>2, SettledFields
<1> QED BY <1>1, <1>2, SweepWrites

LEMMA FinishRowsTyped ==
  ASSUME CloudInv, NEW c \in Closers, NEW r \in Runs, FinishRecords(c, r)
  PROVE  row' \in [Runs -> Rows]
<1>1. row \in [Runs -> Rows]
  BY DEF CloudInv, CloudTypeOK
<1>2. \E new \in Rows : row' = [row EXCEPT ![r] = new]
  BY FinishWrites
<1> QED BY <1>1, <1>2

(* The views of a sweep.                                                   *)
LEMMA SeenTyped ==
  ASSUME CloudInv
  PROVE  \A r \in Runs : Seen(r) \in Views
  BY DEF CloudInv, CloudTypeOK, Rows, Views, Seen

LEMMA SweepReadTyped ==
  ASSUME CloudInv, SweepReads
  PROVE  SweepTypeOK'
<1> DEFINE owned == {r \in Runs : row[r].iid}
           keep == {r \in owned : row[r].status \in Active \ {"terminating"}}
           seen == [r \in owned |-> Seen(r)]
<1>1. sweep' = [sweep EXCEPT !.at = "work", !.seen = {}, !.pods = sweep.seen \ keep,
                             !.rows = owned \ sweep.seen, !.view = seen]
  BY DEF SweepReads
<1>2. /\ sweep \in [by : Recoverers \cup Runs \cup {"nobody"}, at : {"idle", "read", "work"},
                    seen : SUBSET Runs, pods : SUBSET Runs, rows : SUBSET Runs,
                    hit : SUBSET Runs, view : {sweep.view}, fresh : BOOLEAN]
  BY DEF CloudInv, CloudTypeOK, SweepTypeOK
<1>3. seen \in [owned -> Views] /\ DOMAIN seen = owned
  BY SeenTyped
<1>4. /\ owned \in SUBSET Runs /\ owned \ sweep.seen \in SUBSET Runs
      /\ sweep.seen \ keep \in SUBSET Runs
  BY <1>2
<1> HIDE DEF owned, keep, seen
<1>5. sweep'.view = seen
  BY <1>1, <1>2
<1>6. sweep' \in [by : Recoverers \cup Runs \cup {"nobody"}, at : {"idle", "read", "work"},
                  seen : SUBSET Runs, pods : SUBSET Runs, rows : SUBSET Runs,
                  hit : SUBSET Runs, view : {sweep'.view}, fresh : BOOLEAN]
  BY <1>1, <1>2, <1>4
<1> QED BY <1>3, <1>4, <1>5, <1>6 DEF SweepTypeOK

LEMMA SweepHitTyped ==
  ASSUME CloudInv, NEW r \in Runs, SweepDestroys(r)
  PROVE  SweepTypeOK'
<1> DEFINE seen == IF r \in DOMAIN sweep.view
                     THEN [sweep.view EXCEPT ![r] = View(r)] ELSE sweep.view
<1>1. sweep' = [sweep EXCEPT !.pods = @ \ {r}, !.hit = {r}, !.view = seen]
  BY DEF SweepDestroys
<1>2. /\ sweep \in [by : Recoverers \cup Runs \cup {"nobody"}, at : {"idle", "read", "work"},
                    seen : SUBSET Runs, pods : SUBSET Runs, rows : SUBSET Runs,
                    hit : SUBSET Runs, view : {sweep.view}, fresh : BOOLEAN]
      /\ DOMAIN sweep.view \subseteq Runs /\ sweep.view \in [DOMAIN sweep.view -> Views]
  BY DEF CloudInv, CloudTypeOK, SweepTypeOK
<1>3. r \in DOMAIN sweep.view => View(r) \in Views
  BY <1>2, SeenTyped DEF View
<1>4. seen \in [DOMAIN sweep.view -> Views] /\ DOMAIN seen = DOMAIN sweep.view
  BY <1>2, <1>3
<1> HIDE DEF seen
<1>5. sweep'.view = seen
  BY <1>1, <1>2
<1>6. sweep' \in [by : Recoverers \cup Runs \cup {"nobody"}, at : {"idle", "read", "work"},
                  seen : SUBSET Runs, pods : SUBSET Runs, rows : SUBSET Runs,
                  hit : SUBSET Runs, view : {sweep'.view}, fresh : BOOLEAN]
  BY <1>1, <1>2
<1> QED BY <1>2, <1>4, <1>5, <1>6 DEF SweepTypeOK

(* Every step keeps the types.                                              *)
LEMMA TypeStep ==
  ASSUME CloudInv, [CloudNext]_cloudVars
  PROVE  CloudTypeOK'
<1> USE CloudAssumption DEF CloudInv, CloudTypeOK, SweepTypeOK, Places, Active, Ended, Goals,
         Phases, RemoteStarted, Closers
<1>1. ASSUME NEW r \in Runs, LaunchRequest(r) PROVE CloudTypeOK'
  BY <1>1 DEF LaunchRequest, External, Bounds
<1>2. ASSUME NEW r \in Runs, Admit(r) PROVE CloudTypeOK'
  <2>1. row' \in [Runs -> Rows]
    <3>1. CASE UNCHANGED row
      BY <3>1
    <3>2. CASE row' = [row EXCEPT ![r] = [row[r] EXCEPT !.status = "preparing"]]
      BY <3>2, RowFields
    <3> QED BY <1>2, <3>1, <3>2 DEF Admit, SetRow
  <2>2. launch' \in [Runs -> {"no", "sweep", "sweeping", "admit", "copy", "over"}]
    BY <1>2 DEF Admit, SetRow, External, Bounds
  <2> QED BY <1>2, <2>1, <2>2 DEF Admit, SetRow, External, Bounds
<1>3. ASSUME NEW r \in Runs, LaunchStarts(r) PROVE CloudTypeOK'
  BY <1>3 DEF LaunchStarts, Mon, External, Bounds
<1>4. ASSUME NEW r \in Runs, LaunchFails(r) PROVE CloudTypeOK'
  BY <1>4, RowFields DEF LaunchFails, SetRow, External, Bounds
<1>5. ASSUME NEW r \in Runs, RequestStop(r) PROVE CloudTypeOK'
  <2>1. closing' \in [Closers \X Runs -> Closings]
    <3>1. CASE UNCHANGED closing
      BY <3>1
    <3>2. ASSUME NEW goal \in Goals, Begins("request", r, goal)
          PROVE  closing' \in [Closers \X Runs -> Closings]
      BY <3>2, ClosingFields DEF Begins
    <3>3. row[r].status = "terminating" => row[r].target \in Goals
      BY DEF LaunchInv, Rows
    <3> QED BY <1>5, <3>1, <3>2, <3>3 DEF RequestStop
  <2>2. stop' \subseteq Runs
    BY <1>5 DEF RequestStop, Begins, External, Bounds
  <2> QED BY <1>5, <2>1, <2>2 DEF RequestStop, Begins, External, Bounds
<1>6. ASSUME NEW c \in Closers, NEW r \in Runs, FinishDestroys(c, r) PROVE CloudTypeOK'
  <2>1. pod' \in [Runs -> {"none", "up", "gone"}]
    BY <1>6 DEF FinishDestroys, Destroy, Bounds
  <2>2. closing' \in [Closers \X Runs -> Closings]
    BY <1>6, ClosingFields DEF FinishDestroys, Destroy, Bounds
  <2> QED BY <1>6, <2>1, <2>2 DEF FinishDestroys, Destroy, Bounds
<1>7. ASSUME NEW c \in Closers, NEW r \in Runs, FinishCannotDestroy(c, r) PROVE CloudTypeOK'
  <2>1. closing' \in [Closers \X Runs -> Closings]
    BY <1>7, ClosingFields DEF FinishCannotDestroy, CanFail, External
  <2>2. faults' \in 0..MaxFaults
    BY <1>7 DEF FinishCannotDestroy, CanFail, External
  <2> QED BY <1>7, <2>1, <2>2 DEF FinishCannotDestroy, CanFail, External
<1>8. ASSUME NEW c \in Closers, NEW r \in Runs, FinishRecords(c, r) PROVE CloudTypeOK'
  <2>1. row' \in [Runs -> Rows]
    BY <1>8, FinishRowsTyped
  <2>2. mon' \in [Runs -> Places]
    BY <1>8 DEF FinishRecords, SetRow, Completed, Pending, Mon, External, Bounds
  <2>3. closing' \in [Closers \X Runs -> Closings]
    BY <1>8, ClosingFields DEF FinishRecords, SetRow, Completed, Pending, Mon, External, Bounds
  <2>4. stop' \subseteq Runs
    BY <1>8 DEF FinishRecords, SetRow, Completed, Pending, Mon, External, Bounds
  <2> QED BY <1>8, <2>1, <2>2, <2>3, <2>4
         DEF FinishRecords, SetRow, Completed, Pending, Mon, External, Bounds
<1>9. ASSUME NEW r \in Runs, MonitorFails(r) PROVE CloudTypeOK'
  BY <1>9, ClosingFields DEF MonitorFails, Ends, Mon, Begins, External, Bounds
<1>10. ASSUME NEW r \in Runs, Stage(r) PROVE CloudTypeOK'
  BY <1>10 DEF Stage, Mon, External, Bounds
<1>11. ASSUME NEW r \in Runs, Rent(r) PROVE CloudTypeOK'
  <2>1. pod' \in [Runs -> {"none", "up", "gone"}]
    BY <1>11 DEF Rent, Created, Mon, LockFree, Bounds
  <2>2. mon' \in [Runs -> Places]
    BY <1>11 DEF Rent, Created, Mon, LockFree, Bounds
  <2>3. rentals' \in [Runs -> Nat]
    BY <1>11 DEF Rent, Created, Mon, LockFree, Bounds
  <2> QED BY <1>11, <2>1, <2>2, <2>3 DEF Rent, Created, Mon, LockFree, Bounds
<1>12. ASSUME NEW r \in Runs, RentAnswerLost(r) PROVE CloudTypeOK'
  <2>1. pod' \in [Runs -> {"none", "up", "gone"}]
    BY <1>12 DEF RentAnswerLost, Created, CanFail, Ends, Mon, Begins, LockFree
  <2>2. mon' \in [Runs -> Places]
    BY <1>12 DEF RentAnswerLost, Created, CanFail, Ends, Mon, Begins, LockFree
  <2>3. closing' \in [Closers \X Runs -> Closings]
    BY <1>12, ClosingFields DEF RentAnswerLost, Created, CanFail, Ends, Mon, Begins, LockFree
  <2>4. rentals' \in [Runs -> Nat]
    BY <1>12 DEF RentAnswerLost, Created, CanFail, Ends, Mon, Begins, LockFree
  <2>5. faults' \in 0..MaxFaults
    BY <1>12 DEF RentAnswerLost, Created, CanFail, Ends, Mon, Begins, LockFree
  <2> QED BY <1>12, <2>1, <2>2, <2>3, <2>4, <2>5
         DEF RentAnswerLost, Created, CanFail, Ends, Mon, Begins, LockFree
<1>13. ASSUME NEW r \in Runs, Register(r) PROVE CloudTypeOK'
  BY <1>13, RowFields DEF Register, SetRow, Mon, External, Bounds
<1>14. ASSUME NEW r \in Runs, RegisterFails(r) PROVE CloudTypeOK'
  <2>1. pod' \in [Runs -> {"none", "up", "gone"}]
    BY <1>14 DEF RegisterFails, CanFail, Destroy, Ends, Mon, Begins
  <2>2. mon' \in [Runs -> Places]
    BY <1>14 DEF RegisterFails, CanFail, Destroy, Ends, Mon, Begins
  <2>3. closing' \in [Closers \X Runs -> Closings]
    BY <1>14, ClosingFields DEF RegisterFails, CanFail, Destroy, Ends, Mon, Begins
  <2>4. stop' \subseteq Runs
    BY <1>14 DEF RegisterFails, CanFail, Destroy, Ends, Mon, Begins
  <2>5. faults' \in 0..MaxFaults
    BY <1>14 DEF RegisterFails, CanFail, Destroy, Ends, Mon, Begins
  <2> QED BY <1>14, <2>1, <2>2, <2>3, <2>4, <2>5
         DEF RegisterFails, CanFail, Destroy, Ends, Mon, Begins
<1>15. ASSUME NEW r \in Runs, BootReady(r) PROVE CloudTypeOK'
  BY <1>15 DEF BootReady, Mon, External, Bounds
<1>16. ASSUME NEW r \in Runs, BootStopped(r) PROVE CloudTypeOK'
  BY <1>16, ClosingFields DEF BootStopped, Ends, Mon, Begins, External, Bounds
<1>17. ASSUME NEW r \in Runs, Ready(r) PROVE CloudTypeOK'
  <2>1. row' \in [Runs -> Rows]
    <3>1. CASE UNCHANGED row
      BY <3>1
    <3>2. CASE row' = [row EXCEPT ![r] = [row[r] EXCEPT !.status = "uploading"]]
      BY <3>2, RowFields
    <3> QED BY <1>17, <3>1, <3>2 DEF Ready, SetRow
  <2>2. mon' \in [Runs -> Places]
    BY <1>17 DEF Ready, SetRow, Mon, External, Bounds
  <2> QED BY <1>17, <2>1, <2>2 DEF Ready, SetRow, Mon, External, Bounds
<1>18. ASSUME NEW r \in Runs, CreateJob(r) PROVE CloudTypeOK'
  BY <1>18, RemoteFields DEF CreateJob, Calls, Mon, Bounds
<1>19. ASSUME NEW r \in Runs, SeedCheckpoint(r) PROVE CloudTypeOK'
  BY <1>19, RemoteFields DEF SeedCheckpoint, Calls, Mon, Bounds
<1>20. ASSUME NEW r \in Runs, QueueJob(r) PROVE CloudTypeOK'
  BY <1>20, RemoteFields DEF QueueJob, Calls, Mon, Bounds
<1>21. ASSUME NEW r \in Runs, StartQueue(r) PROVE CloudTypeOK'
  BY <1>21, RemoteFields DEF StartQueue, Calls, Mon, Bounds
<1>22. ASSUME NEW r \in Runs, SubmitRecords(r) PROVE CloudTypeOK'
  BY <1>22, RowFields DEF SubmitRecords, SetRow, Mon, External, Bounds
<1>23. ASSUME NEW r \in Runs, MarkStarting(r) PROVE CloudTypeOK'
  BY <1>23, RowFields DEF MarkStarting, SetRow, Mon, External, Bounds
<1>24. ASSUME NEW r \in Runs, RecordStarted(r) PROVE CloudTypeOK'
  BY <1>24, RowFields DEF RecordStarted, SetRow, Mon, External, Bounds, RemoteStarted
<1>25. ASSUME NEW r \in Runs, AwaitStart(r) PROVE CloudTypeOK'
  BY <1>25, RowFields DEF AwaitStart, SetRow, Mon, External, Bounds
<1>26. ASSUME NEW r \in Runs, PollNotesStart(r) PROVE CloudTypeOK'
  BY <1>26, RowFields DEF PollNotesStart, SetRow, External, Bounds
<1>27. ASSUME NEW r \in Runs, PollStops(r) PROVE CloudTypeOK'
  <2>1. remote' \in [Runs -> RemoteJobs]
    BY <1>27, RemoteFields DEF PollStops, EndsJob, Fetched, SetRow, Ends, Mon, Begins, Bounds
  <2>2. row' \in [Runs -> Rows]
    <3>1. CASE UNCHANGED row
      BY <3>1
    <3>2. CASE row' = [row EXCEPT ![r] = [row[r] EXCEPT !.status = "downloading"]]
      BY <3>2, RowFields
    <3> QED BY <1>27, <3>1, <3>2 DEF PollStops, EndsJob, Fetched, SetRow
  <2>3. mon' \in [Runs -> Places]
    BY <1>27 DEF PollStops, EndsJob, Fetched, SetRow, Ends, Mon, Begins, Bounds
  <2>4. closing' \in [Closers \X Runs -> Closings]
    BY <1>27, ClosingFields DEF PollStops, EndsJob, Fetched, SetRow, Ends, Mon, Begins, Bounds
  <2>5. stop' \subseteq Runs
    BY <1>27 DEF PollStops, EndsJob, Fetched, SetRow, Ends, Mon, Begins, Bounds
  <2> QED BY <1>27, <2>1, <2>2, <2>3, <2>4, <2>5
         DEF PollStops, EndsJob, Fetched, SetRow, Ends, Mon, Begins, Bounds
<1>28. ASSUME NEW r \in Runs, PollStalls(r) PROVE CloudTypeOK'
  <2>1. remote' \in [Runs -> RemoteJobs]
    BY <1>28, RemoteFields DEF PollStalls, EndsJob, Fetched, SetRow, Ends, Mon, Begins, Bounds
  <2>2. row' \in [Runs -> Rows]
    <3>1. CASE UNCHANGED row
      BY <3>1
    <3>2. CASE row' = [row EXCEPT ![r] = [row[r] EXCEPT !.status = "downloading"]]
      BY <3>2, RowFields
    <3> QED BY <1>28, <3>1, <3>2 DEF PollStalls, EndsJob, Fetched, SetRow
  <2>3. mon' \in [Runs -> Places]
    BY <1>28 DEF PollStalls, EndsJob, Fetched, SetRow, Ends, Mon, Begins, Bounds
  <2>4. closing' \in [Closers \X Runs -> Closings]
    BY <1>28, ClosingFields DEF PollStalls, EndsJob, Fetched, SetRow, Ends, Mon, Begins, Bounds
  <2> QED BY <1>28, <2>1, <2>2, <2>3, <2>4
         DEF PollStalls, EndsJob, Fetched, SetRow, Ends, Mon, Begins, Bounds
<1>29. ASSUME NEW r \in Runs, PollCompleted(r) PROVE CloudTypeOK'
  BY <1>29, RowFields, ClosingFields DEF PollCompleted, SetRow, Ends, Mon, Begins, External,
     Bounds
<1>30. ASSUME NEW r \in Runs, PollKeepsPod(r) PROVE CloudTypeOK'
  BY <1>30, RowFields DEF PollKeepsPod, SetRow, Mon, External, Bounds
<1>31. ASSUME NEW r \in Runs, PollEnded(r) PROVE CloudTypeOK'
  <2>1. row' \in [Runs -> Rows]
    <3>1. CASE UNCHANGED row
      BY <3>1
    <3>2. CASE row' = [row EXCEPT ![r] = [row[r] EXCEPT !.status = "downloading"]]
      BY <3>2, RowFields
    <3> QED BY <1>31, <3>1, <3>2 DEF PollEnded, Fetched, SetRow
  <2>2. mon' \in [Runs -> Places]
    BY <1>31 DEF PollEnded, Fetched, SetRow, Ends, Mon, Begins, External, Bounds
  <2>3. closing' \in [Closers \X Runs -> Closings]
    BY <1>31, ClosingFields DEF PollEnded, Fetched, SetRow, Ends, Mon, Begins, External, Bounds
  <2> QED BY <1>31, <2>1, <2>2, <2>3
         DEF PollEnded, Fetched, SetRow, Ends, Mon, Begins, External, Bounds
<1>32. ASSUME NEW p \in Recoverers \cup Runs, SweepLists(p) PROVE CloudTypeOK'
  <2>1. launch' \in [Runs -> {"no", "sweep", "sweeping", "admit", "copy", "over"}]
    BY <1>32 DEF SweepLists, Wants, LockFree, NoSweep, External, Bounds
  <2>2. SweepTypeOK'
    BY <1>32 DEF SweepLists, Wants, LockFree, NoSweep, External, Bounds
  <2>3. rec' \in [Recoverers -> Recoveries]
    <3>1. CASE p \in Recoverers
      <4>1. rec' = [rec EXCEPT ![p].at = "sweeping"]
        BY <1>32, <3>1 DEF SweepLists
      <4> QED BY <3>1, <4>1, RecoveryFields
    <3>2. CASE p \notin Recoverers
      BY <1>32, <3>2 DEF SweepLists
    <3> QED BY <3>1, <3>2
  <2> QED BY <1>32, <2>1, <2>2, <2>3 DEF SweepLists, Wants, LockFree, NoSweep, External, Bounds
<1>33. ASSUME NEW p \in Recoverers \cup Runs, SweepCannotList(p) PROVE CloudTypeOK'
  <2>1. launch' \in [Runs -> {"no", "sweep", "sweeping", "admit", "copy", "over"}]
    BY <1>33 DEF SweepCannotList, Wants, CanFail, SweptBy, External
  <2>2. rec' \in [Recoverers -> Recoveries]
    <3>1. CASE p \in Recoverers
      <4>1. rec' = [rec EXCEPT ![p].at = "list"]
        BY <1>33, <3>1 DEF SweepCannotList, SweptBy
      <4> QED BY <3>1, <4>1, RecoveryFields
    <3>2. CASE p \notin Recoverers
      BY <1>33, <3>2 DEF SweepCannotList, SweptBy
    <3> QED BY <3>1, <3>2
  <2>3. faults' \in 0..MaxFaults
    BY <1>33 DEF SweepCannotList, Wants, CanFail, SweptBy, External
  <2> QED BY <1>33, <2>1, <2>2, <2>3 DEF SweepCannotList, Wants, CanFail, SweptBy, External
<1>34. CASE SweepSkipped
  <2>1. launch' \in [Runs -> {"no", "sweep", "sweeping", "admit", "copy", "over"}]
    BY <1>34 DEF SweepSkipped, Wants, SweptBy, External, Bounds
  <2>2. rec' \in [Recoverers -> Recoveries]
    <3>1. CASE "tick" \in Recoverers
      <4>1. rec' = [rec EXCEPT !["tick"].at = "list"]
        BY <1>34, <3>1 DEF SweepSkipped, SweptBy
      <4> QED BY <3>1, <4>1, RecoveryFields
    <3>2. CASE "tick" \notin Recoverers
      BY <1>34, <3>2 DEF SweepSkipped, SweptBy
    <3> QED BY <3>1, <3>2
  <2> QED BY <1>34, <2>1, <2>2 DEF SweepSkipped, Wants, SweptBy, External, Bounds
<1>35. CASE SweepReads
  <2>1. SweepTypeOK'
    BY <1>35, SweepReadTyped
  <2> QED BY <1>35, <2>1 DEF SweepReads, External, Bounds
<1>36. ASSUME NEW r \in Runs, SweepSpares(r) PROVE CloudTypeOK'
  BY <1>36 DEF SweepSpares, External, Bounds
<1>37. ASSUME NEW r \in Runs, SweepDestroys(r) PROVE CloudTypeOK'
  <2>1. pod' \in [Runs -> {"none", "up", "gone"}]
    BY <1>37 DEF SweepDestroys, Destroy, View, Seen, Bounds
  <2>2. SweepTypeOK'
    BY <1>37, SweepHitTyped
  <2> QED BY <1>37, <2>1, <2>2 DEF SweepDestroys, Destroy, View, Seen, Bounds
<1>38. ASSUME NEW r \in Runs, SweepCannotDestroy(r) PROVE CloudTypeOK'
  <2>1. SweepTypeOK'
    BY <1>38 DEF SweepCannotDestroy, CanFail, External
  <2>2. faults' \in 0..MaxFaults
    BY <1>38 DEF SweepCannotDestroy, CanFail, External
  <2> QED BY <1>38, <2>1, <2>2 DEF SweepCannotDestroy, CanFail, External
<1>39. ASSUME NEW r \in Runs, SweepRecords(r) PROVE CloudTypeOK'
  <2>1. row' \in [Runs -> Rows]
    BY <1>39, SweepRowsTyped
  <2>2. SweepTypeOK'
    BY <1>39 DEF SweepRecords, SetRow, Settled, Completed, External, Bounds
  <2> QED BY <1>39, <2>1, <2>2 DEF SweepRecords, SetRow, Settled, Completed, External, Bounds
<1>40. ASSUME NEW r \in Runs, SweepUnlisted(r) PROVE CloudTypeOK'
  <2>1. row' \in [Runs -> Rows]
    BY <1>40, SweepRowsTyped
  <2>2. SweepTypeOK'
    BY <1>40 DEF SweepUnlisted, SetRow, Settled, Completed, View, Seen, External, Bounds
  <2> QED BY <1>40, <2>1, <2>2
         DEF SweepUnlisted, SetRow, Settled, Completed, View, Seen, External, Bounds
<1>41. CASE SweepEnds
  <2>1. launch' \in [Runs -> {"no", "sweep", "sweeping", "admit", "copy", "over"}]
    BY <1>41 DEF SweepEnds, SweptBy, NoSweep, External, Bounds
  <2>2. SweepTypeOK'
    BY <1>41 DEF SweepEnds, SweptBy, NoSweep, External, Bounds
  <2>3. rec' \in [Recoverers -> Recoveries]
    <3>1. CASE sweep.by \in Recoverers
      <4>1. rec' = [rec EXCEPT ![sweep.by].at = "list"]
        BY <1>41, <3>1 DEF SweepEnds, SweptBy
      <4> QED BY <3>1, <4>1, RecoveryFields
    <3>2. CASE sweep.by \notin Recoverers
      BY <1>41, <3>2 DEF SweepEnds, SweptBy
    <3> QED BY <3>1, <3>2
  <2> QED BY <1>41, <2>1, <2>2, <2>3 DEF SweepEnds, SweptBy, NoSweep, External, Bounds
<1>42. ASSUME NEW p \in Recoverers, RecoverLists(p) PROVE CloudTypeOK'
  <2>1. rec' \in [Recoverers -> Recoveries]
    BY <1>42, RecoveryFields DEF RecoverLists, ActiveRuns, External, Bounds
  <2> QED BY <1>42, <2>1 DEF RecoverLists, ActiveRuns, External, Bounds
<1>43. ASSUME NEW p \in Recoverers, RecoverEnds(p) PROVE CloudTypeOK'
  <2>1. rec' \in [Recoverers -> Recoveries]
    BY <1>43, RecoveryFields DEF RecoverEnds, External, Bounds
  <2> QED BY <1>43, <2>1 DEF RecoverEnds, External, Bounds
<1>44. ASSUME NEW p \in Recoverers, NEW r \in Runs, RecoverRow(p, r) PROVE CloudTypeOK'
  <2>1. row' \in [Runs -> Rows]
    <3>1. CASE UNCHANGED row
      BY <3>1
    <3>2. CASE row' = [row EXCEPT ![r] = [row[r] EXCEPT !.status = "error"]]
      BY <3>2, RowFields
    <3> QED BY <1>44, <3>1, <3>2 DEF RecoverRow, SetRow
  <2>2. mon' \in [Runs -> Places]
    BY <1>44 DEF RecoverRow, SetRow, Mon, External, Bounds
  <2>3. rec' \in [Recoverers -> Recoveries]
    BY <1>44, RecoveryFields DEF RecoverRow, SetRow, Mon, External, Bounds
  <2> QED BY <1>44, <2>1, <2>2, <2>3 DEF RecoverRow, SetRow, Mon, External, Bounds
<1>45. CASE StopAll
  BY <1>45 DEF StopAll, ActiveRuns, External, Bounds
<1>46. ASSUME NEW r \in Runs, JobRuns(r) PROVE CloudTypeOK'
  BY <1>46, RemoteFields DEF JobRuns, volatile, Bounds
<1>47. ASSUME NEW r \in Runs, JobEnds(r) PROVE CloudTypeOK'
  <2>1. PICK end \in {"completed", "failed"} : remote' = [remote EXCEPT ![r].job = end]
    BY <1>47 DEF JobEnds
  <2>2. remote' \in [Runs -> RemoteJobs]
    BY <2>1, RemoteFields
  <2> QED BY <1>47, <2>2 DEF JobEnds, volatile, Bounds
<1>48. ASSUME NEW r \in Runs, PodLost(r) PROVE CloudTypeOK'
  <2>1. pod' \in [Runs -> {"none", "up", "gone"}]
    BY <1>48 DEF PodLost, CanFail, Destroy, volatile
  <2>2. faults' \in 0..MaxFaults
    BY <1>48 DEF PodLost, CanFail, Destroy, volatile
  <2> QED BY <1>48, <2>1, <2>2 DEF PodLost, CanFail, Destroy, volatile
<1>49. ASSUME NEW r \in Runs, CapPasses(r) PROVE CloudTypeOK'
  BY <1>49 DEF CapPasses, volatile, Bounds
<1>50. ASSUME NEW r \in Runs, WindowPasses(r) PROVE CloudTypeOK'
  BY <1>50 DEF WindowPasses, volatile, Bounds
<1>51. CASE Crash
  <2>1. mon' \in [Runs -> Places]
    BY <1>51 DEF Crash, NotClosing, NoSweep, External
  <2>2. closing' \in [Closers \X Runs -> Closings]
    BY <1>51, ClosingFields DEF Crash, NotClosing, NoSweep, External
  <2>3. stop' \subseteq Runs
    BY <1>51 DEF Crash, NotClosing, NoSweep, External
  <2>4. launch' \in [Runs -> {"no", "sweep", "sweeping", "admit", "copy", "over"}]
    BY <1>51 DEF Crash, NotClosing, NoSweep, External
  <2>5. SweepTypeOK'
    BY <1>51 DEF Crash, NotClosing, NoSweep, External
  <2>6. rec' \in [Recoverers -> Recoveries]
    BY <1>51, RecoveryFields DEF Crash, NotClosing, NoSweep, External
  <2>7. crashes' \in 0..MaxCrashes
    BY <1>51 DEF Crash, NotClosing, NoSweep, External
  <2> QED BY <1>51, <2>1, <2>2, <2>3, <2>4, <2>5, <2>6, <2>7
         DEF Crash, NotClosing, NoSweep, External
<1>52. CASE UNCHANGED cloudVars
  BY <1>52 DEF cloudVars
<1> QED
  BY <1>1, <1>2, <1>3, <1>4, <1>5, <1>6, <1>7, <1>8, <1>9, <1>10, <1>11, <1>12, <1>13, <1>14,
     <1>15, <1>16, <1>17, <1>18, <1>19, <1>20, <1>21, <1>22, <1>23, <1>24, <1>25, <1>26,
     <1>27, <1>28, <1>29, <1>30, <1>31, <1>32, <1>33, <1>34, <1>35, <1>36, <1>37, <1>38,
     <1>39, <1>40, <1>41, <1>42, <1>43, <1>44, <1>45, <1>46, <1>47, <1>48, <1>49, <1>50,
     <1>51, <1>52
     DEF CloudNext, CloudWorks, Launches, LaunchEnds, Monitor, Submits, Polls,
         Finishes, SweepWorks, Sweeps, Recovers, Environment

-----------------------------------------------------------------------------
(* The parts of the invariant                                              *)
(* Only the submission touches the remote job; phases move with it.        *)
LEMMA SubmitStep ==
  ASSUME CloudInv, CloudTypeOK', [CloudNext]_cloudVars
  PROVE  SubmitInv'
<1>0. ASSUME NEW r \in Runs,
             \/ SweepRecords(r) \/ SweepUnlisted(r)
             \/ \E c \in Closers : FinishRecords(c, r)
             \/ \E p \in Recoverers : RecoverRow(p, r)
      PROVE  SubmitInv'
  <2>1. /\ UNCHANGED remote
        /\ \A s \in Runs : /\ row'[s].phase = row[s].phase
                           /\ mon'[s] = mon[s] \/ mon'[s] \in {"off", "stage"}
    BY <1>0, PhaseKept
  <2> QED BY <2>1 DEF CloudInv, SubmitInv
<1> USE CloudAssumption DEF CloudInv, CloudTypeOK, Rows, RemoteJobs, Places, SubmitInv
<1>1. ASSUME NEW r \in Runs, LaunchRequest(r) PROVE SubmitInv'
  BY <1>1 DEF LaunchRequest, External, Bounds
<1>2. ASSUME NEW r \in Runs, Admit(r) PROVE SubmitInv'
  BY <1>2 DEF Admit, SetRow, External, Bounds
<1>3. ASSUME NEW r \in Runs, LaunchStarts(r) PROVE SubmitInv'
  BY <1>3 DEF LaunchStarts, Mon, External, Bounds
<1>4. ASSUME NEW r \in Runs, LaunchFails(r) PROVE SubmitInv'
  BY <1>4 DEF LaunchFails, SetRow, External, Bounds
<1>5. ASSUME NEW r \in Runs, RequestStop(r) PROVE SubmitInv'
  BY <1>5 DEF RequestStop, Begins, External, Bounds
<1>6. ASSUME NEW c \in Closers, NEW r \in Runs, FinishDestroys(c, r) PROVE SubmitInv'
  BY <1>6 DEF FinishDestroys, Destroy, Bounds
<1>7. ASSUME NEW c \in Closers, NEW r \in Runs, FinishCannotDestroy(c, r) PROVE SubmitInv'
  BY <1>7 DEF FinishCannotDestroy, CanFail, External
<1>9. ASSUME NEW r \in Runs, MonitorFails(r) PROVE SubmitInv'
  BY <1>9 DEF MonitorFails, Ends, Mon, Begins, External, Bounds
<1>10. ASSUME NEW r \in Runs, Stage(r) PROVE SubmitInv'
  BY <1>10 DEF Stage, Mon, External, Bounds
<1>11. ASSUME NEW r \in Runs, Rent(r) PROVE SubmitInv'
  BY <1>11 DEF Rent, Created, Mon, LockFree, Bounds
<1>12. ASSUME NEW r \in Runs, RentAnswerLost(r) PROVE SubmitInv'
  BY <1>12 DEF RentAnswerLost, Created, CanFail, Ends, Mon, Begins, LockFree
<1>13. ASSUME NEW r \in Runs, Register(r) PROVE SubmitInv'
  BY <1>13 DEF Register, SetRow, Mon, External, Bounds
<1>14. ASSUME NEW r \in Runs, RegisterFails(r) PROVE SubmitInv'
  BY <1>14 DEF RegisterFails, CanFail, Destroy, Ends, Mon, Begins
<1>15. ASSUME NEW r \in Runs, BootReady(r) PROVE SubmitInv'
  BY <1>15 DEF BootReady, Mon, External, Bounds
<1>16. ASSUME NEW r \in Runs, BootStopped(r) PROVE SubmitInv'
  BY <1>16 DEF BootStopped, Ends, Mon, Begins, External, Bounds
<1>17. ASSUME NEW r \in Runs, Ready(r) PROVE SubmitInv'
  <2>1. \A s \in Runs : row'[s].phase = row[s].phase
    BY <1>17 DEF Ready, SetRow
  <2>2. mon' = [mon EXCEPT ![r] = mon'[r]] /\ UNCHANGED remote
    BY <1>17 DEF Ready, Mon, External
  <2>3. \/ mon'[r] = "poll"
        \/ mon'[r] = "submit" /\ row[r].phase \in {"none", "created"}
        \/ mon'[r] = "resubmit" /\ row[r].phase \notin {"none", "created"}
    BY <1>17 DEF Ready, Mon
  <2>4. row[r].phase \in Phases
    BY DEF Rows
  <2> QED BY <2>1, <2>2, <2>3, <2>4 DEF Phases
<1>18. ASSUME NEW r \in Runs, CreateJob(r) PROVE SubmitInv'
  BY <1>18 DEF CreateJob, Calls, Mon, Bounds
<1>19. ASSUME NEW r \in Runs, SeedCheckpoint(r) PROVE SubmitInv'
  BY <1>19 DEF SeedCheckpoint, Calls, Mon, Bounds
<1>20. ASSUME NEW r \in Runs, QueueJob(r) PROVE SubmitInv'
  BY <1>20 DEF QueueJob, Calls, Mon, Bounds
<1>21. ASSUME NEW r \in Runs, StartQueue(r) PROVE SubmitInv'
  BY <1>21 DEF StartQueue, Calls, Mon, Bounds
<1>22. ASSUME NEW r \in Runs, SubmitRecords(r) PROVE SubmitInv'
  BY <1>22 DEF SubmitRecords, SetRow, Mon, External, Bounds
<1>23. ASSUME NEW r \in Runs, MarkStarting(r) PROVE SubmitInv'
  BY <1>23 DEF MarkStarting, SetRow, Mon, External, Bounds
<1>24. ASSUME NEW r \in Runs, RecordStarted(r) PROVE SubmitInv'
  BY <1>24 DEF RecordStarted, SetRow, Mon, External, Bounds, RemoteStarted
<1>25. ASSUME NEW r \in Runs, AwaitStart(r) PROVE SubmitInv'
  BY <1>25 DEF AwaitStart, SetRow, Mon, External, Bounds
<1>26. ASSUME NEW r \in Runs, PollNotesStart(r) PROVE SubmitInv'
  BY <1>26 DEF PollNotesStart, SetRow, External, Bounds
<1>27. ASSUME NEW r \in Runs, PollStops(r) PROVE SubmitInv'
  BY <1>27 DEF PollStops, EndsJob, Fetched, SetRow, Ends, Mon, Begins, Bounds
<1>28. ASSUME NEW r \in Runs, PollStalls(r) PROVE SubmitInv'
  BY <1>28 DEF PollStalls, EndsJob, Fetched, SetRow, Ends, Mon, Begins, Bounds
<1>29. ASSUME NEW r \in Runs, PollCompleted(r) PROVE SubmitInv'
  BY <1>29 DEF PollCompleted, SetRow, Ends, Mon, Begins, External, Bounds
<1>30. ASSUME NEW r \in Runs, PollKeepsPod(r) PROVE SubmitInv'
  BY <1>30 DEF PollKeepsPod, SetRow, Mon, External, Bounds
<1>31. ASSUME NEW r \in Runs, PollEnded(r) PROVE SubmitInv'
  BY <1>31 DEF PollEnded, Fetched, SetRow, Ends, Mon, Begins, External, Bounds
<1>32. ASSUME NEW p \in Recoverers \cup Runs, SweepLists(p) PROVE SubmitInv'
  BY <1>32 DEF SweepLists, Wants, LockFree, NoSweep, External, Bounds
<1>33. ASSUME NEW p \in Recoverers \cup Runs, SweepCannotList(p) PROVE SubmitInv'
  BY <1>33 DEF SweepCannotList, Wants, CanFail, SweptBy, External
<1>34. CASE SweepSkipped
  BY <1>34 DEF SweepSkipped, Wants, SweptBy, External, Bounds
<1>35. CASE SweepReads
  BY <1>35 DEF SweepReads, Seen, External, Bounds
<1>36. ASSUME NEW r \in Runs, SweepSpares(r) PROVE SubmitInv'
  BY <1>36 DEF SweepSpares, External, Bounds
<1>37. ASSUME NEW r \in Runs, SweepDestroys(r) PROVE SubmitInv'
  BY <1>37 DEF SweepDestroys, Destroy, View, Seen, Bounds
<1>38. ASSUME NEW r \in Runs, SweepCannotDestroy(r) PROVE SubmitInv'
  BY <1>38 DEF SweepCannotDestroy, CanFail, External
<1>41. CASE SweepEnds
  BY <1>41 DEF SweepEnds, SweptBy, NoSweep, External, Bounds
<1>42. ASSUME NEW p \in Recoverers, RecoverLists(p) PROVE SubmitInv'
  BY <1>42 DEF RecoverLists, ActiveRuns, External, Bounds
<1>43. ASSUME NEW p \in Recoverers, RecoverEnds(p) PROVE SubmitInv'
  BY <1>43 DEF RecoverEnds, External, Bounds
<1>45. CASE StopAll
  BY <1>45 DEF StopAll, External, Bounds
<1>46. ASSUME NEW r \in Runs, JobRuns(r) PROVE SubmitInv'
  BY <1>46 DEF JobRuns, volatile, Bounds
<1>47. ASSUME NEW r \in Runs, JobEnds(r) PROVE SubmitInv'
  BY <1>47 DEF JobEnds, volatile, Bounds
<1>48. ASSUME NEW r \in Runs, PodLost(r) PROVE SubmitInv'
  BY <1>48 DEF PodLost, CanFail, Destroy, volatile
<1>49. ASSUME NEW r \in Runs, CapPasses(r) PROVE SubmitInv'
  BY <1>49 DEF CapPasses, volatile, Bounds
<1>50. ASSUME NEW r \in Runs, WindowPasses(r) PROVE SubmitInv'
  BY <1>50 DEF WindowPasses, volatile, Bounds
<1>51. CASE Crash
  BY <1>51 DEF Crash, NotClosing, NoSweep, External
<1>52. CASE UNCHANGED cloudVars
  BY <1>52 DEF cloudVars
<1> QED
  BY <1>1, <1>2, <1>3, <1>4, <1>5, <1>6, <1>7, <1>9, <1>10, <1>11, <1>12, <1>13, <1>14, <1>15,
     <1>16, <1>17, <1>18, <1>19, <1>20, <1>21, <1>22, <1>23, <1>24, <1>25, <1>26, <1>27,
     <1>28, <1>29, <1>30, <1>31, <1>32, <1>33, <1>34, <1>35, <1>36, <1>37, <1>38, <1>41,
     <1>42, <1>43, <1>45, <1>46, <1>47, <1>48, <1>49, <1>50, <1>51, <1>0, <1>52
     DEF CloudNext, CloudWorks, Launches, LaunchEnds, Monitor, Submits, Polls,
         Finishes, SweepWorks, Sweeps, Recovers, Environment

(* What holds of each run by itself: launch, machine and clean-up.         *)
LEMMA LocalStep ==
  ASSUME CloudInv, CloudTypeOK', [CloudNext]_cloudVars
  PROVE  LaunchInv' /\ MachineInv' /\ ClosingInv'
<1>0. ASSUME NEW c \in Closers, NEW r \in Runs, FinishRecords(c, r)
      PROVE  LaunchInv' /\ MachineInv' /\ ClosingInv'
  <2>1. PICK new \in Rows :
          /\ row' = [row EXCEPT ![r] = new] /\ new.iid = row[r].iid
          /\ \/ /\ new.status \in Goals /\ new.target = "none"
                /\ new.meter = IF row[r].meter = "none" THEN "none" ELSE "closed"
                /\ ~row[r].iid \/ pod[r] # "up"
             \/ /\ new.status = "terminating" /\ new.target \in Goals
                /\ new.meter = IF row[r].meter = "none" THEN "none" ELSE "open"
                /\ row[r].iid
    BY <1>0, FinishWrites
  <2>2. /\ mon' = IF c = "monitor" THEN [mon EXCEPT ![r] = "off"] ELSE mon
        /\ c = "monitor" => mon[r] = "closing"
        /\ closing' = [closing EXCEPT ![<<c, r>>] = NotClosing]
        /\ UNCHANGED <<pod, launch>>
    BY <1>0, FinishWrites
  <2> USE DEF CloudInv, CloudTypeOK, Goals
  <2>6. launch[r] \in {"copy", "over"}
    <3>1. CASE c = "monitor"
      BY <2>2, <3>1 DEF LaunchInv
    <3>2. CASE c = "request"
      <4>1. row[r].iid
        BY <1>0, <3>2 DEF FinishRecords, ClosingInv
      <4> QED BY <4>1 DEF LaunchInv
    <3> QED BY <3>1, <3>2 DEF Closers
  <2>3. LaunchInv'
    BY <2>1, <2>2, <2>6 DEF LaunchInv
  <2>4. MachineInv'
    BY <2>1, <2>2 DEF LaunchInv, MachineInv
  <2>5. ClosingInv'
    <3>1. \A q \in Runs : row'[q].iid = row[q].iid
      BY <2>1
    <3>2. \A b \in Closers, q \in Runs : closing'[<<b, q>>] =
            IF b = c /\ q = r THEN NotClosing ELSE closing[<<b, q>>]
      BY <2>2 DEF Closers
    <3>3. NotClosing.at = "no"
      BY DEF NotClosing
    <3>4. ASSUME NEW q \in Runs
          PROVE  /\ closing'[<<"monitor", q>>].at # "no" <=> mon'[q] = "closing"
                 /\ closing'[<<"request", q>>].at # "no" => row'[q].iid
      <4>1. /\ closing'[<<"monitor", q>>] =
                   IF c = "monitor" /\ q = r THEN NotClosing ELSE closing[<<"monitor", q>>]
            /\ closing'[<<"request", q>>] =
                   IF c = "request" /\ q = r THEN NotClosing ELSE closing[<<"request", q>>]
        BY <3>2 DEF Closers
      <4>2. mon'[q] = IF c = "monitor" /\ q = r THEN "off" ELSE mon[q]
        BY <2>2
      <4> QED BY <3>1, <3>3, <4>1, <4>2 DEF ClosingInv
    <3>5. ASSUME NEW q \in Runs, NEW b \in Closers
          PROVE  /\ closing'[<<b, q>>].at = "refused" => row'[q].iid
                 /\ closing'[<<b, q>>].at = "destroyed" => ~row'[q].iid \/ pod'[q] # "up"
      <4>1. closing'[<<b, q>>] = NotClosing \/ closing'[<<b, q>>] = closing[<<b, q>>]
        BY <3>2
      <4>2. row'[q].iid = row[q].iid /\ pod'[q] = pod[q]
        BY <2>2, <3>1
      <4>3. /\ closing[<<b, q>>].at = "refused" => row[q].iid
            /\ closing[<<b, q>>].at = "destroyed" => ~row[q].iid \/ pod[q] # "up"
        BY DEF ClosingInv
      <4> QED BY <3>3, <4>1, <4>2, <4>3
    <3> QED BY <3>4, <3>5 DEF ClosingInv
  <2> QED BY <2>3, <2>4, <2>5
<1> USE CloudAssumption DEF CloudInv, CloudTypeOK, RemoteJobs, Places, Closings, Active,
         Ended, Goals, Closers, LaunchInv, MachineInv, ClosingInv, Rows
<1>1. ASSUME NEW r \in Runs, LaunchRequest(r) PROVE LaunchInv' /\ MachineInv' /\ ClosingInv'
  BY <1>1 DEF LaunchRequest, External, Bounds
<1>2. ASSUME NEW r \in Runs, Admit(r) PROVE LaunchInv' /\ MachineInv' /\ ClosingInv'
  <2>1. CASE /\ launch' = [launch EXCEPT ![r] = "copy"]
             /\ row' = [row EXCEPT ![r] = [row[r] EXCEPT !.status = "preparing"]]
    BY <1>2, <2>1 DEF Admit, External
  <2>2. CASE launch' = [launch EXCEPT ![r] = "no"] /\ UNCHANGED row
    BY <1>2, <2>2 DEF Admit, External
  <2> QED BY <1>2, <2>1, <2>2 DEF Admit, SetRow
<1>3. ASSUME NEW r \in Runs, LaunchStarts(r) PROVE LaunchInv' /\ MachineInv' /\ ClosingInv'
  BY <1>3 DEF LaunchStarts, Mon, External, Bounds
<1>4. ASSUME NEW r \in Runs, LaunchFails(r) PROVE LaunchInv' /\ MachineInv' /\ ClosingInv'
  BY <1>4 DEF LaunchFails, SetRow, External, Bounds
<1>5. ASSUME NEW r \in Runs, RequestStop(r) PROVE LaunchInv' /\ MachineInv' /\ ClosingInv'
  <2>1. CASE UNCHANGED closing
    BY <1>5, <2>1 DEF RequestStop, External
  <2>2. ASSUME NEW goal \in Goals, row[r].iid, Begins("request", r, goal)
        PROVE  LaunchInv' /\ MachineInv' /\ ClosingInv'
    BY <1>5, <2>2 DEF RequestStop, Begins, External
  <2>3. CASE row[r].status = "error_pod_kept"
    BY <1>5, <2>2, <2>3 DEF RequestStop
  <2>4. CASE row[r].status = "terminating"
    <3>1. row[r].target \in Goals
      BY <2>4
    <3> QED BY <1>5, <2>2, <2>4, <3>1 DEF RequestStop
  <2> QED BY <1>5, <2>1, <2>3, <2>4 DEF RequestStop
<1>6. ASSUME NEW c \in Closers, NEW r \in Runs, FinishDestroys(c, r)
      PROVE  LaunchInv' /\ MachineInv' /\ ClosingInv'
  BY <1>6 DEF FinishDestroys, Destroy, Bounds
<1>7. ASSUME NEW c \in Closers, NEW r \in Runs, FinishCannotDestroy(c, r)
      PROVE  LaunchInv' /\ MachineInv' /\ ClosingInv'
  BY <1>7 DEF FinishCannotDestroy, CanFail, External
<1>9. ASSUME NEW r \in Runs, MonitorFails(r) PROVE LaunchInv' /\ MachineInv' /\ ClosingInv'
  BY <1>9 DEF MonitorFails, Ends, Mon, Begins, External, Bounds
<1>10. ASSUME NEW r \in Runs, Stage(r) PROVE LaunchInv' /\ MachineInv' /\ ClosingInv'
  BY <1>10 DEF Stage, Mon, External, Bounds
<1>11. ASSUME NEW r \in Runs, Rent(r) PROVE LaunchInv' /\ MachineInv' /\ ClosingInv'
  BY <1>11 DEF Rent, Created, Mon, LockFree, Bounds
<1>12. ASSUME NEW r \in Runs, RentAnswerLost(r) PROVE LaunchInv' /\ MachineInv' /\ ClosingInv'
  BY <1>12 DEF RentAnswerLost, Created, CanFail, Ends, Mon, Begins, LockFree
<1>13. ASSUME NEW r \in Runs, Register(r) PROVE LaunchInv' /\ MachineInv' /\ ClosingInv'
  BY <1>13 DEF Register, SetRow, Mon, External, Bounds
<1>14. ASSUME NEW r \in Runs, RegisterFails(r) PROVE LaunchInv' /\ MachineInv' /\ ClosingInv'
  <2>1. /\ mon[r] = "rented" /\ UNCHANGED <<row, launch>>
        /\ pod' = [pod EXCEPT ![r] = IF @ = "up" THEN "gone" ELSE @] \/ UNCHANGED pod
    BY <1>14 DEF RegisterFails, Destroy
  <2>2. CASE mon' = [mon EXCEPT ![r] = "closing"] /\ Begins("monitor", r, "error")
    BY <2>1, <2>2 DEF Begins
  <2>3. CASE mon' = [mon EXCEPT ![r] = "off"] /\ UNCHANGED closing
    BY <2>1, <2>3
  <2> QED BY <1>14, <2>2, <2>3 DEF RegisterFails, Ends, Mon
<1>15. ASSUME NEW r \in Runs, BootReady(r) PROVE LaunchInv' /\ MachineInv' /\ ClosingInv'
  BY <1>15 DEF BootReady, Mon, External, Bounds
<1>16. ASSUME NEW r \in Runs, BootStopped(r) PROVE LaunchInv' /\ MachineInv' /\ ClosingInv'
  BY <1>16 DEF BootStopped, Ends, Mon, Begins, External, Bounds
<1>17. ASSUME NEW r \in Runs, Ready(r) PROVE LaunchInv' /\ MachineInv' /\ ClosingInv'
  <2>1. CASE UNCHANGED row
    BY <1>17, <2>1 DEF Ready, Mon, External
  <2>2. CASE row' = [row EXCEPT ![r] = [row[r] EXCEPT !.status = "uploading"]]
    BY <1>17, <2>2 DEF Ready, Mon, External
  <2> QED BY <1>17, <2>1, <2>2 DEF Ready, SetRow
<1>18. ASSUME NEW r \in Runs, CreateJob(r) PROVE LaunchInv' /\ MachineInv' /\ ClosingInv'
  BY <1>18 DEF CreateJob, Calls, Mon, Bounds
<1>19. ASSUME NEW r \in Runs, SeedCheckpoint(r) PROVE LaunchInv' /\ MachineInv' /\ ClosingInv'
  BY <1>19 DEF SeedCheckpoint, Calls, Mon, Bounds
<1>20. ASSUME NEW r \in Runs, QueueJob(r) PROVE LaunchInv' /\ MachineInv' /\ ClosingInv'
  BY <1>20 DEF QueueJob, Calls, Mon, Bounds
<1>21. ASSUME NEW r \in Runs, StartQueue(r) PROVE LaunchInv' /\ MachineInv' /\ ClosingInv'
  BY <1>21 DEF StartQueue, Calls, Mon, Bounds
<1>22. ASSUME NEW r \in Runs, SubmitRecords(r) PROVE LaunchInv' /\ MachineInv' /\ ClosingInv'
  BY <1>22 DEF SubmitRecords, SetRow, Mon, External, Bounds
<1>23. ASSUME NEW r \in Runs, MarkStarting(r) PROVE LaunchInv' /\ MachineInv' /\ ClosingInv'
  BY <1>23 DEF MarkStarting, SetRow, Mon, External, Bounds
<1>24. ASSUME NEW r \in Runs, RecordStarted(r) PROVE LaunchInv' /\ MachineInv' /\ ClosingInv'
  BY <1>24 DEF RecordStarted, SetRow, Mon, External, Bounds, RemoteStarted
<1>25. ASSUME NEW r \in Runs, AwaitStart(r) PROVE LaunchInv' /\ MachineInv' /\ ClosingInv'
  BY <1>25 DEF AwaitStart, SetRow, Mon, External, Bounds
<1>26. ASSUME NEW r \in Runs, PollNotesStart(r) PROVE LaunchInv' /\ MachineInv' /\ ClosingInv'
  BY <1>26 DEF PollNotesStart, SetRow, External, Bounds
<1>27. ASSUME NEW r \in Runs, PollStops(r) PROVE LaunchInv' /\ MachineInv' /\ ClosingInv'
  BY <1>27 DEF PollStops, EndsJob, Fetched, SetRow, Ends, Mon, Begins, Bounds
<1>28. ASSUME NEW r \in Runs, PollStalls(r) PROVE LaunchInv' /\ MachineInv' /\ ClosingInv'
  BY <1>28 DEF PollStalls, EndsJob, Fetched, SetRow, Ends, Mon, Begins, Bounds
<1>29. ASSUME NEW r \in Runs, PollCompleted(r) PROVE LaunchInv' /\ MachineInv' /\ ClosingInv'
  BY <1>29 DEF PollCompleted, SetRow, Ends, Mon, Begins, External, Bounds
<1>30. ASSUME NEW r \in Runs, PollKeepsPod(r) PROVE LaunchInv' /\ MachineInv' /\ ClosingInv'
  <2>1. row' = [row EXCEPT ![r] = [row[r] EXCEPT !.status = "error_pod_kept"]]
    BY <1>30 DEF PollKeepsPod, SetRow
  <2> QED BY <1>30, <2>1 DEF PollKeepsPod, Mon, External
<1>31. ASSUME NEW r \in Runs, PollEnded(r) PROVE LaunchInv' /\ MachineInv' /\ ClosingInv'
  BY <1>31 DEF PollEnded, Fetched, SetRow, Ends, Mon, Begins, External, Bounds
<1>32. ASSUME NEW p \in Recoverers \cup Runs, SweepLists(p)
       PROVE  LaunchInv' /\ MachineInv' /\ ClosingInv'
  BY <1>32 DEF SweepLists, Wants, LockFree, NoSweep, External, Bounds
<1>33. ASSUME NEW p \in Recoverers \cup Runs, SweepCannotList(p)
       PROVE  LaunchInv' /\ MachineInv' /\ ClosingInv'
  BY <1>33 DEF SweepCannotList, Wants, CanFail, SweptBy, External
<1>34. CASE SweepSkipped
  BY <1>34 DEF SweepSkipped, Wants, SweptBy, External, Bounds
<1>35. CASE SweepReads
  BY <1>35 DEF SweepReads, Seen, External, Bounds
<1>36. ASSUME NEW r \in Runs, SweepSpares(r) PROVE LaunchInv' /\ MachineInv' /\ ClosingInv'
  BY <1>36 DEF SweepSpares, External, Bounds
<1>37. ASSUME NEW r \in Runs, SweepDestroys(r) PROVE LaunchInv' /\ MachineInv' /\ ClosingInv'
  <2>1. UNCHANGED <<row, mon, launch, closing>> /\ mon[r] # "rented"
    BY <1>37 DEF SweepDestroys, SweepInv
  <2>2. pod' = [pod EXCEPT ![r] = IF @ = "up" THEN "gone" ELSE @]
    BY <1>37 DEF SweepDestroys, Destroy
  <2> QED BY <2>1, <2>2
<1>38. ASSUME NEW r \in Runs, SweepCannotDestroy(r)
       PROVE  LaunchInv' /\ MachineInv' /\ ClosingInv'
  BY <1>38 DEF SweepCannotDestroy, CanFail, External
<1>39. ASSUME NEW r \in Runs, SweepRecords(r) PROVE LaunchInv' /\ MachineInv' /\ ClosingInv'
  <2>1. CASE UNCHANGED row
    BY <1>39, <2>1, SweepWrites
  <2>2. ASSUME NEW seen \in Views,
               seen.status = "terminating" => seen.target # "none",
               row' = [row EXCEPT ![r] = Settled(row[r], seen)],
               row[r] \in Rows, row[r].iid, row[r].meter # "none", pod[r] = "gone"
        PROVE  LaunchInv' /\ MachineInv' /\ ClosingInv'
    BY <1>39, <2>2, SweepWrites, SettledFields
  <2> QED BY <1>39, <2>1, <2>2, SweepWrites
<1>40. ASSUME NEW r \in Runs, SweepUnlisted(r) PROVE LaunchInv' /\ MachineInv' /\ ClosingInv'
  <2>1. CASE UNCHANGED row
    BY <1>40, <2>1, SweepWrites
  <2>2. ASSUME NEW seen \in Views,
               seen.status = "terminating" => seen.target # "none",
               row' = [row EXCEPT ![r] = Settled(row[r], seen)],
               row[r] \in Rows, row[r].iid, row[r].meter # "none", pod[r] = "gone"
        PROVE  LaunchInv' /\ MachineInv' /\ ClosingInv'
    BY <1>40, <2>2, SweepWrites, SettledFields
  <2> QED BY <1>40, <2>1, <2>2, SweepWrites
<1>41. CASE SweepEnds
  <2>1. UNCHANGED <<row, pod, mon, closing>> /\ SweptBy(sweep.by)
    BY <1>41 DEF SweepEnds, External
  <2>2. CASE UNCHANGED launch
    BY <2>1, <2>2
  <2>3. CASE sweep.by \in Runs /\ launch' = [launch EXCEPT ![sweep.by] = "admit"]
    BY <2>1, <2>3 DEF SweepInv
  <2> QED BY <1>41, <2>1, <2>2, <2>3 DEF SweepEnds, SweptBy, SweepTypeOK, SweepInv
<1>42. ASSUME NEW p \in Recoverers, RecoverLists(p)
       PROVE  LaunchInv' /\ MachineInv' /\ ClosingInv'
  BY <1>42 DEF RecoverLists, ActiveRuns, External, Bounds
<1>43. ASSUME NEW p \in Recoverers, RecoverEnds(p)
       PROVE  LaunchInv' /\ MachineInv' /\ ClosingInv'
  BY <1>43 DEF RecoverEnds, External, Bounds
<1>44. ASSUME NEW p \in Recoverers, NEW r \in Runs, RecoverRow(p, r)
       PROVE  LaunchInv' /\ MachineInv' /\ ClosingInv'
  <2>1. UNCHANGED <<pod, closing, launch>> /\ row[r].status # "none"
    BY <1>44 DEF RecoverRow, External, RecoverInv
  <2>2. CASE mon[r] # "off"
    <3>1. UNCHANGED <<row, mon>>
      BY <1>44, <2>2 DEF RecoverRow
    <3> QED BY <2>1, <3>1
  <2>3. CASE mon[r] = "off" /\ row[r].iid
    <3>1. mon' = [mon EXCEPT ![r] = "stage"] /\ UNCHANGED row
      BY <1>44, <2>3 DEF RecoverRow, Mon
    <3> QED BY <2>1, <2>3, <3>1
  <2>4. CASE mon[r] = "off" /\ ~row[r].iid
    <3>1. UNCHANGED mon /\ row' = [row EXCEPT ![r] = [row[r] EXCEPT !.status = "error"]]
      BY <1>44, <2>4 DEF RecoverRow, SetRow
    <3> QED BY <2>1, <2>4, <3>1
  <2> QED BY <2>2, <2>3, <2>4
<1>45. CASE StopAll
  BY <1>45 DEF StopAll, External, Bounds
<1>46. ASSUME NEW r \in Runs, JobRuns(r) PROVE LaunchInv' /\ MachineInv' /\ ClosingInv'
  BY <1>46 DEF JobRuns, volatile, Bounds
<1>47. ASSUME NEW r \in Runs, JobEnds(r) PROVE LaunchInv' /\ MachineInv' /\ ClosingInv'
  BY <1>47 DEF JobEnds, volatile, Bounds
<1>48. ASSUME NEW r \in Runs, PodLost(r) PROVE LaunchInv' /\ MachineInv' /\ ClosingInv'
  BY <1>48 DEF PodLost, CanFail, Destroy, volatile
<1>49. ASSUME NEW r \in Runs, CapPasses(r) PROVE LaunchInv' /\ MachineInv' /\ ClosingInv'
  BY <1>49 DEF CapPasses, volatile, Bounds
<1>50. ASSUME NEW r \in Runs, WindowPasses(r) PROVE LaunchInv' /\ MachineInv' /\ ClosingInv'
  BY <1>50 DEF WindowPasses, volatile, Bounds
<1>51. CASE Crash
  BY <1>51 DEF Crash, NotClosing, NoSweep, External
<1>52. CASE UNCHANGED cloudVars
  BY <1>52 DEF cloudVars
<1> HIDE DEF CloudInv, CloudTypeOK, RemoteJobs, Places, Closings, Active, Ended, Goals,
         Closers, LaunchInv, MachineInv, ClosingInv, Rows
<1> QED
  BY <1>1, <1>2, <1>3, <1>4, <1>5, <1>6, <1>7, <1>9, <1>10, <1>11, <1>12, <1>13, <1>14, <1>15,
     <1>16, <1>17, <1>18, <1>19, <1>20, <1>21, <1>22, <1>23, <1>24, <1>25, <1>26, <1>27,
     <1>28, <1>29, <1>30, <1>31, <1>32, <1>33, <1>34, <1>35, <1>36, <1>37, <1>38, <1>39,
     <1>40, <1>41, <1>42, <1>43, <1>44, <1>45, <1>46, <1>47, <1>48, <1>49, <1>50, <1>51,
     <1>0, <1>52
     DEF CloudNext, CloudWorks, Launches, LaunchEnds, Monitor, Submits, Polls,
         Finishes, SweepWorks, Sweeps, Recovers, Environment

(* A row that was admitted stays admitted.                                 *)
LEMMA RecoverStep ==
  ASSUME CloudInv, CloudTypeOK', [CloudNext]_cloudVars
  PROVE  RecoverInv'
<1>0. ASSUME NEW r \in Runs,
             SweepRecords(r) \/ SweepUnlisted(r) \/ \E c \in Closers : FinishRecords(c, r)
      PROVE  RecoverInv'
  <2>1. UNCHANGED rec
    BY <1>0, SweepWrites, FinishWrites
  <2>2. \A s \in Runs : row[s].status # "none" => row'[s].status # "none"
    <3>1. CASE SweepRecords(r) \/ SweepUnlisted(r)
      <4>1. CASE UNCHANGED row
        BY <4>1
      <4>2. ASSUME NEW seen \in Views, seen.status = "terminating" => seen.target # "none",
                   row' = [row EXCEPT ![r] = Settled(row[r], seen)],
                   row[r] \in Rows, row[r].meter # "none"
            PROVE  \A s \in Runs : row[s].status # "none" => row'[s].status # "none"
        <5>1. row[r].status # "none" => Settled(row[r], seen).status # "none"
          BY <4>2, SettledFields DEF Goals
        <5> QED BY <4>2, <5>1 DEF CloudInv, CloudTypeOK
      <4> QED BY <3>1, <4>1, <4>2, SweepWrites
    <3>2. ASSUME NEW c \in Closers, FinishRecords(c, r)
          PROVE  \A s \in Runs : row[s].status # "none" => row'[s].status # "none"
      <4>1. PICK new \in Rows : /\ row' = [row EXCEPT ![r] = new]
                                /\ new.status \in Goals \cup {"terminating"}
        BY <3>2, FinishWrites
      <4> QED BY <4>1 DEF Goals, CloudInv, CloudTypeOK
    <3> QED BY <1>0, <3>1, <3>2
  <2> QED BY <2>1, <2>2 DEF CloudInv, RecoverInv, CloudTypeOK, Recoveries
<1> USE CloudAssumption DEF CloudInv, CloudTypeOK, Rows, Recoveries, Active, Goals, RecoverInv
<1>1. ASSUME NEW r \in Runs, LaunchRequest(r) PROVE RecoverInv'
  BY <1>1 DEF LaunchRequest, External, Bounds
<1>2. ASSUME NEW r \in Runs, Admit(r) PROVE RecoverInv'
  <2>1. CASE /\ launch' = [launch EXCEPT ![r] = "copy"]
             /\ row' = [row EXCEPT ![r] = [row[r] EXCEPT !.status = "preparing"]]
    BY <1>2, <2>1 DEF Admit, External
  <2>2. CASE launch' = [launch EXCEPT ![r] = "no"] /\ UNCHANGED row
    BY <1>2, <2>2 DEF Admit, External
  <2> QED BY <1>2, <2>1, <2>2 DEF Admit, SetRow
<1>3. ASSUME NEW r \in Runs, LaunchStarts(r) PROVE RecoverInv'
  BY <1>3 DEF LaunchStarts, Mon, External, Bounds
<1>4. ASSUME NEW r \in Runs, LaunchFails(r) PROVE RecoverInv'
  BY <1>4 DEF LaunchFails, SetRow, External, Bounds
<1>5. ASSUME NEW r \in Runs, RequestStop(r) PROVE RecoverInv'
  BY <1>5 DEF RequestStop, Begins, External, Bounds
<1>6. ASSUME NEW c \in Closers, NEW r \in Runs, FinishDestroys(c, r) PROVE RecoverInv'
  BY <1>6 DEF FinishDestroys, Destroy, Bounds
<1>7. ASSUME NEW c \in Closers, NEW r \in Runs, FinishCannotDestroy(c, r) PROVE RecoverInv'
  BY <1>7 DEF FinishCannotDestroy, CanFail, External
<1>9. ASSUME NEW r \in Runs, MonitorFails(r) PROVE RecoverInv'
  BY <1>9 DEF MonitorFails, Ends, Mon, Begins, External, Bounds
<1>10. ASSUME NEW r \in Runs, Stage(r) PROVE RecoverInv'
  BY <1>10 DEF Stage, Mon, External, Bounds
<1>11. ASSUME NEW r \in Runs, Rent(r) PROVE RecoverInv'
  BY <1>11 DEF Rent, Created, Mon, LockFree, Bounds
<1>12. ASSUME NEW r \in Runs, RentAnswerLost(r) PROVE RecoverInv'
  BY <1>12 DEF RentAnswerLost, Created, CanFail, Ends, Mon, Begins, LockFree
<1>13. ASSUME NEW r \in Runs, Register(r) PROVE RecoverInv'
  BY <1>13 DEF Register, SetRow, Mon, External, Bounds
<1>14. ASSUME NEW r \in Runs, RegisterFails(r) PROVE RecoverInv'
  BY <1>14 DEF RegisterFails, CanFail, Destroy, Ends, Mon, Begins
<1>15. ASSUME NEW r \in Runs, BootReady(r) PROVE RecoverInv'
  BY <1>15 DEF BootReady, Mon, External, Bounds
<1>16. ASSUME NEW r \in Runs, BootStopped(r) PROVE RecoverInv'
  BY <1>16 DEF BootStopped, Ends, Mon, Begins, External, Bounds
<1>17. ASSUME NEW r \in Runs, Ready(r) PROVE RecoverInv'
  <2>1. CASE UNCHANGED row
    BY <1>17, <2>1 DEF Ready, Mon, External
  <2>2. CASE row' = [row EXCEPT ![r] = [row[r] EXCEPT !.status = "uploading"]]
    BY <1>17, <2>2 DEF Ready, Mon, External
  <2> QED BY <1>17, <2>1, <2>2 DEF Ready, SetRow
<1>18. ASSUME NEW r \in Runs, CreateJob(r) PROVE RecoverInv'
  BY <1>18 DEF CreateJob, Calls, Mon, Bounds
<1>19. ASSUME NEW r \in Runs, SeedCheckpoint(r) PROVE RecoverInv'
  BY <1>19 DEF SeedCheckpoint, Calls, Mon, Bounds
<1>20. ASSUME NEW r \in Runs, QueueJob(r) PROVE RecoverInv'
  BY <1>20 DEF QueueJob, Calls, Mon, Bounds
<1>21. ASSUME NEW r \in Runs, StartQueue(r) PROVE RecoverInv'
  BY <1>21 DEF StartQueue, Calls, Mon, Bounds
<1>22. ASSUME NEW r \in Runs, SubmitRecords(r) PROVE RecoverInv'
  BY <1>22 DEF SubmitRecords, SetRow, Mon, External, Bounds
<1>23. ASSUME NEW r \in Runs, MarkStarting(r) PROVE RecoverInv'
  BY <1>23 DEF MarkStarting, SetRow, Mon, External, Bounds
<1>24. ASSUME NEW r \in Runs, RecordStarted(r) PROVE RecoverInv'
  BY <1>24 DEF RecordStarted, SetRow, Mon, External, Bounds, RemoteStarted
<1>25. ASSUME NEW r \in Runs, AwaitStart(r) PROVE RecoverInv'
  BY <1>25 DEF AwaitStart, SetRow, Mon, External, Bounds
<1>26. ASSUME NEW r \in Runs, PollNotesStart(r) PROVE RecoverInv'
  BY <1>26 DEF PollNotesStart, SetRow, External, Bounds
<1>27. ASSUME NEW r \in Runs, PollStops(r) PROVE RecoverInv'
  <2>1. CASE UNCHANGED row
    BY <1>27, <2>1 DEF PollStops, EndsJob, Ends, Mon, Begins
  <2>2. CASE row' = [row EXCEPT ![r] = [row[r] EXCEPT !.status = "downloading"]]
    BY <1>27, <2>2 DEF PollStops, EndsJob, Ends, Mon, Begins
  <2> QED BY <1>27, <2>1, <2>2 DEF PollStops, SetRow, EndsJob, Fetched
<1>28. ASSUME NEW r \in Runs, PollStalls(r) PROVE RecoverInv'
  <2>1. CASE UNCHANGED row
    BY <1>28, <2>1 DEF PollStalls, EndsJob, Ends, Mon, Begins
  <2>2. CASE row' = [row EXCEPT ![r] = [row[r] EXCEPT !.status = "downloading"]]
    BY <1>28, <2>2 DEF PollStalls, EndsJob, Ends, Mon, Begins
  <2> QED BY <1>28, <2>1, <2>2 DEF PollStalls, SetRow, EndsJob, Fetched
<1>29. ASSUME NEW r \in Runs, PollCompleted(r) PROVE RecoverInv'
  BY <1>29 DEF PollCompleted, SetRow, Ends, Mon, Begins, External, Bounds
<1>30. ASSUME NEW r \in Runs, PollKeepsPod(r) PROVE RecoverInv'
  BY <1>30 DEF PollKeepsPod, SetRow, Mon, External, Bounds
<1>31. ASSUME NEW r \in Runs, PollEnded(r) PROVE RecoverInv'
  <2>1. CASE UNCHANGED row
    BY <1>31, <2>1 DEF PollEnded, Ends, Mon, Begins, External
  <2>2. CASE row' = [row EXCEPT ![r] = [row[r] EXCEPT !.status = "downloading"]]
    BY <1>31, <2>2 DEF PollEnded, Ends, Mon, Begins, External
  <2> QED BY <1>31, <2>1, <2>2 DEF PollEnded, SetRow, Fetched
<1>32. ASSUME NEW p \in Recoverers \cup Runs, SweepLists(p) PROVE RecoverInv'
  <2>1. CASE p \in Recoverers
    <3>1. rec' = [rec EXCEPT ![p].at = "sweeping"] /\ UNCHANGED row
      BY <1>32, <2>1 DEF SweepLists, External
    <3> QED BY <3>1
  <2>2. CASE p \notin Recoverers
    <3>1. UNCHANGED <<rec, row>>
      BY <1>32, <2>2 DEF SweepLists, External
    <3> QED BY <3>1
  <2> QED BY <2>1, <2>2
<1>33. ASSUME NEW p \in Recoverers \cup Runs, SweepCannotList(p) PROVE RecoverInv'
  <2>1. CASE p \in Recoverers
    <3>1. rec' = [rec EXCEPT ![p].at = "list"] /\ UNCHANGED row
      BY <1>33, <2>1 DEF SweepCannotList, SweptBy, External
    <3> QED BY <3>1
  <2>2. CASE p \notin Recoverers
    <3>1. UNCHANGED <<rec, row>>
      BY <1>33, <2>2 DEF SweepCannotList, SweptBy, External
    <3> QED BY <3>1
  <2> QED BY <2>1, <2>2
<1>34. CASE SweepSkipped
  <2>1. rec' = [rec EXCEPT !["tick"].at = "list"] /\ UNCHANGED row
    BY <1>34 DEF SweepSkipped, SweptBy, External
  <2> QED BY <2>1
<1>35. CASE SweepReads
  BY <1>35 DEF SweepReads, Seen, External, Bounds
<1>36. ASSUME NEW r \in Runs, SweepSpares(r) PROVE RecoverInv'
  BY <1>36 DEF SweepSpares, External, Bounds
<1>37. ASSUME NEW r \in Runs, SweepDestroys(r) PROVE RecoverInv'
  BY <1>37 DEF SweepDestroys, Destroy, View, Seen, Bounds
<1>38. ASSUME NEW r \in Runs, SweepCannotDestroy(r) PROVE RecoverInv'
  BY <1>38 DEF SweepCannotDestroy, CanFail, External
<1>41. CASE SweepEnds
  <2>1. CASE sweep.by \in Recoverers
    <3>1. rec' = [rec EXCEPT ![sweep.by].at = "list"] /\ UNCHANGED row
      BY <1>41, <2>1 DEF SweepEnds, SweptBy, External
    <3> QED BY <2>1, <3>1
  <2>2. CASE sweep.by \notin Recoverers
    <3>1. UNCHANGED <<rec, row>>
      BY <1>41, <2>2 DEF SweepEnds, SweptBy, External
    <3> QED BY <3>1
  <2> QED BY <2>1, <2>2
<1>42. ASSUME NEW p \in Recoverers, RecoverLists(p) PROVE RecoverInv'
  BY <1>42 DEF RecoverLists, ActiveRuns, External, Bounds
<1>43. ASSUME NEW p \in Recoverers, RecoverEnds(p) PROVE RecoverInv'
  BY <1>43 DEF RecoverEnds, External, Bounds
<1>44. ASSUME NEW p \in Recoverers, NEW r \in Runs, RecoverRow(p, r) PROVE RecoverInv'
  <2>1. rec' = [rec EXCEPT ![p].rows = @ \ {r}]
    BY <1>44 DEF RecoverRow
  <2>2. CASE UNCHANGED row
    BY <2>1, <2>2
  <2>3. CASE row' = [row EXCEPT ![r] = [row[r] EXCEPT !.status = "error"]]
    BY <2>1, <2>3
  <2> QED BY <1>44, <2>2, <2>3 DEF RecoverRow, SetRow
<1>45. CASE StopAll
  BY <1>45 DEF StopAll, External, Bounds
<1>46. ASSUME NEW r \in Runs, JobRuns(r) PROVE RecoverInv'
  BY <1>46 DEF JobRuns, volatile, Bounds
<1>47. ASSUME NEW r \in Runs, JobEnds(r) PROVE RecoverInv'
  BY <1>47 DEF JobEnds, volatile, Bounds
<1>48. ASSUME NEW r \in Runs, PodLost(r) PROVE RecoverInv'
  BY <1>48 DEF PodLost, CanFail, Destroy, volatile
<1>49. ASSUME NEW r \in Runs, CapPasses(r) PROVE RecoverInv'
  BY <1>49 DEF CapPasses, volatile, Bounds
<1>50. ASSUME NEW r \in Runs, WindowPasses(r) PROVE RecoverInv'
  BY <1>50 DEF WindowPasses, volatile, Bounds
<1>51. CASE Crash
  BY <1>51 DEF Crash, NotClosing, NoSweep, External
<1>52. CASE UNCHANGED cloudVars
  BY <1>52 DEF cloudVars
<1> QED
  BY <1>1, <1>2, <1>3, <1>4, <1>5, <1>6, <1>7, <1>9, <1>10, <1>11, <1>12, <1>13, <1>14, <1>15,
     <1>16, <1>17, <1>18, <1>19, <1>20, <1>21, <1>22, <1>23, <1>24, <1>25, <1>26, <1>27,
     <1>28, <1>29, <1>30, <1>31, <1>32, <1>33, <1>34, <1>35, <1>36, <1>37, <1>38, <1>41,
     <1>42, <1>43, <1>44, <1>45, <1>46, <1>47, <1>48, <1>49, <1>50, <1>51, <1>0, <1>52
     DEF CloudNext, CloudWorks, Launches, LaunchEnds, Monitor, Submits, Polls,
         Finishes, SweepWorks, Sweeps, Recovers, Environment

(* The sweep: its own steps, and those of runs it goes on beside.          *)
LEMMA SweepStep ==
  ASSUME CloudInv, CloudTypeOK', [CloudNext]_cloudVars
  PROVE  SweepInv'
<1>a. ASSUME NEW p \in Recoverers \cup Runs, SweepLists(p) PROVE SweepInv'
  <2>1. /\ sweep' = [NoSweep EXCEPT !.by = p, !.at = "read",
                                    !.seen = {r \in Runs : pod[r] = "up"}]
        /\ UNCHANGED <<row, pod, mon>> /\ \A r \in Runs : mon[r] # "rented"
    BY <1>a DEF SweepLists, LockFree, External
  <2>2. ASSUME p \in Runs PROVE launch'[p] = "sweeping"
    <3>1. p \notin Recoverers
      BY <2>2, CloudAssumption
    <3>2. launch' = [launch EXCEPT ![p] = "sweeping"]
      BY <1>a, <3>1 DEF SweepLists
    <3> QED BY <2>2, <3>2 DEF CloudInv, CloudTypeOK
  <2>3. /\ sweep'.at = "read" /\ sweep'.by = p /\ sweep'.seen = {r \in Runs : pod[r] = "up"}
        /\ sweep'.pods = {} /\ sweep'.rows = {} /\ sweep'.hit = {}
    BY <2>1 DEF NoSweep
  <2>4. DOMAIN sweep'.view = {}
    <3>1. sweep'.view = [r \in {} |-> "none"]
      BY <2>1 DEF NoSweep
    <3> QED BY <3>1
  <2>5. p # "nobody"
    BY CloudAssumption
  <2> QED BY <2>1, <2>2, <2>3, <2>4, <2>5 DEF SweepInv
<1>b. CASE SweepReads
  <2> DEFINE owned == {r \in Runs : row[r].iid}
             keep == {r \in owned : row[r].status \in Active \ {"terminating"}}
  <2>1. /\ sweep' = [sweep EXCEPT !.at = "work", !.seen = {}, !.pods = sweep.seen \ keep,
                                  !.rows = owned \ sweep.seen,
                                  !.view = [r \in owned |-> Seen(r)]]
        /\ UNCHANGED <<row, pod, mon, launch>> /\ sweep.at = "read"
    BY <1>b DEF SweepReads, External
  <2>2. /\ sweep'.at = "work" /\ sweep'.by = sweep.by /\ sweep'.seen = {} /\ sweep'.hit = {}
        /\ sweep'.pods = sweep.seen \ keep /\ sweep'.rows = owned \ sweep.seen
        /\ sweep'.view = [r \in owned |-> Seen(r)]
    <3> DEFINE seen == [r \in owned |-> Seen(r)]
    <3> HIDE DEF seen, owned, keep
    <3>1. /\ UNCHANGED <<row, pod, mon, launch>> /\ sweep.at = "read"
          /\ sweep' = [sweep EXCEPT !.at = "work", !.seen = {}, !.pods = sweep.seen \ keep,
                                    !.rows = owned \ sweep.seen, !.view = seen]
      BY <2>1 DEF seen
    <3>2. sweep = [by |-> sweep.by, at |-> sweep.at, seen |-> sweep.seen, pods |-> sweep.pods,
                   rows |-> sweep.rows, hit |-> sweep.hit, view |-> sweep.view,
                   fresh |-> sweep.fresh]
      BY DEF CloudInv, CloudTypeOK, SweepTypeOK
    <3>3. sweep.hit = {}
      BY <3>1 DEF CloudInv, SweepInv
    <3>4. sweep'.view = seen
      BY <3>1, <3>2
    <3> QED BY <3>1, <3>2, <3>3, <3>4 DEF seen
  <2>3. \A r \in owned : pod[r] \in {"up", "gone"} /\ (pod[r] = "up" => r \in sweep.seen)
    BY <2>1 DEF CloudInv, CloudTypeOK, MachineInv, SweepInv
  <2>4. \A r \in owned : Seen(r).status = "terminating" => Seen(r).target # "none"
    BY DEF Seen, CloudInv, LaunchInv
  <2>5. \A r \in owned \ keep : pod[r] = "up" =>
          /\ Seen(r).status \in {"terminating", "error_pod_kept"}
          /\ Seen(r).status = "terminating" => row[r].target # "none"
    BY DEF Seen, CloudInv, LaunchInv, MachineInv, CloudTypeOK, Rows, Active, Ended
  <2>6. \A r \in Runs : row'[r].iid = row[r].iid
    BY <2>1
  <2>7. /\ sweep.seen \subseteq Runs
        /\ \A r \in sweep.seen : pod[r] # "none"
        /\ sweep.by # "nobody" /\ (sweep.by \in Runs => launch[sweep.by] = "sweeping")
        /\ \A r \in Runs : mon[r] # "rented"
    BY <2>1 DEF CloudInv, SweepInv, CloudTypeOK, SweepTypeOK
  <2>8. DOMAIN sweep'.view = {r \in Runs : row'[r].iid}
    BY <2>2, <2>6
  <2>9. \A r \in DOMAIN sweep'.view : r \in owned /\ sweep'.view[r] = Seen(r)
    BY <2>2
  <2>10. /\ UNCHANGED <<row, pod, mon, launch>>
         /\ owned \subseteq Runs
    BY <2>1
  <2> HIDE DEF owned, keep
  <2>11. \A r \in sweep'.pods \cap DOMAIN sweep'.view : pod'[r] = "up" =>
           /\ sweep'.view[r].status \in {"terminating", "error_pod_kept"}
           /\ sweep'.view[r].status = "terminating" => row'[r].target # "none"
    BY <2>2, <2>5, <2>9, <2>10
  <2>12. /\ \A r \in sweep'.seen \cup sweep'.pods : pod'[r] # "none"
         /\ \A r \in sweep'.rows \cup sweep'.hit : pod'[r] = "gone"
    BY <2>2, <2>3, <2>7, <2>10
  <2>13. sweep'.rows \subseteq DOMAIN sweep'.view
    BY <2>2
  <2>14. \A r \in DOMAIN sweep'.view :
           sweep'.view[r].status = "terminating" => sweep'.view[r].target # "none"
    BY <2>4, <2>9
  <2> QED BY <2>2, <2>7, <2>8, <2>10, <2>11, <2>12, <2>13, <2>14 DEF SweepInv
<1>c. ASSUME NEW c \in Closers, NEW r \in Runs, FinishRecords(c, r) PROVE SweepInv'
  <2>1. PICK new \in Rows :
          /\ row' = [row EXCEPT ![r] = new] /\ new.iid = row[r].iid
          /\ \/ /\ new.status \in Goals /\ new.target = "none"
                /\ new.meter = IF row[r].meter = "none" THEN "none" ELSE "closed"
                /\ ~row[r].iid \/ pod[r] # "up"
             \/ /\ new.status = "terminating" /\ new.target \in Goals
                /\ new.meter = IF row[r].meter = "none" THEN "none" ELSE "open"
                /\ row[r].iid
    BY <1>c, FinishWrites
  <2>2. mon' = IF c = "monitor" THEN [mon EXCEPT ![r] = "off"] ELSE mon
    BY <1>c, FinishWrites
  <2>3. UNCHANGED <<pod, launch, sweep>>
    BY <1>c, FinishWrites
  <2>4. \A s \in Runs : /\ row'[s].iid = row[s].iid
                        /\ mon'[s] = "rented" => mon[s] = "rented"
                        /\ row[s].iid /\ pod[s] = "up" /\ row[s].target # "none"
                             => row'[s].target # "none"
    BY <2>1, <2>2 DEF CloudInv, CloudTypeOK, Goals
  <2> QED BY <2>3, <2>4, SweepKept
<1>d. ASSUME NEW r \in Runs, SweepRecords(r) \/ SweepUnlisted(r) PROVE SweepInv'
  <2>1. /\ sweep'.by = sweep.by /\ sweep'.at = sweep.at /\ sweep'.seen = sweep.seen
        /\ sweep'.pods = sweep.pods /\ sweep'.view = sweep.view
        /\ sweep'.rows \subseteq sweep.rows /\ sweep'.hit \subseteq sweep.hit
    <3>1. sweep = [by |-> sweep.by, at |-> sweep.at, seen |-> sweep.seen, pods |-> sweep.pods,
                   rows |-> sweep.rows, hit |-> sweep.hit, view |-> sweep.view,
                   fresh |-> sweep.fresh]
      BY DEF CloudInv, CloudTypeOK, SweepTypeOK
    <3>2. CASE SweepRecords(r)
      BY <3>1, <3>2 DEF SweepRecords
    <3>3. CASE SweepUnlisted(r)
      BY <3>1, <3>3 DEF SweepUnlisted
    <3> QED BY <1>d, <3>2, <3>3
  <2>2. UNCHANGED <<pod, mon, launch>>
    BY <1>d, SweepWrites
  <2>3. \A s \in Runs : /\ row'[s].iid = row[s].iid
                        /\ pod[s] = "up" => row'[s] = row[s]
    <3>1. CASE UNCHANGED row
      BY <3>1
    <3>2. ASSUME NEW seen \in Views, seen.status = "terminating" => seen.target # "none",
                 row' = [row EXCEPT ![r] = Settled(row[r], seen)],
                 row[r] \in Rows, row[r].meter # "none", pod[r] = "gone"
          PROVE  \A s \in Runs : /\ row'[s].iid = row[s].iid
                                 /\ pod[s] = "up" => row'[s] = row[s]
      <4>1. Settled(row[r], seen).iid = row[r].iid
        BY <3>2, SettledFields
      <4> QED BY <3>2, <4>1 DEF CloudInv, CloudTypeOK
    <3> QED BY <1>d, <3>1, <3>2, SweepWrites
  <2>4. \A s \in Runs : row'[s].target = row[s].target \/ pod[s] # "up"
    BY <2>3
  <2>5. sweep.at = "work" => DOMAIN sweep.view = {s \in Runs : row'[s].iid}
    BY <2>3 DEF CloudInv, SweepInv
  <2>6. DOMAIN sweep.view \subseteq Runs
    BY DEF CloudInv, CloudTypeOK, SweepTypeOK
  <2> QED BY <2>1, <2>2, <2>3, <2>4, <2>5, <2>6 DEF CloudInv, SweepInv
<1>e. ASSUME NEW p \in Recoverers, NEW r \in Runs, RecoverRow(p, r) PROVE SweepInv'
  <2>1. UNCHANGED <<pod, launch, sweep>>
    BY <1>e DEF RecoverRow, External
  <2>2. \A s \in Runs : /\ row'[s].iid = row[s].iid /\ row'[s].target = row[s].target
                        /\ mon'[s] = "rented" => mon[s] = "rented"
    <3>1. CASE UNCHANGED row /\ (UNCHANGED mon \/ mon' = [mon EXCEPT ![r] = "stage"])
      BY <3>1 DEF CloudInv, CloudTypeOK
    <3>2. CASE UNCHANGED mon /\ row' = [row EXCEPT ![r] = [row[r] EXCEPT !.status = "error"]]
      BY <3>2 DEF CloudInv, CloudTypeOK, Rows
    <3>3. CASE mon[r] # "off"
      BY <1>e, <3>1, <3>3 DEF RecoverRow
    <3>4. CASE mon[r] = "off" /\ row[r].iid
      BY <1>e, <3>1, <3>4 DEF RecoverRow, Mon
    <3>5. CASE mon[r] = "off" /\ ~row[r].iid
      BY <1>e, <3>2, <3>5 DEF RecoverRow, SetRow
    <3> QED BY <3>3, <3>4, <3>5
  <2> QED BY <2>1, <2>2, SweepKept
<1> USE CloudAssumption DEF CloudInv, CloudTypeOK, SweepTypeOK, Rows, Places, Views, Active,
         Ended, Goals, LaunchInv, MachineInv, SweepInv
<1>1. ASSUME NEW r \in Runs, LaunchRequest(r) PROVE SweepInv'
  BY <1>1 DEF LaunchRequest, External, Bounds
<1>2. ASSUME NEW r \in Runs, Admit(r) PROVE SweepInv'
  <2>1. CASE /\ launch' = [launch EXCEPT ![r] = "copy"]
             /\ row' = [row EXCEPT ![r] = [row[r] EXCEPT !.status = "preparing"]]
    BY <1>2, <2>1 DEF Admit, External
  <2>2. CASE launch' = [launch EXCEPT ![r] = "no"] /\ UNCHANGED row
    BY <1>2, <2>2 DEF Admit, External
  <2> QED BY <1>2, <2>1, <2>2 DEF Admit, SetRow
<1>3. ASSUME NEW r \in Runs, LaunchStarts(r) PROVE SweepInv'
  BY <1>3 DEF LaunchStarts, Mon, External, Bounds
<1>4. ASSUME NEW r \in Runs, LaunchFails(r) PROVE SweepInv'
  BY <1>4 DEF LaunchFails, SetRow, External, Bounds
<1>5. ASSUME NEW r \in Runs, RequestStop(r) PROVE SweepInv'
  BY <1>5 DEF RequestStop, Begins, External, Bounds
<1>6. ASSUME NEW c \in Closers, NEW r \in Runs, FinishDestroys(c, r) PROVE SweepInv'
  BY <1>6 DEF FinishDestroys, Destroy, Bounds
<1>7. ASSUME NEW c \in Closers, NEW r \in Runs, FinishCannotDestroy(c, r) PROVE SweepInv'
  BY <1>7 DEF FinishCannotDestroy, CanFail, External
<1>9. ASSUME NEW r \in Runs, MonitorFails(r) PROVE SweepInv'
  BY <1>9 DEF MonitorFails, Ends, Mon, Begins, External, Bounds
<1>10. ASSUME NEW r \in Runs, Stage(r) PROVE SweepInv'
  BY <1>10 DEF Stage, Mon, External, Bounds
<1>11. ASSUME NEW r \in Runs, Rent(r) PROVE SweepInv'
  BY <1>11 DEF Rent, Created, Mon, LockFree, Bounds
<1>12. ASSUME NEW r \in Runs, RentAnswerLost(r) PROVE SweepInv'
  BY <1>12 DEF RentAnswerLost, Created, CanFail, Ends, Mon, Begins, LockFree
<1>13. ASSUME NEW r \in Runs, Register(r) PROVE SweepInv'
  BY <1>13 DEF Register, SetRow, Mon, External, Bounds
<1>14. ASSUME NEW r \in Runs, RegisterFails(r) PROVE SweepInv'
  BY <1>14 DEF RegisterFails, CanFail, Destroy, Ends, Mon, Begins
<1>15. ASSUME NEW r \in Runs, BootReady(r) PROVE SweepInv'
  BY <1>15 DEF BootReady, Mon, External, Bounds
<1>16. ASSUME NEW r \in Runs, BootStopped(r) PROVE SweepInv'
  BY <1>16 DEF BootStopped, Ends, Mon, Begins, External, Bounds
<1>17. ASSUME NEW r \in Runs, Ready(r) PROVE SweepInv'
  <2>1. CASE UNCHANGED row
    BY <1>17, <2>1 DEF Ready, Mon, External
  <2>2. CASE row' = [row EXCEPT ![r] = [row[r] EXCEPT !.status = "uploading"]]
    BY <1>17, <2>2 DEF Ready, Mon, External
  <2> QED BY <1>17, <2>1, <2>2 DEF Ready, SetRow
<1>18. ASSUME NEW r \in Runs, CreateJob(r) PROVE SweepInv'
  BY <1>18 DEF CreateJob, Calls, Mon, Bounds
<1>19. ASSUME NEW r \in Runs, SeedCheckpoint(r) PROVE SweepInv'
  BY <1>19 DEF SeedCheckpoint, Calls, Mon, Bounds
<1>20. ASSUME NEW r \in Runs, QueueJob(r) PROVE SweepInv'
  BY <1>20 DEF QueueJob, Calls, Mon, Bounds
<1>21. ASSUME NEW r \in Runs, StartQueue(r) PROVE SweepInv'
  BY <1>21 DEF StartQueue, Calls, Mon, Bounds
<1>22. ASSUME NEW r \in Runs, SubmitRecords(r) PROVE SweepInv'
  BY <1>22 DEF SubmitRecords, SetRow, Mon, External, Bounds
<1>23. ASSUME NEW r \in Runs, MarkStarting(r) PROVE SweepInv'
  BY <1>23 DEF MarkStarting, SetRow, Mon, External, Bounds
<1>24. ASSUME NEW r \in Runs, RecordStarted(r) PROVE SweepInv'
  BY <1>24 DEF RecordStarted, SetRow, Mon, External, Bounds, RemoteStarted
<1>25. ASSUME NEW r \in Runs, AwaitStart(r) PROVE SweepInv'
  BY <1>25 DEF AwaitStart, SetRow, Mon, External, Bounds
<1>26. ASSUME NEW r \in Runs, PollNotesStart(r) PROVE SweepInv'
  BY <1>26 DEF PollNotesStart, SetRow, External, Bounds
<1>27. ASSUME NEW r \in Runs, PollStops(r) PROVE SweepInv'
  <2>1. CASE UNCHANGED row
    BY <1>27, <2>1 DEF PollStops, EndsJob, Ends, Mon, Begins
  <2>2. CASE row' = [row EXCEPT ![r] = [row[r] EXCEPT !.status = "downloading"]]
    BY <1>27, <2>2 DEF PollStops, EndsJob, Ends, Mon, Begins
  <2> QED BY <1>27, <2>1, <2>2 DEF PollStops, SetRow, EndsJob, Fetched
<1>28. ASSUME NEW r \in Runs, PollStalls(r) PROVE SweepInv'
  <2>1. CASE UNCHANGED row
    BY <1>28, <2>1 DEF PollStalls, EndsJob, Ends, Mon, Begins
  <2>2. CASE row' = [row EXCEPT ![r] = [row[r] EXCEPT !.status = "downloading"]]
    BY <1>28, <2>2 DEF PollStalls, EndsJob, Ends, Mon, Begins
  <2> QED BY <1>28, <2>1, <2>2 DEF PollStalls, SetRow, EndsJob, Fetched
<1>29. ASSUME NEW r \in Runs, PollCompleted(r) PROVE SweepInv'
  BY <1>29 DEF PollCompleted, SetRow, Ends, Mon, Begins, External, Bounds
<1>30. ASSUME NEW r \in Runs, PollKeepsPod(r) PROVE SweepInv'
  BY <1>30 DEF PollKeepsPod, SetRow, Mon, External, Bounds
<1>31. ASSUME NEW r \in Runs, PollEnded(r) PROVE SweepInv'
  <2>1. CASE UNCHANGED row
    BY <1>31, <2>1 DEF PollEnded, Ends, Mon, Begins, External
  <2>2. CASE row' = [row EXCEPT ![r] = [row[r] EXCEPT !.status = "downloading"]]
    BY <1>31, <2>2 DEF PollEnded, Ends, Mon, Begins, External
  <2> QED BY <1>31, <2>1, <2>2 DEF PollEnded, SetRow, Fetched
<1>33. ASSUME NEW p \in Recoverers \cup Runs, SweepCannotList(p) PROVE SweepInv'
  BY <1>33 DEF SweepCannotList, Wants, CanFail, SweptBy, External
<1>34. CASE SweepSkipped
  BY <1>34 DEF SweepSkipped, Wants, SweptBy, External, Bounds
<1>36. ASSUME NEW r \in Runs, SweepSpares(r) PROVE SweepInv'
  BY <1>36 DEF SweepSpares, External, Bounds
<1>37. ASSUME NEW r \in Runs, SweepDestroys(r) PROVE SweepInv'
  BY <1>37 DEF SweepDestroys, Destroy, View, Seen, Bounds
<1>38. ASSUME NEW r \in Runs, SweepCannotDestroy(r) PROVE SweepInv'
  BY <1>38 DEF SweepCannotDestroy, CanFail, External
<1>41. CASE SweepEnds
  BY <1>41 DEF SweepEnds, SweptBy, NoSweep, External, Bounds
<1>42. ASSUME NEW p \in Recoverers, RecoverLists(p) PROVE SweepInv'
  BY <1>42 DEF RecoverLists, ActiveRuns, External, Bounds
<1>43. ASSUME NEW p \in Recoverers, RecoverEnds(p) PROVE SweepInv'
  BY <1>43 DEF RecoverEnds, External, Bounds
<1>45. CASE StopAll
  BY <1>45 DEF StopAll, External, Bounds
<1>46. ASSUME NEW r \in Runs, JobRuns(r) PROVE SweepInv'
  BY <1>46 DEF JobRuns, volatile, Bounds
<1>47. ASSUME NEW r \in Runs, JobEnds(r) PROVE SweepInv'
  BY <1>47 DEF JobEnds, volatile, Bounds
<1>48. ASSUME NEW r \in Runs, PodLost(r) PROVE SweepInv'
  BY <1>48 DEF PodLost, CanFail, Destroy, volatile
<1>49. ASSUME NEW r \in Runs, CapPasses(r) PROVE SweepInv'
  BY <1>49 DEF CapPasses, volatile, Bounds
<1>50. ASSUME NEW r \in Runs, WindowPasses(r) PROVE SweepInv'
  BY <1>50 DEF WindowPasses, volatile, Bounds
<1>51. CASE Crash
  BY <1>51 DEF Crash, NotClosing, NoSweep, External
<1>52. CASE UNCHANGED cloudVars
  BY <1>52 DEF cloudVars
<1> QED
  BY <1>1, <1>2, <1>3, <1>4, <1>5, <1>6, <1>7, <1>9, <1>10, <1>11, <1>12, <1>13, <1>14, <1>15,
     <1>16, <1>17, <1>18, <1>19, <1>20, <1>21, <1>22, <1>23, <1>24, <1>25, <1>26, <1>27,
     <1>28, <1>29, <1>30, <1>31, <1>33, <1>34, <1>36, <1>37, <1>38, <1>41, <1>42, <1>43,
     <1>45, <1>46, <1>47, <1>48, <1>49, <1>50, <1>51, <1>a, <1>b, <1>c, <1>d, <1>e, <1>52
     DEF CloudNext, CloudWorks, Launches, LaunchEnds, Monitor, Submits, Polls,
         Finishes, SweepWorks, Sweeps, Recovers, Environment

-----------------------------------------------------------------------------
(* The steps that change a machine or a meter.                             *)
MachineSteps(r) ==
  \/ Rent(r) \/ RentAnswerLost(r) \/ Register(r) \/ RegisterFails(r)
  \/ SweepDestroys(r) \/ SweepRecords(r) \/ SweepUnlisted(r) \/ PodLost(r)
  \/ \E c \in Closers : FinishDestroys(c, r) \/ FinishRecords(c, r)

MachinesKept == UNCHANGED pod /\ \A r \in Runs : row'[r].meter = row[r].meter

(* All others leave machines and meters alone.                             *)
LEMMA OtherSteps ==
  ASSUME CloudInv, [CloudNext]_cloudVars
  PROVE  MachinesKept \/ \E r \in Runs : MachineSteps(r)
<1> USE DEF CloudInv, CloudTypeOK, MachinesKept
<1>1. ASSUME NEW r \in Runs, LaunchRequest(r) PROVE MachinesKept
  BY <1>1 DEF LaunchRequest, External, Bounds
<1>2. ASSUME NEW r \in Runs, Admit(r) PROVE MachinesKept
  <2>1. UNCHANGED pod
    BY <1>2 DEF Admit, External
  <2>2. CASE UNCHANGED row
    BY <2>1, <2>2
  <2>3. CASE row' = [row EXCEPT ![r] = [row[r] EXCEPT !.status = "preparing"]]
    BY <2>1, <2>3 DEF Rows
  <2> QED BY <1>2, <2>2, <2>3 DEF Admit, SetRow
<1>3. ASSUME NEW r \in Runs, LaunchStarts(r) PROVE MachinesKept
  BY <1>3 DEF LaunchStarts, Mon, External, Bounds
<1>4. ASSUME NEW r \in Runs, LaunchFails(r) PROVE MachinesKept
  BY <1>4 DEF LaunchFails, SetRow, External, Bounds, Rows
<1>5. ASSUME NEW r \in Runs, RequestStop(r) PROVE MachinesKept
  BY <1>5 DEF RequestStop, Begins, External, Bounds
<1>7. ASSUME NEW c \in Closers, NEW r \in Runs, FinishCannotDestroy(c, r) PROVE MachinesKept
  BY <1>7 DEF FinishCannotDestroy, CanFail, External
<1>9. ASSUME NEW r \in Runs, MonitorFails(r) PROVE MachinesKept
  BY <1>9 DEF MonitorFails, Ends, Mon, Begins, External, Bounds
<1>10. ASSUME NEW r \in Runs, Stage(r) PROVE MachinesKept
  BY <1>10 DEF Stage, Mon, External, Bounds
<1>15. ASSUME NEW r \in Runs, BootReady(r) PROVE MachinesKept
  BY <1>15 DEF BootReady, Mon, External, Bounds
<1>16. ASSUME NEW r \in Runs, BootStopped(r) PROVE MachinesKept
  BY <1>16 DEF BootStopped, Ends, Mon, Begins, External, Bounds
<1>17. ASSUME NEW r \in Runs, Ready(r) PROVE MachinesKept
  <2>1. UNCHANGED pod
    BY <1>17 DEF Ready, External
  <2>2. CASE UNCHANGED row
    BY <2>1, <2>2
  <2>3. CASE row' = [row EXCEPT ![r] = [row[r] EXCEPT !.status = "uploading"]]
    BY <2>1, <2>3 DEF Rows
  <2> QED BY <1>17, <2>2, <2>3 DEF Ready, SetRow
<1>18. ASSUME NEW r \in Runs, CreateJob(r) PROVE MachinesKept
  BY <1>18 DEF CreateJob, Calls, Mon, Bounds
<1>19. ASSUME NEW r \in Runs, SeedCheckpoint(r) PROVE MachinesKept
  BY <1>19 DEF SeedCheckpoint, Calls, Mon, Bounds
<1>20. ASSUME NEW r \in Runs, QueueJob(r) PROVE MachinesKept
  BY <1>20 DEF QueueJob, Calls, Mon, Bounds
<1>21. ASSUME NEW r \in Runs, StartQueue(r) PROVE MachinesKept
  BY <1>21 DEF StartQueue, Calls, Mon, Bounds
<1>22. ASSUME NEW r \in Runs, SubmitRecords(r) PROVE MachinesKept
  BY <1>22 DEF SubmitRecords, SetRow, Mon, External, Bounds, Rows
<1>23. ASSUME NEW r \in Runs, MarkStarting(r) PROVE MachinesKept
  BY <1>23 DEF MarkStarting, SetRow, Mon, External, Bounds, Rows
<1>24. ASSUME NEW r \in Runs, RecordStarted(r) PROVE MachinesKept
  BY <1>24 DEF RecordStarted, SetRow, Mon, External, Bounds, RemoteStarted, Rows
<1>25. ASSUME NEW r \in Runs, AwaitStart(r) PROVE MachinesKept
  BY <1>25 DEF AwaitStart, SetRow, Mon, External, Bounds, Rows
<1>26. ASSUME NEW r \in Runs, PollNotesStart(r) PROVE MachinesKept
  BY <1>26 DEF PollNotesStart, SetRow, External, Bounds, Rows
<1>27. ASSUME NEW r \in Runs, PollStops(r) PROVE MachinesKept
  <2>1. UNCHANGED pod
    BY <1>27 DEF PollStops, EndsJob
  <2>2. CASE UNCHANGED row
    BY <2>1, <2>2
  <2>3. CASE row' = [row EXCEPT ![r] = [row[r] EXCEPT !.status = "downloading"]]
    BY <2>1, <2>3 DEF Rows
  <2> QED BY <1>27, <2>2, <2>3 DEF PollStops, EndsJob, Fetched, SetRow
<1>28. ASSUME NEW r \in Runs, PollStalls(r) PROVE MachinesKept
  <2>1. UNCHANGED pod
    BY <1>28 DEF PollStalls, EndsJob
  <2>2. CASE UNCHANGED row
    BY <2>1, <2>2
  <2>3. CASE row' = [row EXCEPT ![r] = [row[r] EXCEPT !.status = "downloading"]]
    BY <2>1, <2>3 DEF Rows
  <2> QED BY <1>28, <2>2, <2>3 DEF PollStalls, EndsJob, Fetched, SetRow
<1>29. ASSUME NEW r \in Runs, PollCompleted(r) PROVE MachinesKept
  BY <1>29 DEF PollCompleted, SetRow, Ends, Mon, Begins, External, Bounds, Rows
<1>30. ASSUME NEW r \in Runs, PollKeepsPod(r) PROVE MachinesKept
  BY <1>30 DEF PollKeepsPod, SetRow, Mon, External, Bounds, Rows
<1>31. ASSUME NEW r \in Runs, PollEnded(r) PROVE MachinesKept
  <2>1. UNCHANGED pod
    BY <1>31 DEF PollEnded, External
  <2>2. CASE UNCHANGED row
    BY <2>1, <2>2
  <2>3. CASE row' = [row EXCEPT ![r] = [row[r] EXCEPT !.status = "downloading"]]
    BY <2>1, <2>3 DEF Rows
  <2> QED BY <1>31, <2>2, <2>3 DEF PollEnded, Fetched, SetRow
<1>32. ASSUME NEW p \in Recoverers \cup Runs, SweepLists(p) PROVE MachinesKept
  BY <1>32 DEF SweepLists, Wants, LockFree, NoSweep, External, Bounds
<1>33. ASSUME NEW p \in Recoverers \cup Runs, SweepCannotList(p) PROVE MachinesKept
  BY <1>33 DEF SweepCannotList, Wants, CanFail, SweptBy, External
<1>34. CASE SweepSkipped
  BY <1>34 DEF SweepSkipped, Wants, SweptBy, External, Bounds
<1>35. CASE SweepReads
  BY <1>35 DEF SweepReads, Seen, External, Bounds
<1>36. ASSUME NEW r \in Runs, SweepSpares(r) PROVE MachinesKept
  BY <1>36 DEF SweepSpares, External, Bounds
<1>38. ASSUME NEW r \in Runs, SweepCannotDestroy(r) PROVE MachinesKept
  BY <1>38 DEF SweepCannotDestroy, CanFail, External
<1>41. CASE SweepEnds
  BY <1>41 DEF SweepEnds, SweptBy, NoSweep, External, Bounds
<1>42. ASSUME NEW p \in Recoverers, RecoverLists(p) PROVE MachinesKept
  BY <1>42 DEF RecoverLists, ActiveRuns, External, Bounds
<1>43. ASSUME NEW p \in Recoverers, RecoverEnds(p) PROVE MachinesKept
  BY <1>43 DEF RecoverEnds, External, Bounds
<1>44. ASSUME NEW p \in Recoverers, NEW r \in Runs, RecoverRow(p, r) PROVE MachinesKept
  <2>1. UNCHANGED pod
    BY <1>44 DEF RecoverRow, External
  <2>2. CASE UNCHANGED row
    BY <2>1, <2>2
  <2>3. CASE row' = [row EXCEPT ![r] = [row[r] EXCEPT !.status = "error"]]
    BY <2>1, <2>3 DEF Rows
  <2> QED BY <1>44, <2>2, <2>3 DEF RecoverRow, SetRow
<1>45. CASE StopAll
  BY <1>45 DEF StopAll, External, Bounds
<1>46. ASSUME NEW r \in Runs, JobRuns(r) PROVE MachinesKept
  BY <1>46 DEF JobRuns, volatile, Bounds
<1>47. ASSUME NEW r \in Runs, JobEnds(r) PROVE MachinesKept
  BY <1>47 DEF JobEnds, volatile, Bounds
<1>49. ASSUME NEW r \in Runs, CapPasses(r) PROVE MachinesKept
  BY <1>49 DEF CapPasses, volatile, Bounds
<1>50. ASSUME NEW r \in Runs, WindowPasses(r) PROVE MachinesKept
  BY <1>50 DEF WindowPasses, volatile, Bounds
<1>51. CASE Crash
  BY <1>51 DEF Crash, NotClosing, NoSweep, External
<1>52. CASE UNCHANGED cloudVars
  BY <1>52 DEF cloudVars
<1> QED
  BY <1>1, <1>2, <1>3, <1>4, <1>5, <1>7, <1>9, <1>10, <1>15, <1>16, <1>17, <1>18, <1>19,
     <1>20, <1>21, <1>22, <1>23, <1>24, <1>25, <1>26, <1>27, <1>28, <1>29, <1>30, <1>31,
     <1>32, <1>33, <1>34, <1>35, <1>36, <1>38, <1>41, <1>42, <1>43, <1>44, <1>45, <1>46,
     <1>47, <1>49, <1>50, <1>51, <1>52
     DEF MachineSteps, CloudNext, CloudWorks, Launches, LaunchEnds, Monitor, Submits, Polls,
         Finishes, SweepWorks, Sweeps, Recovers, Environment

-----------------------------------------------------------------------------
(* The invariant                                                           *)
LEMMA CloudStarts == CloudInit => CloudInv
<1> SUFFICES ASSUME CloudInit PROVE CloudInv
  OBVIOUS
<1> USE CloudAssumption DEF CloudInit
<1>1. SweepTypeOK
  <2>1. DOMAIN NoSweep.view = {} /\ NoSweep.view \in [{} -> Views]
    BY DEF NoSweep
  <2> QED BY <2>1 DEF SweepTypeOK, NoSweep
<1>2. CloudTypeOK
  BY <1>1 DEF CloudTypeOK, Rows, RemoteJobs, Places, Closings, Recoveries, NotClosing, Goals,
     Phases
<1>3. SubmitInv /\ LaunchInv /\ MachineInv /\ RecoverInv
  BY DEF SubmitInv, LaunchInv, MachineInv, RecoverInv
<1>4. ClosingInv
  BY DEF ClosingInv, NotClosing, Closers
<1>5. SweepInv
  <2>1. DOMAIN NoSweep.view = {}
    BY DEF NoSweep
  <2> QED BY <2>1 DEF SweepInv, NoSweep
<1> QED BY <1>2, <1>3, <1>4, <1>5 DEF CloudInv

LEMMA CloudStep == CloudInv /\ [CloudNext]_cloudVars => CloudInv'
<1> SUFFICES ASSUME CloudInv, [CloudNext]_cloudVars PROVE CloudInv'
  OBVIOUS
<1>1. CloudTypeOK'
  BY TypeStep
<1>2. SubmitInv' /\ LaunchInv' /\ MachineInv' /\ ClosingInv' /\ SweepInv' /\ RecoverInv'
  BY <1>1, SubmitStep, LocalStep, SweepStep, RecoverStep
<1> QED BY <1>1, <1>2 DEF CloudInv

LEMMA CloudIsSound == CloudSpec => []CloudInv
  BY CloudStarts, CloudStep, PTL DEF CloudSpec

(* The copy of the dataset adds no step to the cloud run: what holds of a   *)
(* cloud run holds of the launch.                                          *)
THEOREM LaunchIsCloud == LaunchSpec => CloudSpec
<1>1. LaunchInit => CloudInit
  BY DEF LaunchInit
<1>2. [LaunchNext]_launchVars => [CloudNext]_cloudVars
  <2>1. ASSUME LaunchNext PROVE [CloudNext]_cloudVars
    BY <2>1 DEF LaunchNext, CloudNext, SnapshotStarts, SnapshotFails, LaunchEnds
  <2>2. ASSUME UNCHANGED launchVars PROVE UNCHANGED cloudVars
    BY <2>2 DEF launchVars
  <2> QED BY <2>1, <2>2
<1> QED BY <1>1, <1>2, PTL DEF LaunchSpec, CloudSpec

(* Rows, monitors, sweeps and recoveries keep to their types.              *)
THEOREM CloudTyped == LaunchSpec => []CloudTypeOK
<1>1. CloudInv => CloudTypeOK
  BY DEF CloudInv
<1> QED BY <1>1, LaunchIsCloud, CloudIsSound, PTL

(* However often a submission is interrupted and resumed, its machine gets *)
(* one job, started once, over a checkpoint that is there.                 *)
THEOREM OneJobPerMachine == LaunchSpec => []OneSeededJob
<1>1. CloudInv => OneSeededJob
  BY DEF CloudInv, SubmitInv, OneSeededJob
<1> QED BY <1>1, LaunchIsCloud, CloudIsSound, PTL

(* While a registered machine is up, its run is charged for it.            *)
THEOREM NothingRunsUnmetered == LaunchSpec => []MeteredWhileUp
<1>1. CloudInv => MeteredWhileUp
  BY DEF CloudInv, MachineInv, MeteredWhileUp
<1> QED BY <1>1, LaunchIsCloud, CloudIsSound, PTL

(* A machine goes by its run's own clean-up, a registration that failed, a *)
(* sweep, or the provider: none of them takes one that is being registered *)
(* or that is kept for the user.                                           *)
LEMMA Spares ==
  ASSUME CloudInv, [CloudNext]_cloudVars, NEW r \in Runs, pod[r] = "up", pod'[r] = "gone"
  PROVE  mon'[r] # "rented" /\ (Kept(r) => r \in expired \/ faults' # faults)
<1> USE DEF CloudInv, CloudTypeOK
<1>0. row[r].iid => mon[r] # "rented"
  BY DEF MachineInv
<1>1. ASSUME NEW c \in Closers, FinishDestroys(c, r)
      PROVE  mon'[r] # "rented" /\ ~Kept(r)
  <2>1. row[r].iid /\ UNCHANGED mon
    BY <1>1 DEF FinishDestroys
  <2>2. closing[<<c, r>>].at = "destroy"
    BY <1>1 DEF FinishDestroys
  <2>3. c = "monitor" => mon[r] = "closing"
    BY <2>2 DEF ClosingInv
  <2> QED BY <1>0, <2>1, <2>2, <2>3 DEF Kept, Closers
<1>2. ASSUME RegisterFails(r)
      PROVE  mon'[r] # "rented" /\ faults' # faults
  BY <1>2 DEF RegisterFails, CanFail, Ends, Mon
<1>3. ASSUME SweepDestroys(r)
      PROVE  mon'[r] # "rented" /\ (Kept(r) => r \in expired)
  <2>1. sweep.at = "work" /\ r \in sweep.pods /\ ~Spared(r) /\ UNCHANGED mon
    BY <1>3 DEF SweepDestroys
  <2>2. mon[r] # "rented"
    BY <2>1 DEF SweepInv
  <2>3. ASSUME Kept(r) PROVE r \in expired
    <3>1. row[r].status = "error_pod_kept" /\ row[r].target = "none"
      BY <2>3 DEF Kept
    <3>2. r \in DOMAIN sweep.view
      BY <2>1, <3>1 DEF LaunchInv, SweepInv
    <3>3. sweep.view[r].status = "error_pod_kept"
      BY <2>1, <3>1, <3>2 DEF SweepInv
    <3>4. View(r).status = "error_pod_kept"
      BY <3>1, <3>3 DEF View, Seen
    <3> QED BY <2>1, <3>2, <3>4 DEF Spared
  <2> QED BY <2>1, <2>2, <2>3
<1>4. ASSUME PodLost(r)
      PROVE  mon'[r] # "rented" /\ faults' # faults
  <2>1. row[r].iid /\ UNCHANGED mon /\ faults' = faults + 1
    BY <1>4 DEF PodLost, CanFail, volatile
  <2> QED BY <1>0, <2>1
<1>5. ASSUME NEW s \in Runs, MachineSteps(s)
      PROVE  \/ SweepDestroys(r) \/ PodLost(r) \/ RegisterFails(r)
             \/ \E c \in Closers : FinishDestroys(c, r)
  <2>1. ASSUME Rent(s) \/ RentAnswerLost(s) PROVE FALSE
    BY <2>1 DEF Rent, RentAnswerLost, Created
  <2>2. ASSUME \/ Register(s) \/ SweepRecords(s) \/ SweepUnlisted(s)
               \/ \E c \in Closers : FinishRecords(c, s)
        PROVE  FALSE
    BY <2>2 DEF Register, SweepRecords, SweepUnlisted, FinishRecords, External
  <2>3. ASSUME SweepDestroys(s) \/ PodLost(s) \/ RegisterFails(s) PROVE s = r
    BY <2>3 DEF SweepDestroys, PodLost, RegisterFails, Destroy
  <2>4. ASSUME NEW c \in Closers, FinishDestroys(c, s) PROVE s = r
    BY <2>4 DEF FinishDestroys, Destroy
  <2> QED BY <1>5, <2>1, <2>2, <2>3, <2>4 DEF MachineSteps
<1>6. ~MachinesKept
  BY DEF MachinesKept
<1>7. \/ SweepDestroys(r) \/ PodLost(r) \/ RegisterFails(r)
      \/ \E c \in Closers : FinishDestroys(c, r)
  BY <1>5, <1>6, OtherSteps
<1> QED BY <1>1, <1>2, <1>3, <1>4, <1>7

(* A sweep, or a clean-up, takes no machine from under a run or the user.  *)
THEOREM OwnMachinesAreSpared == LaunchSpec => OwnedPodsAreSpared
<1>1. CloudInv /\ [CloudNext]_cloudVars =>
        [\A r \in Runs : pod[r] = "up" /\ pod'[r] = "gone" =>
            /\ mon'[r] # "rented"
            /\ Kept(r) => r \in expired \/ faults' # faults]_cloudVars
  BY Spares
<1> QED BY <1>1, LaunchIsCloud, CloudIsSound, PTL DEF CloudSpec, OwnedPodsAreSpared

-----------------------------------------------------------------------------
(* The rental                                                              *)
(* Every step is one of the rental, or none.                               *)
LEMMA RentalStep ==
  ASSUME CloudInv, [CloudNext]_cloudVars
  PROVE  [Machine!Next]_(Machine!rentalVars)
<1> DEFINE metered == [r \in Runs |-> row[r].meter]
<1> USE DEF CloudInv, CloudTypeOK
<1>0. /\ metered \in [Runs -> {"none", "open", "closed"}]
      /\ metered' = [r \in Runs |-> row'[r].meter]
  BY DEF Rows
<1>1. CASE MachinesKept
  BY <1>1 DEF MachinesKept, Machine!rentalVars
<1>2. ASSUME NEW r \in Runs, \A s \in Runs : row'[s].meter = row[s].meter,
             \/ pod[r] = "none" /\ pod' = [pod EXCEPT ![r] = "up"]
             \/ pod[r] = "up" /\ pod' = [pod EXCEPT ![r] = "gone"]
      PROVE  Machine!Next
  BY <1>2 DEF Machine!Next, Machine!Rent, Machine!GiveBack
<1>3. ASSUME NEW r \in Runs, UNCHANGED pod, NEW m, metered' = [metered EXCEPT ![r] = m],
             \/ m = metered[r]
             \/ m = "open" /\ pod[r] # "none"
             \/ m = "closed" /\ metered[r] = "open" /\ pod[r] = "gone"
      PROVE  [Machine!Next]_(Machine!rentalVars)
  <2>1. CASE m = metered[r]
    BY <1>0, <1>3, <2>1 DEF Machine!rentalVars
  <2>2. CASE m = "open" /\ pod[r] # "none"
    BY <1>3, <2>2 DEF Machine!Next, Machine!Open
  <2>3. CASE m = "closed" /\ metered[r] = "open" /\ pod[r] = "gone"
    BY <1>3, <2>3 DEF Machine!Next, Machine!Close
  <2> QED BY <1>3, <2>1, <2>2, <2>3
<1>4. ASSUME NEW r \in Runs, UNCHANGED row,
             pod' = [pod EXCEPT ![r] = IF @ = "up" THEN "gone" ELSE @]
      PROVE  [Machine!Next]_(Machine!rentalVars)
  <2>1. CASE pod[r] = "up"
    BY <1>2, <1>4, <2>1
  <2>2. CASE pod[r] # "up"
    BY <1>1, <1>4, <2>2 DEF MachinesKept
  <2> QED BY <2>1, <2>2
<1>5. ASSUME NEW r \in Runs, UNCHANGED pod, NEW new \in Rows, row' = [row EXCEPT ![r] = new],
             \/ new.meter = row[r].meter
             \/ new.meter = "open" /\ pod[r] # "none"
             \/ new.meter = "closed" /\ row[r].meter = "open" /\ pod[r] = "gone"
      PROVE  [Machine!Next]_(Machine!rentalVars)
  <2>1. metered' = [metered EXCEPT ![r] = new.meter]
    BY <1>0, <1>5
  <2>2. metered[r] = row[r].meter
    OBVIOUS
  <2> HIDE DEF metered
  <2> QED BY <1>3, <1>5, <2>1, <2>2
<1>6. ASSUME NEW r \in Runs, Rent(r) \/ RentAnswerLost(r)
      PROVE  Machine!Next
  <2>1. mon[r] = "provision" /\ UNCHANGED row /\ pod' = [pod EXCEPT ![r] = "up"]
    BY <1>6 DEF Rent, RentAnswerLost, Created
  <2>2. pod[r] = "none"
    BY <2>1 DEF MachineInv
  <2> QED BY <1>2, <2>1, <2>2
<1>7. ASSUME NEW r \in Runs, Register(r)
      PROVE  [Machine!Next]_(Machine!rentalVars)
  <2> DEFINE new == [row[r] EXCEPT !.iid = TRUE, !.meter = "open", !.status = "provisioning"]
  <2>1. new \in Rows /\ new.meter = "open"
    <3>1. row[r] \in Rows
      OBVIOUS
    <3>2. new \in Rows
      BY <3>1, RowFields
    <3>3. new.meter = "open"
      BY <3>1 DEF Rows
    <3> QED BY <3>2, <3>3
  <2>2. row' = [row EXCEPT ![r] = new] /\ UNCHANGED pod /\ mon[r] = "rented"
    BY <1>7 DEF Register, SetRow, External
  <2>3. pod[r] # "none"
    BY <2>2 DEF MachineInv
  <2> HIDE DEF new
  <2> QED BY <1>5, <2>1, <2>2, <2>3
<1>8. ASSUME NEW r \in Runs, \/ RegisterFails(r) \/ SweepDestroys(r) \/ PodLost(r)
                             \/ \E c \in Closers : FinishDestroys(c, r)
      PROVE  [Machine!Next]_(Machine!rentalVars)
  <2>1. UNCHANGED row
    BY <1>8 DEF RegisterFails, SweepDestroys, PodLost, FinishDestroys
  <2>2. UNCHANGED pod \/ pod' = [pod EXCEPT ![r] = IF @ = "up" THEN "gone" ELSE @]
    BY <1>8 DEF RegisterFails, SweepDestroys, PodLost, FinishDestroys, Destroy
  <2> QED BY <1>1, <1>4, <2>1, <2>2 DEF MachinesKept
<1>9. ASSUME NEW r \in Runs, NEW c \in Closers, FinishRecords(c, r)
      PROVE  [Machine!Next]_(Machine!rentalVars)
  <2>1. UNCHANGED pod
    BY <1>9, FinishWrites
  <2>2. PICK new \in Rows :
          /\ row' = [row EXCEPT ![r] = new]
          /\ \/ /\ new.meter = IF row[r].meter = "none" THEN "none" ELSE "closed"
                /\ ~row[r].iid \/ pod[r] # "up"
             \/ /\ new.meter = IF row[r].meter = "none" THEN "none" ELSE "open"
                /\ row[r].iid
    BY <1>9, FinishWrites
  <2>3. /\ row[r].meter \in {"none", "open", "closed"} /\ pod[r] \in {"none", "up", "gone"}
        /\ row[r].iid => pod[r] # "none"
        /\ ~row[r].iid => row[r].meter = "none"
    BY DEF MachineInv, Rows
  <2>4. \/ new.meter = row[r].meter
        \/ new.meter = "open" /\ pod[r] # "none"
        \/ new.meter = "closed" /\ row[r].meter = "open" /\ pod[r] = "gone"
    BY <2>2, <2>3
  <2> QED BY <1>5, <2>1, <2>2, <2>4
<1>10. ASSUME NEW r \in Runs, SweepRecords(r) \/ SweepUnlisted(r)
       PROVE  [Machine!Next]_(Machine!rentalVars)
  <2>1. UNCHANGED pod
    BY <1>10, SweepWrites
  <2>2. CASE UNCHANGED row
    BY <1>1, <2>1, <2>2 DEF MachinesKept
  <2>3. ASSUME NEW seen \in Views, seen.status = "terminating" => seen.target # "none",
               row' = [row EXCEPT ![r] = Settled(row[r], seen)],
               row[r] \in Rows, row[r].meter # "none", pod[r] = "gone"
        PROVE  [Machine!Next]_(Machine!rentalVars)
    <3> DEFINE new == Settled(row[r], seen)
    <3>1. new \in Rows /\ new.meter = "closed"
      BY <2>3, SettledFields
    <3>2. row[r].meter \in {"open", "closed"}
      BY <2>3 DEF Rows
    <3>3. row' = [row EXCEPT ![r] = new]
      BY <2>3
    <3> HIDE DEF new
    <3> QED BY <1>5, <2>1, <2>3, <3>1, <3>2, <3>3
  <2> QED BY <1>10, <2>2, <2>3, SweepWrites
<1> HIDE DEF CloudInv, CloudTypeOK
<1> QED BY <1>1, <1>6, <1>7, <1>8, <1>9, <1>10, OtherSteps DEF MachineSteps

(* A run rents one machine and no more, opens its meter only over a machine *)
(* and closes it only when the machine is gone: the safety of RentsOnce.    *)
THEOREM RentalIsKept == LaunchSpec => Machine!Init /\ [][Machine!Next]_(Machine!rentalVars)
<1>1. CloudInit => Machine!Init
  BY DEF CloudInit, Machine!Init
<1>2. CloudInv /\ [CloudNext]_cloudVars => [Machine!Next]_(Machine!rentalVars)
  BY RentalStep
<1> QED BY <1>1, <1>2, LaunchIsCloud, CloudIsSound, PTL DEF CloudSpec
=============================================================================
