--------------------------- MODULE TemplateFiles ---------------------------
(***************************************************************************)
(* One template: its directory on the backend's disk and its rows in       *)
(* templates and template_versions, which no transaction ties together.    *)
(* TemplatesService creates and synchronises it, FilesService and          *)
(* TemplateVersionsService change its files, keeping what was there        *)
(* before.                                                                 *)
(***************************************************************************)
EXTENDS Naturals, FiniteSets

CONSTANTS
  Creation,     (* calls of createTemplate with its slug                    *)
  Edit,         (* calls of writeFile and restore                           *)
  File,         (* file names in the directory                              *)
  Text,         (* what a file may contain                                  *)
  Scripts,      (* the text the files have when created                     *)
  Absent,       (* the file is not there; nothing to write                  *)
  TmplFaults    (* which faults are admitted                                *)

ASSUME ScriptsType    == Scripts \in Text
ASSUME AbsentFresh    == Absent \notin Text
ASSUME EditFinite     == IsFiniteSet(Edit)
ASSUME TmplFaultsType == TmplFaults \subseteq {"db", "disk", "crash"}

VARIABLES
  dir,      (* the directory: none, empty, with a manifest, full            *)
  files,    (* files[f]: the text of f                                      *)
  trow,     (* the templates row: there or not, its owner, its visibility   *)
  current,  (* current_version                                              *)
  kept,     (* kept[v]: the files of version v, if it has a row             *)
  make,     (* make[c]: where createTemplate is, and the visibility asked   *)
  sync,     (* where syncFromDisk is                                        *)
  up,       (* the backend takes requests                                   *)
  edit,     (* edit[e]: where the change is, what it has read and will do   *)
  alone,    (* the creation under way that nothing overlapped (history)     *)
  sworn,    (* what was last answered of the template's visibility (history) *)
  calm,     (* no edit overlapped anything, no row outlived its directory (history) *)
  torn,     (* versions whose copy of the directory misses a file (history) *)
  past      (* states of the directory that edits have overwritten (history) *)

diskVars == <<dir, files>>
tmplVars == <<diskVars, trow, current, kept, make, sync, up, edit, alone, sworn, calm, torn, past>>

Version == 1 .. Cardinality(Edit)
State   == [File -> Text \cup {Absent}]
Nothing == [f \in File |-> Absent]
NoEdit  == [at |-> "idle", cur |-> 1, snap |-> Nothing, todo |-> Nothing]

Creating == {c \in Creation : make[c].at \in {"checked", "dir", "manifest", "scripts", "failed"}}
Editing  == {e \in Edit : edit[e].at \in {"read", "copied", "kept", "bumped", "writing"}}

TmplTypeOK ==
  /\ dir     \in {"none", "empty", "manifest", "full"}
  /\ files   \in State
  /\ trow    \in [there : BOOLEAN, owned : BOOLEAN, public : BOOLEAN]
  /\ current \in 1 .. Cardinality(Edit) + 1
  /\ kept    \in [Version -> [row : BOOLEAN, files : State]]
  /\ make    \in [Creation -> [at : {"idle", "checked", "dir", "manifest", "scripts", "failed", "over"},
                               public : BOOLEAN]]
  /\ sync    \in {"idle", "listing", "listed", "read"}
  /\ up      \in BOOLEAN
  /\ edit    \in [Edit -> [at : {"idle", "read", "copied", "kept", "bumped", "writing", "over"},
                           cur : Version, snap : State, todo : State]]
  /\ alone   \subseteq Creation
  /\ sworn   \in {"nothing", "private", "public"}
  /\ calm    \in BOOLEAN
  /\ torn    \subseteq Version
  /\ past    \subseteq State

TmplInit ==
  /\ dir = "none" /\ files = Nothing
  /\ trow = [there |-> FALSE, owned |-> FALSE, public |-> FALSE]
  /\ current = 1 /\ kept = [v \in Version |-> [row |-> FALSE, files |-> Nothing]]
  /\ make = [c \in Creation |-> [at |-> "idle", public |-> FALSE]]
  /\ sync = "idle" /\ up = TRUE
  /\ edit = [e \in Edit |-> NoEdit]
  /\ alone = {} /\ sworn = "nothing" /\ calm = TRUE
  /\ torn = {} /\ past = {}

MayFail(fault) == fault \in TmplFaults
StaysCalm(still) ==
  /\ calm' = (calm /\ still)
  /\ IF calm' THEN UNCHANGED <<torn, past>> ELSE torn' = {} /\ past' = {}

-----------------------------------------------------------------------------
(* TemplatesService.createTemplate                                         *)

Made == [at |-> "over", public |-> FALSE]
Making(c, from, to) ==
  /\ make[c].at = from
  /\ make' = IF to = "over" THEN [make EXCEPT ![c] = Made] ELSE [make EXCEPT ![c].at = to]

(* An existing directory is cleaned up like one of a failed creation.      *)
StartOrCleanUp(c, public) ==
  /\ up /\ make[c].at = "idle"
  /\ make' = [make EXCEPT ![c] = [at |-> IF dir = "none" THEN "checked" ELSE "failed", public |-> public]]
  /\ alone' = IF Creating = {} /\ sync = "idle" THEN {c} ELSE {}
  /\ StaysCalm(~trow.there)
  /\ UNCHANGED <<diskVars, trow, current, kept, sync, up, edit, sworn>>

(* A directory that is there refuses the request, and is left alone; but one
   that fs.access cannot look at counts as not there.                      *)
StartCreation(c, public) ==
  \E there \in {dir # "none"} \cup {FALSE : f \in TmplFaults \cap {"disk"}} :
    /\ up /\ make[c].at = "idle"
    /\ make' = [make EXCEPT ![c] = IF there THEN Made ELSE [at |-> "checked", public |-> public]]
    /\ alone' = IF there THEN alone ELSE IF Creating = {} /\ sync = "idle" THEN {c} ELSE {}
    /\ sworn' = IF ~there /\ dir # "none" THEN "nothing" ELSE sworn
    /\ StaysCalm(there \/ ~trow.there)
    /\ UNCHANGED <<diskVars, trow, current, kept, sync, up, edit>>

(* mkdir, the manifest, the scripts: an error if the directory has been
   removed meanwhile.                                                      *)
FillDir(c) ==
  /\ \/ Making(c, "checked", "dir") /\ dir' = (IF dir = "none" THEN "empty" ELSE dir) /\ UNCHANGED files
     \/ /\ dir # "none" /\ Making(c, "dir", "manifest")
        /\ dir' = (IF dir = "full" THEN "full" ELSE "manifest") /\ UNCHANGED files
     \/ /\ dir # "none" /\ Making(c, "manifest", "scripts")
        /\ dir' = "full" /\ files' = [f \in File |-> Scripts]
     \/ /\ MayFail("disk") \/ (dir = "none" /\ make[c].at # "checked")
        /\ \E at \in {"checked", "dir", "manifest"} : Making(c, at, "failed")
        /\ UNCHANGED diskVars
  /\ UNCHANGED <<trow, current, kept, sync, up, edit, alone, sworn, calm, torn, past>>

(* TemplatesRepository.upsert: a row that is there keeps its owner and its
   visibility.                                                             *)
Upsert(owned, public) ==
  trow' = IF trow.there THEN trow ELSE [there |-> TRUE, owned |-> owned, public |-> public]

Says(public) == IF public THEN "public" ELSE "private"

(* The answer is the row as it is now.                                     *)
SaveTemplate(c) ==
  /\ \/ /\ Making(c, "scripts", "over") /\ Upsert(TRUE, make[c].public)
        /\ sworn' = IF c \in alone THEN Says(trow'.public) ELSE sworn
     \/ /\ MayFail("db") /\ Making(c, "scripts", "failed")
        /\ Upsert(TRUE, make[c].public) \/ UNCHANGED trow
        /\ UNCHANGED sworn
  /\ UNCHANGED <<diskVars, current, kept, sync, up, edit, alone, calm, torn, past>>

(* The catch removes the directory, whoever has filled it by now.          *)
CleanUp(c) ==
  /\ Making(c, "failed", "over")
  /\ \/ dir' = "none" /\ files' = Nothing
     \/ MayFail("disk") /\ UNCHANGED diskVars
  /\ UNCHANGED <<trow, current, kept, sync, up, edit, alone, sworn, calm, torn, past>>

(* A template's visibility is changed by its owner, or by anybody who has not
   logged in.                                                              *)
SetVisibility(public) ==
  /\ up /\ trow.there
  /\ trow' = [trow EXCEPT !.public = public]
  /\ sworn' = IF sworn = "nothing" THEN sworn ELSE Says(public)
  /\ UNCHANGED <<diskVars, current, kept, make, sync, up, edit, alone, calm, torn, past>>

-----------------------------------------------------------------------------
(* TemplatesService.syncFromDisk: on POST /templates/sync, and when the    *)
(* backend starts, before it takes requests.                               *)

SyncGoes(to) == sync' = to /\ up' = (up \/ to = "idle")

StartSync ==
  /\ sync = "idle" \/ sync = "listing"
  /\ SyncGoes(IF dir = "none" THEN "idle" ELSE "listed")
  /\ alone' = {}
  /\ UNCHANGED <<diskVars, trow, current, kept, make, edit, sworn, calm, torn, past>>

(* A directory without a readable manifest is skipped.                     *)
ReadManifest ==
  /\ sync = "listed"
  /\ \/ dir \in {"manifest", "full"} /\ SyncGoes("read")
     \/ (dir \in {"none", "empty"} \/ MayFail("disk")) /\ SyncGoes("idle")
  /\ UNCHANGED <<diskVars, trow, current, kept, make, edit, alone, sworn, calm, torn, past>>

(* What is on disk is everybody's.                                         *)
SyncTemplate ==
  /\ sync = "read"
  /\ SyncGoes("idle")
  /\ Upsert(FALSE, TRUE) \/ (MayFail("db") /\ UNCHANGED trow)
  /\ UNCHANGED <<diskVars, current, kept, make, edit, alone, sworn, calm, torn, past>>

-----------------------------------------------------------------------------
(* FilesService.writeFile and TemplateVersionsService.restore: both take a *)
(* snapshot of what they are about to overwrite.                           *)

EditGoes(e, to) == edit' = [edit EXCEPT ![e].at = to]
EditOver(e)         == edit' = [edit EXCEPT ![e] = [NoEdit EXCEPT !.at = "over"]]
EditFails(e)    == MayFail("db") /\ EditOver(e)

(* One file, or all files of a kept version: those added since stay.       *)
Intents == {[Nothing EXCEPT ![f] = t] : f \in File, t \in Text}
           \cup {kept[v].files : v \in {v \in Version : kept[v].row}}

(* snapshotBeforeChange reads current_version,                             *)
BeginEdit(e, todo) ==
  /\ up /\ trow.there /\ edit[e].at = "idle" /\ todo \in Intents
  /\ edit' = [edit EXCEPT ![e] = [at |-> "read", cur |-> current, snap |-> Nothing, todo |-> todo]]
  /\ StaysCalm(Editing = {} /\ Creating = {})
  /\ UNCHANGED <<diskVars, trow, current, kept, make, sync, up, alone, sworn>>

(* then the directory - one file after the other, here at once.  An error is
   swallowed, and leaves out the files that were not read.                 *)
CopyFiles(e) ==
  /\ edit[e].at = "read"
  /\ \E got \in IF MayFail("disk") THEN SUBSET File ELSE {File} :
       LET snap == [f \in File |-> IF f \in got THEN files[f] ELSE Absent]
           v    == edit[e].cur
       IN /\ edit' = [edit EXCEPT ![e].at = "copied", ![e].snap = snap]
          /\ torn' = IF kept[v].row \/ ~calm THEN torn
                     ELSE IF snap = files THEN torn \ {v} ELSE torn \cup {v}
  /\ UNCHANGED <<diskVars, trow, current, kept, make, sync, up, alone, sworn, calm, past>>

(* inserts it ON CONFLICT DO NOTHING,                                      *)
KeepVersion(e) ==
  LET v == edit[e].cur
      Kept == kept' = IF kept[v].row THEN kept
                      ELSE [kept EXCEPT ![v] = [row |-> TRUE, files |-> edit[e].snap]]
  IN /\ edit[e].at = "copied"
     /\ \/ Kept /\ EditGoes(e, "kept")
        \/ (Kept \/ UNCHANGED kept) /\ EditFails(e)
     /\ UNCHANGED <<diskVars, trow, current, make, sync, up, alone, sworn, calm, torn, past>>

(* The number of versions is left to the INSERT.                           *)
NoBump(e) ==
  /\ edit[e].at = "kept"
  /\ EditGoes(e, "bumped")
  /\ UNCHANGED <<diskVars, trow, current, kept, make, sync, up, alone, sworn, calm, torn, past>>

(* and sets current_version to what it read plus one, even if it is more by
   now.                                                                    *)
Bump(e) ==
  /\ edit[e].at = "kept"
  /\ \/ current' = edit[e].cur + 1 /\ EditGoes(e, "bumped")
     \/ current' \in {current, edit[e].cur + 1} /\ EditFails(e)
  /\ UNCHANGED <<diskVars, trow, kept, make, sync, up, alone, sworn, calm, torn, past>>

(* What an edit overwrites when it begins to write.                        *)
Overwrites(e) ==
  past' = IF edit[e].at = "bumped" /\ calm /\ edit[e].cur \notin torn THEN past \cup {files} ELSE past

(* Then the files are written, one after the other, and none at once: there
   may be something else in a file until it is done.                       *)
WriteFile(e, f) ==
  /\ edit[e].at \in {"bumped", "writing"} /\ edit[e].todo[f] # Absent
  /\ \/ /\ dir # "none"
        /\ \E t \in Text :
             /\ files' = [files EXCEPT ![f] = t]
             /\ edit' = [edit EXCEPT ![e].at = "writing",
                                     ![e].todo[f] = IF t = @ THEN Absent ELSE @]
        /\ Overwrites(e)
     \/ (dir = "none" \/ MayFail("disk")) /\ EditOver(e) /\ UNCHANGED <<files, past>>
  /\ UNCHANGED <<dir, trow, current, kept, make, sync, up, alone, sworn, calm, torn>>

EndEdit(e) ==
  /\ edit[e].at \in {"bumped", "writing"} /\ edit[e].todo = Nothing
  /\ EditOver(e)
  /\ UNCHANGED <<diskVars, trow, current, kept, make, sync, up, alone, sworn, calm, torn, past>>

(* The backend dies, and synchronises when it comes back.                  *)
TmplCrash ==
  /\ MayFail("crash")
  /\ Creating # {} \/ Editing # {}
  /\ make' = [c \in Creation |-> IF c \in Creating THEN Made ELSE make[c]]
  /\ edit' = [e \in Edit |-> IF e \in Editing THEN [NoEdit EXCEPT !.at = "over"] ELSE edit[e]]
  /\ sync' = "listing" /\ up' = FALSE /\ alone' = {}
  /\ UNCHANGED <<diskVars, trow, current, kept, sworn, calm, torn, past>>

TmplNext ==
  \/ \E c \in Creation : \/ \E p \in BOOLEAN : StartCreation(c, p)
                         \/ FillDir(c) \/ SaveTemplate(c) \/ CleanUp(c)
  \/ \E p \in BOOLEAN : SetVisibility(p)
  \/ StartSync \/ ReadManifest \/ SyncTemplate \/ TmplCrash
  \/ \E e \in Edit : \/ \E todo \in State : BeginEdit(e, todo)
                     \/ CopyFiles(e) \/ KeepVersion(e) \/ Bump(e)
                     \/ \E f \in File : WriteFile(e, f)
                     \/ EndEdit(e)

TmplSpec == TmplInit /\ [][TmplNext]_tmplVars

-----------------------------------------------------------------------------
(* Safety.                                                                 *)

(* A creation that was answered, and that nothing overlapped, is not undone:
   not by a second one of the same name, nor by a synchronisation, nor when
   the backend dies.  The directory stays, and only its owner's wish makes
   the template public or private.  (Unless fs.access could not look at the
   directory: then a second creation writes into it, and may remove it.)   *)
CreatedStays ==
  sworn # "nothing" => dir = "full" /\ trow.there /\ sworn = Says(trow.public)

(* Every state of the directory that an edit has overwritten can be restored
   ever after, wherever edits failed or died, if until then no two changes
   overlapped, no directory was created anew for a row that was left over, and
   no file was overlooked by the copy the version was kept from.  (An edit that
   failed between the INSERT and the UPDATE leaves its version taken: it is
   only right for the next edit if nothing but edits changes the files.)   *)
EditsAreUndoable ==
  \A s \in past : \E v \in Version : kept[v].row /\ kept[v].files = s

-----------------------------------------------------------------------------
(* The inductive invariant: why creations stay and edits are undoable.     *)

(* current_version has gone up at most once for each edit that got past its
   UPDATE or is over, however late what they read was.                     *)
Counted == {e \in Edit : edit[e].at \in {"bumped", "writing", "over"}}
VersionsSuffice ==
  /\ current <= Cardinality(Counted) + 1
  /\ \A e \in Edit \ Counted : edit[e].cur <= Cardinality(Counted) + 1

(* A creation that nothing has overlapped yet is the only one and fills the
   directory itself; once it was answered there will be no other.          *)
AloneIsAlone ==
  /\ sworn # "nothing" => Creating = {}
  /\ \A c \in alone \cap Creating :
       /\ Creating = {c}
       /\ make[c].at = "scripts" => dir = "full"

(* While it is calm there is one edit at a time and no creation beside it or
   after it: files are changed by edits alone.                             *)
CalmIsOneByOne ==
  calm =>
    /\ \A d, e \in Editing : d = e
    /\ Editing # {} \/ (\E v \in Version : kept[v].row) => Creating = {} /\ trow.there

(* No version is kept ahead of its number, and the one of the current number,
   if an edit that failed has left it, is what is in the directory now, or its
   copy had overlooked a file.                                             *)
KeptIsInOrder ==
  calm => \A v \in Version : kept[v].row =>
            /\ v <= current
            /\ v = current /\ v \notin torn => kept[v].files = files

(* So what an edit has read, copied and kept is still so until it writes.  *)
UpToDate(e) ==
  /\ edit[e].at \in {"read", "copied", "kept"} => edit[e].cur = current
  /\ edit[e].at = "copied" /\ ~kept[current].row /\ current \notin torn => edit[e].snap = files
  /\ edit[e].at = "kept" => kept[current].row
  /\ edit[e].at \in {"bumped", "writing"} => \A v \in Version : kept[v].row => v < current
  /\ edit[e].at = "bumped" /\ edit[e].cur \notin torn =>
       \E v \in Version : kept[v].row /\ kept[v].files = files
EditIsUpToDate == calm => \A e \in Editing : UpToDate(e)

TmplInv ==
  /\ TmplTypeOK
  /\ VersionsSuffice
  /\ AloneIsAlone
  /\ CreatedStays
  /\ CalmIsOneByOne
  /\ KeptIsInOrder
  /\ EditIsUpToDate
  /\ EditsAreUndoable
=============================================================================
