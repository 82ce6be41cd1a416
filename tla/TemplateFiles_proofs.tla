------------------------ MODULE TemplateFiles_proofs ------------------------
(***************************************************************************)
(* Proofs about TemplateFiles, for any creations, edits, files, texts and  *)
(* faults: TmplInv is inductive, so that a creation stays, and what edits  *)
(* overwrite can be restored.                                              *)
(***************************************************************************)
EXTENDS TemplateFiles, FiniteSetTheorems, TLAPS

LEMMA TmplStarts == TmplInit => TmplInv
<1> SUFFICES ASSUME TmplInit PROVE TmplInv
  OBVIOUS
<1>1. Cardinality(Edit) \in Nat /\ Cardinality({}) = 0
  BY EditFinite, FS_CardinalityType, FS_EmptySet
<1>2. Editing = {} /\ Creating = {} /\ Counted = {}
  BY DEF TmplInit, NoEdit, Editing, Creating, Counted
<1>3. Edit # {} => 1 \in Version
  BY <1>1, EditFinite, FS_EmptySet DEF Version
<1>4. TmplTypeOK
  <2>1. Nothing \in State
    BY DEF Nothing, State
  <2>2. edit \in [Edit -> [at : {"idle", "read", "copied", "kept", "bumped", "writing", "over"},
                           cur : Version, snap : State, todo : State]]
    BY <1>3, <2>1 DEF TmplInit, NoEdit
  <2>. QED
    BY <1>1, <2>1, <2>2 DEF TmplInit, TmplTypeOK, State, Nothing
<1>5. VersionsSuffice
  BY <1>1, <1>2 DEF TmplInit, VersionsSuffice, NoEdit
<1>. QED
  BY <1>2, <1>4, <1>5 DEF TmplInit, TmplInv, AloneIsAlone, CreatedStays, CalmIsOneByOne, KeptIsInOrder,
     EditIsUpToDate, EditsAreUndoable

-----------------------------------------------------------------------------
(* Creations and synchronisations.                                         *)

(* A step that is none of an edit's: as long as it is calm, only a creation
   that came before all edits changes the files.                           *)
LEMMA NoEditKeeps ==
  ASSUME TmplInv, UNCHANGED <<current, kept, edit>>, TmplTypeOK', AloneIsAlone', CreatedStays',
         calm' => calm /\ UNCHANGED torn,
         past' \subseteq past,
         trow.there => trow'.there,
         calm' /\ trow.there /\ Creating = {} => Creating' = {} /\ files' = files
  PROVE  TmplInv'
<1> USE DEF TmplInv
<1>1. Editing' = Editing /\ Counted' = Counted
  BY DEF Editing, Counted
<1>2. VersionsSuffice'
  BY <1>1 DEF VersionsSuffice
<1>a. EditsAreUndoable'
  BY DEF EditsAreUndoable
<1>3. CASE calm' /\ (Editing # {} \/ \E v \in Version : kept[v].row)
  <2>1. Creating' = {} /\ files' = files /\ trow'.there
    BY <1>3 DEF CalmIsOneByOne
  <2>2. CalmIsOneByOne' /\ KeptIsInOrder'
    BY <1>1, <1>3, <2>1 DEF CalmIsOneByOne, KeptIsInOrder
  <2>3. EditIsUpToDate'
    BY <1>1, <1>3, <2>1 DEF EditIsUpToDate, UpToDate
  <2>. QED
    BY <1>2, <1>a, <2>2, <2>3
<1>4. CASE calm' /\ Editing = {} /\ \A v \in Version : ~kept[v].row
  BY <1>1, <1>2, <1>a, <1>4 DEF CalmIsOneByOne, KeptIsInOrder, EditIsUpToDate
<1>5. CASE ~calm'
  BY <1>2, <1>a, <1>5 DEF CalmIsOneByOne, KeptIsInOrder, EditIsUpToDate
<1>. QED
  BY <1>3, <1>4, <1>5

MakeType == [at : {"idle", "checked", "dir", "manifest", "scripts", "failed", "over"}, public : BOOLEAN]
RowType  == [there : BOOLEAN, owned : BOOLEAN, public : BOOLEAN]

(* What createTemplate's steps do to its own state.                        *)
LEMMA MakingMoves ==
  ASSUME make \in [Creation -> MakeType], NEW c \in Creation,
         NEW from, NEW to \in {"dir", "manifest", "scripts", "failed", "over"}, Making(c, from, to)
  PROVE  /\ make' \in [Creation -> MakeType] /\ make[c].at = from /\ make'[c].at = to
         /\ \A d \in Creation \ {c} : make'[d] = make[d]
<1>1. CASE to = "over"
  BY <1>1 DEF Making, Made, MakeType
<1>2. CASE to # "over"
  BY <1>2 DEF Making, MakeType
<1>. QED
  BY <1>1, <1>2

(* Whose step it was that changed who is creating.                         *)
LEMMA CreatingMoves ==
  ASSUME NEW c \in Creation, \A d \in Creation \ {c} : make'[d] = make[d]
  PROVE  /\ Creating' \subseteq Creating \cup {c} /\ Creating \subseteq Creating' \cup {c}
         /\ make'[c].at \in {"checked", "dir", "manifest", "scripts", "failed"} <=> c \in Creating'
         /\ make[c].at \in {"checked", "dir", "manifest", "scripts", "failed"} <=> c \in Creating
BY DEF Creating

(* What is remembered of versions and copies is kept as long as it is calm.  *)
LEMMA StaysCalmKeeps ==
  ASSUME TmplInv, NEW still \in BOOLEAN, StaysCalm(still)
  PROVE  /\ calm' = (calm /\ still)
         /\ calm' => UNCHANGED <<torn, past>>
         /\ torn' \subseteq torn /\ past' \subseteq past
BY DEF StaysCalm

LEMMA StartKeeps ==
  ASSUME TmplInv, NEW c \in Creation, NEW public \in BOOLEAN, StartCreation(c, public)
  PROVE  TmplInv'
<1> USE DEF TmplInv
<1>1. PICK there \in BOOLEAN :
        /\ dir = "none" => ~there
        /\ make[c].at = "idle" /\ UNCHANGED <<dir, files, trow, current, kept, sync, up, edit>>
        /\ make' = [make EXCEPT ![c] = IF there THEN Made ELSE [at |-> "checked", public |-> public]]
        /\ alone' = IF there THEN alone ELSE IF Creating = {} /\ sync = "idle" THEN {c} ELSE {}
        /\ sworn' = IF ~there /\ dir # "none" THEN "nothing" ELSE sworn
        /\ StaysCalm(there \/ ~trow.there)
  BY DEF StartCreation, diskVars
<1>2. /\ make \in [Creation -> MakeType] /\ calm \in BOOLEAN /\ alone \subseteq Creation
      /\ torn \subseteq Version /\ past \subseteq State
      /\ trow.there \in BOOLEAN
  BY DEF TmplTypeOK, MakeType
<1>a. /\ calm' = (calm /\ (there \/ ~trow.there))
      /\ calm' => UNCHANGED <<torn, past>>
      /\ torn' \subseteq torn /\ past' \subseteq past
  BY <1>1, <1>2, StaysCalmKeeps
<1>3. /\ make' \in [Creation -> MakeType]
      /\ \A d \in Creation \ {c} : make'[d] = make[d]
      /\ make'[c].at = IF there THEN "over" ELSE "checked"
  BY <1>1, <1>2 DEF MakeType, Made
<1>4. /\ c \notin Creating
      /\ ~there => Creating' = Creating \cup {c}
      /\ there => Creating' = Creating
  <2>1. c \notin Creating /\ (c \in Creating' <=> ~there)
    BY <1>1, <1>3, CreatingMoves
  <2>2. Creating' \subseteq Creating \cup {c} /\ Creating \subseteq Creating' \cup {c}
    BY <1>3, CreatingMoves
  <2>. QED
    BY <2>1, <2>2
<1>5. TmplTypeOK'
  BY <1>1, <1>2, <1>3, <1>a DEF TmplTypeOK, MakeType
<1>6. AloneIsAlone'
  BY <1>1, <1>3, <1>4 DEF AloneIsAlone, CreatedStays
<1>7. CreatedStays'
  BY <1>1 DEF CreatedStays
<1>. QED
  BY <1>1, <1>4, <1>5, <1>6, <1>7, <1>a, NoEditKeeps

(* A step of a creation's that ends or goes on: it was not answered before,
   and if it is still alone it was alone before.                           *)
LEMMA GoingOn ==
  ASSUME TmplInv, NEW c \in Creation,
         NEW from \in {"checked", "dir", "manifest", "scripts", "failed"},
         NEW to \in {"dir", "manifest", "scripts", "failed", "over"}, Making(c, from, to),
         alone' = alone, to = "scripts" => dir' = "full"
  PROVE  /\ make' \in [Creation -> MakeType] /\ make[c].at = from /\ c \in Creating
         /\ sworn = "nothing"
         /\ AloneIsAlone' \/ sworn' # "nothing"
         /\ to = "over" => Creating' = Creating \ {c}
<1> USE DEF TmplInv
<1>1. make \in [Creation -> MakeType]
  BY DEF TmplTypeOK, MakeType
<1>2. /\ make' \in [Creation -> MakeType] /\ make[c].at = from /\ make'[c].at = to
      /\ \A d \in Creation \ {c} : make'[d] = make[d]
  BY <1>1, MakingMoves
<1>3. c \in Creating /\ Creating' \subseteq Creating /\ Creating \ {c} \subseteq Creating'
  BY <1>2, CreatingMoves
<1>4. to = "over" => c \notin Creating'
  BY <1>2, CreatingMoves
<1>5. \A d \in alone' \cap Creating' : Creating' = {d} /\ (make'[d].at = "scripts" => dir' = "full")
  <2> TAKE d \in alone' \cap Creating'
  <2>1. Creating = {d} /\ d = c
    BY <1>3 DEF AloneIsAlone
  <2>. QED
    BY <1>2, <1>3, <2>1
<1>. QED
  BY <1>2, <1>3, <1>4, <1>5 DEF AloneIsAlone

LEMMA FillKeeps ==
  ASSUME TmplInv, NEW c \in Creation, FillDir(c)
  PROVE  TmplInv'
<1> USE DEF TmplInv
<1>1. UNCHANGED <<trow, current, kept, sync, up, edit, alone, sworn, calm, torn, past>>
  BY DEF FillDir
<1>2. PICK from \in {"checked", "dir", "manifest"}, to \in {"dir", "manifest", "scripts", "failed"} :
        Making(c, from, to) /\ (to = "scripts" => dir' = "full")
  BY Zenon DEF FillDir
<1>3. /\ make' \in [Creation -> MakeType] /\ c \in Creating /\ sworn = "nothing"
      /\ AloneIsAlone' \/ sworn' # "nothing"
  BY <1>1, <1>2, GoingOn
<1>4. dir' \in {"none", "empty", "manifest", "full"} /\ files' \in State
  BY ScriptsType DEF FillDir, TmplTypeOK, State, diskVars
<1>5. TmplTypeOK'
  BY <1>1, <1>3, <1>4 DEF TmplTypeOK, MakeType
<1>. QED
  BY <1>1, <1>3, <1>5, NoEditKeeps DEF CreatedStays, TmplTypeOK

LEMMA UpsertKeeps ==
  ASSUME trow \in RowType, NEW owned \in BOOLEAN, NEW public \in BOOLEAN, Upsert(owned, public)
  PROVE  trow' \in RowType /\ trow'.there /\ (trow.there => trow' = trow)
<1>1. CASE trow.there
  BY <1>1 DEF Upsert
<1>2. CASE ~trow.there
  BY <1>2 DEF Upsert, RowType
<1>. QED
  BY <1>1, <1>2

LEMMA SaveKeeps ==
  ASSUME TmplInv, NEW c \in Creation, SaveTemplate(c)
  PROVE  TmplInv'
<1> USE DEF TmplInv
<1>1. UNCHANGED <<dir, files, current, kept, sync, up, edit, alone, calm, torn, past>>
  BY DEF SaveTemplate, diskVars
<1>2. make[c].public \in BOOLEAN /\ trow \in RowType
  BY DEF TmplTypeOK, RowType
<1>3. trow' \in RowType /\ (trow.there => trow' = trow)
  <2>1. Upsert(TRUE, make[c].public) \/ trow' = trow
    BY DEF SaveTemplate
  <2>. QED
    BY <1>2, <2>1, UpsertKeeps
<1>4. CASE Making(c, "scripts", "failed") /\ sworn' = sworn
  <2>1. /\ make' \in [Creation -> MakeType] /\ c \in Creating /\ sworn = "nothing"
        /\ AloneIsAlone' \/ sworn' # "nothing"
    BY <1>1, <1>4, GoingOn
  <2>2. TmplTypeOK'
    BY <1>1, <1>3, <1>4, <2>1 DEF TmplTypeOK, MakeType, RowType
  <2>. QED
    BY <1>1, <1>3, <1>4, <2>1, <2>2, NoEditKeeps DEF CreatedStays, TmplTypeOK
<1>5. CASE /\ Making(c, "scripts", "over") /\ Upsert(TRUE, make[c].public)
           /\ sworn' = IF c \in alone THEN Says(trow'.public) ELSE sworn
  <2>1. /\ make' \in [Creation -> MakeType] /\ make[c].at = "scripts" /\ c \in Creating
        /\ sworn = "nothing" /\ (AloneIsAlone' \/ sworn' # "nothing")
        /\ Creating' = Creating \ {c}
    BY <1>1, <1>5, GoingOn
  <2>2. trow'.there
    BY <1>5 DEF Upsert
  <2>3. c \in alone => Creating' = {} /\ dir = "full"
    BY <2>1 DEF AloneIsAlone
  <2>4. AloneIsAlone' /\ CreatedStays'
    BY <1>1, <1>5, <2>1, <2>2, <2>3 DEF AloneIsAlone, CreatedStays
  <2>5. TmplTypeOK'
    BY <1>1, <1>3, <1>5, <2>1 DEF TmplTypeOK, MakeType, RowType, Says
  <2>. QED
    BY <1>1, <1>3, <2>1, <2>4, <2>5, NoEditKeeps DEF TmplTypeOK
<1>. QED
  BY <1>4, <1>5 DEF SaveTemplate

LEMMA CleanUpKeeps ==
  ASSUME TmplInv, NEW c \in Creation, CleanUp(c)
  PROVE  TmplInv'
<1> USE DEF TmplInv
<1>1. /\ Making(c, "failed", "over")
      /\ UNCHANGED <<trow, current, kept, sync, up, edit, alone, sworn, calm, torn, past>>
  BY DEF CleanUp
<1>2. /\ make' \in [Creation -> MakeType] /\ c \in Creating /\ sworn = "nothing"
      /\ AloneIsAlone' \/ sworn' # "nothing"
  BY <1>1, GoingOn
<1>3. dir' \in {"none", "empty", "manifest", "full"} /\ files' \in State
  BY DEF CleanUp, TmplTypeOK, State, Nothing, diskVars
<1>4. TmplTypeOK'
  BY <1>1, <1>2, <1>3 DEF TmplTypeOK, MakeType
<1>. QED
  BY <1>1, <1>2, <1>4, NoEditKeeps DEF CreatedStays, TmplTypeOK

(* The owner's wish, and what a synchronisation does, take back nothing.   *)
LEMMA RowKeeps ==
  ASSUME TmplInv,
         (\E p \in BOOLEAN : SetVisibility(p)) \/ StartSync \/ ReadManifest \/ SyncTemplate
  PROVE  TmplInv'
<1> USE DEF TmplInv
<1>1. UNCHANGED <<dir, files, current, kept, make, edit, calm, torn, past>>
  BY DEF SetVisibility, StartSync, ReadManifest, SyncTemplate, diskVars
<1>2. Creating' = Creating
  BY <1>1 DEF Creating
<1>3. trow' \in RowType /\ (trow.there => trow'.there)
  <2>1. trow \in RowType
    BY DEF TmplTypeOK, RowType
  <2>2. Upsert(FALSE, TRUE) => trow' \in RowType /\ (trow.there => trow'.there)
    BY <2>1, UpsertKeeps
  <2>3. ASSUME NEW p \in BOOLEAN, SetVisibility(p)
        PROVE  trow' \in RowType /\ (trow.there => trow'.there)
    BY <2>1, <2>3 DEF SetVisibility, RowType
  <2>4. StartSync \/ ReadManifest \/ SyncTemplate => trow' = trow \/ Upsert(FALSE, TRUE)
    BY DEF StartSync, ReadManifest, SyncTemplate
  <2>. QED
    BY <2>1, <2>2, <2>3, <2>4
<1>4. alone' \subseteq alone /\ (sworn' = "nothing" <=> sworn = "nothing")
  BY DEF SetVisibility, StartSync, ReadManifest, SyncTemplate, Says
<1>5. CreatedStays'
  BY <1>1 DEF CreatedStays, SetVisibility, StartSync, ReadManifest, SyncTemplate, Upsert, TmplTypeOK
<1>6. AloneIsAlone'
  BY <1>1, <1>2, <1>4 DEF AloneIsAlone
<1>7. TmplTypeOK'
  <2>1. /\ sync' \in {"idle", "listing", "listed", "read"} /\ up' \in BOOLEAN
        /\ sworn' \in {"nothing", "private", "public"}
    BY DEF SetVisibility, StartSync, ReadManifest, SyncTemplate, SyncGoes, Says, TmplTypeOK
  <2>. QED
    BY <1>1, <1>3, <1>4, <2>1 DEF TmplTypeOK, RowType
<1>. QED
  BY <1>1, <1>2, <1>3, <1>5, <1>6, <1>7, NoEditKeeps DEF TmplTypeOK

-----------------------------------------------------------------------------
(* Edits.                                                                  *)

EditAt   == {"idle", "read", "copied", "kept", "bumped", "writing", "over"}
EditType == [at : EditAt, cur : Version, snap : State, todo : State]

(* The record of an edit that has gone on to at, perhaps with a copy.      *)
LEMMA FieldMoves ==
  ASSUME NEW x \in EditType, NEW at \in EditAt, NEW snap \in State
  PROVE  /\ [x EXCEPT !.at = at] \in EditType
         /\ [x EXCEPT !.at = at].at = at /\ [x EXCEPT !.at = at].cur = x.cur
         /\ [x EXCEPT !.at = at].snap = x.snap
         /\ [x EXCEPT !.at = at, !.snap = snap] \in EditType
         /\ [x EXCEPT !.at = at, !.snap = snap].at = at
         /\ [x EXCEPT !.at = at, !.snap = snap].cur = x.cur
         /\ [x EXCEPT !.at = at, !.snap = snap].snap = snap
BY DEF EditType

LEMMA EditMoves ==
  ASSUME edit \in [Edit -> EditType], NEW e \in Edit, NEW r \in EditType, edit' = [edit EXCEPT ![e] = r]
  PROVE  /\ edit' \in [Edit -> EditType] /\ edit'[e] = r
         /\ \A d \in Edit \ {e} : edit'[d] = edit[d]
OBVIOUS

(* Edits are counted once, and there are no more versions than edits.      *)
LEMMA CountedFits ==
  /\ Cardinality(Edit) \in Nat /\ Cardinality(Counted) \in Nat
  /\ Cardinality(Counted) <= Cardinality(Edit)
  /\ \A e \in Edit \ Counted :
       /\ Cardinality(Counted \cup {e}) = Cardinality(Counted) + 1
       /\ Cardinality(Counted) + 1 <= Cardinality(Edit)
<1>1. Counted \in SUBSET Edit
  BY DEF Counted
<1>2. IsFiniteSet(Counted) /\ Cardinality(Counted) <= Cardinality(Edit)
  BY <1>1, EditFinite, FS_Subset
<1>3. Cardinality(Edit) \in Nat /\ Cardinality(Counted) \in Nat
  BY <1>2, EditFinite, FS_CardinalityType
<1>4. ASSUME NEW e \in Edit \ Counted
      PROVE  /\ Cardinality(Counted \cup {e}) = Cardinality(Counted) + 1
             /\ Cardinality(Counted) + 1 <= Cardinality(Edit)
  <2>1. Cardinality(Counted \cup {e}) = Cardinality(Counted) + 1
    BY <1>2, <1>4, FS_AddElement
  <2>2. Counted \cup {e} \in SUBSET Edit
    BY <1>1
  <2>3. Cardinality(Counted \cup {e}) <= Cardinality(Edit)
    BY <2>2, EditFinite, FS_Subset
  <2>. QED
    BY <2>1, <2>3
<1>. QED
  BY <1>2, <1>3, <1>4

(* The number of versions grows by no more than one for an edit that gets
   past its UPDATE, and by none else.                                      *)
LEMMA VersionsStep ==
  ASSUME TmplInv, NEW e \in Edit, NEW r \in EditType, edit' = [edit EXCEPT ![e] = r],
         \/ /\ e \notin Counted /\ r.at \in {"read", "copied", "kept"}
            /\ r.cur \in {edit[e].cur, current} /\ current' = current
         \/ /\ e \notin Counted /\ r.at \in {"bumped", "writing", "over"}
            /\ current' \in {current, edit[e].cur + 1}
         \/ e \in Counted /\ r.at \in {"bumped", "writing", "over"} /\ current' = current
  PROVE  VersionsSuffice' /\ current' \in 1 .. Cardinality(Edit) + 1
<1> USE DEF TmplInv
<1>1. edit \in [Edit -> EditType] /\ current \in 1 .. Cardinality(Edit) + 1
  BY DEF TmplTypeOK, EditType, EditAt
<1>2. /\ edit' \in [Edit -> EditType] /\ edit'[e] = r
      /\ \A d \in Edit \ {e} : edit'[d] = edit[d]
  BY <1>1, EditMoves
<1>3. \A d \in Edit : edit[d].cur \in Nat /\ edit[d].cur >= 1 /\ r.cur \in Nat
  BY <1>1, CountedFits DEF EditType, Version
<1>4. CASE e \notin Counted /\ r.at \in {"bumped", "writing", "over"}
  <2>1. Counted' = Counted \cup {e}
    BY <1>2, <1>4 DEF Counted
  <2>2. /\ Cardinality(Counted') = Cardinality(Counted) + 1
        /\ Cardinality(Counted) + 1 <= Cardinality(Edit)
    BY <1>4, <2>1, CountedFits
  <2>3. current' \in {current, edit[e].cur + 1} /\ edit[e].cur <= Cardinality(Counted) + 1
    BY <1>4 DEF VersionsSuffice
  <2>4. current' <= Cardinality(Counted') + 1 /\ current' \in 1 .. Cardinality(Edit) + 1
    BY <1>1, <1>3, <2>2, <2>3, CountedFits DEF VersionsSuffice
  <2>5. \A d \in Edit \ Counted' : edit'[d].cur <= Cardinality(Counted') + 1
    <3> TAKE d \in Edit \ Counted'
    <3>1. edit'[d] = edit[d] /\ d \notin Counted
      BY <1>2, <2>1
    <3>. QED
      BY <1>3, <2>2, <3>1, CountedFits DEF VersionsSuffice
  <2>. QED
    BY <2>4, <2>5 DEF VersionsSuffice
<1>5. CASE ~(e \notin Counted /\ r.at \in {"bumped", "writing", "over"})
  <2>1. Counted' = Counted /\ current' = current
    BY <1>2, <1>5 DEF Counted
  <2>2. \A d \in Edit \ Counted : edit'[d].cur <= Cardinality(Counted) + 1
    BY <1>2, <1>5 DEF VersionsSuffice
  <2>. QED
    BY <1>1, <2>1, <2>2 DEF VersionsSuffice
<1>. QED
  BY <1>4, <1>5

(* What is left to show of a step of an edit that is under way.            *)
LEMMA EditKeeps ==
  ASSUME TmplInv, NEW e \in Editing, NEW r \in EditType, edit' = [edit EXCEPT ![e] = r],
         UNCHANGED <<dir, trow, make, sync, up, alone, sworn, calm>>,
         TmplTypeOK', VersionsSuffice', EditsAreUndoable',
         calm => KeptIsInOrder' /\ (e \in Editing' => UpToDate(e)')
  PROVE  TmplInv'
<1> USE DEF TmplInv
<1>1. e \in Edit /\ edit \in [Edit -> EditType]
  BY DEF Editing, TmplTypeOK, EditType, EditAt
<1>2. Editing' \subseteq Editing /\ Creating' = Creating
  BY <1>1, EditMoves DEF Editing, Creating
<1>3. AloneIsAlone' /\ CreatedStays'
  BY <1>2 DEF AloneIsAlone, CreatedStays
<1>4. CASE calm
  <2>1. Editing = {e} /\ Creating = {} /\ trow.there
    BY <1>4 DEF CalmIsOneByOne
  <2>. QED
    BY <1>2, <1>3, <1>4, <2>1 DEF CalmIsOneByOne, EditIsUpToDate
<1>5. CASE ~calm
  BY <1>3, <1>5 DEF CalmIsOneByOne, KeptIsInOrder, EditIsUpToDate
<1>. QED
  BY <1>4, <1>5

(* The record of an edit, field by field.                                  *)
LEMMA EditIs ==
  ASSUME TmplInv, NEW e \in Edit
  PROVE  /\ edit \in [Edit -> EditType] /\ edit[e] \in EditType /\ files \in State
         /\ kept \in [Version -> [row : BOOLEAN, files : State]]
         /\ e \in Editing <=> edit[e].at \in {"read", "copied", "kept", "bumped", "writing"}
         /\ e \in Counted <=> edit[e].at \in {"bumped", "writing", "over"}
         /\ \A at \in EditAt : [edit[e] EXCEPT !.at = at] \in EditType
         /\ [NoEdit EXCEPT !.at = "over"] \in EditType
<1>1. edit \in [Edit -> EditType] /\ files \in State
      /\ kept \in [Version -> [row : BOOLEAN, files : State]]
  BY DEF TmplInv, TmplTypeOK, EditType, EditAt
<1>2. 1 \in Version
  BY EditFinite, FS_CardinalityType, FS_EmptySet DEF Version
<1>3. e \in Editing <=> edit[e].at \in {"read", "copied", "kept", "bumped", "writing"}
  BY DEF Editing
<1>4. e \in Counted <=> edit[e].at \in {"bumped", "writing", "over"}
  BY DEF Counted
<1>5. edit[e] \in EditType
  BY <1>1
<1>6. \A at \in EditAt : [edit[e] EXCEPT !.at = at] \in EditType
  BY <1>5, <1>1, FieldMoves
<1>7. [NoEdit EXCEPT !.at = "over"] \in EditType
  BY <1>2 DEF EditType, EditAt, NoEdit, Nothing, State
<1>. QED
  BY <1>1, <1>3, <1>4, <1>5, <1>6, <1>7

LEMMA BeginKeeps ==
  ASSUME TmplInv, NEW e \in Edit, NEW todo \in State, BeginEdit(e, todo)
  PROVE  TmplInv'
<1> USE DEF TmplInv
<1> DEFINE r == [at |-> "read", cur |-> current, snap |-> Nothing, todo |-> todo]
<1>1. /\ trow.there /\ edit[e].at = "idle" /\ edit' = [edit EXCEPT ![e] = r]
      /\ UNCHANGED <<dir, files, trow, current, kept, make, sync, up, alone, sworn>>
      /\ StaysCalm(Editing = {} /\ Creating = {})
  BY DEF BeginEdit, diskVars
<1>a. /\ calm' = (calm /\ Editing = {} /\ Creating = {})
      /\ calm' => UNCHANGED <<torn, past>>
      /\ torn' \subseteq torn /\ past' \subseteq past
  BY <1>1, StaysCalmKeeps
<1>2. e \notin Counted /\ e \notin Editing
  BY <1>1, EditIs
<1>3. r \in EditType
  <2>1. current \in Version
    <3>1. Cardinality(Counted) + 1 <= Cardinality(Edit)
      BY <1>2, CountedFits
    <3>. QED
      BY <3>1, CountedFits DEF VersionsSuffice, TmplTypeOK, Version
  <2>. QED
    BY <2>1 DEF EditType, EditAt, Nothing, State
<1>4. /\ edit' \in [Edit -> EditType] /\ edit'[e] = r
      /\ \A d \in Edit \ {e} : edit'[d] = edit[d]
  BY <1>1, <1>3, EditIs, EditMoves
<1>5. VersionsSuffice'
  BY <1>1, <1>2, <1>3, VersionsStep
<1>6. TmplTypeOK' /\ EditsAreUndoable'
  BY <1>1, <1>4, <1>a DEF TmplTypeOK, EditType, EditAt, EditsAreUndoable
<1>7. Creating' = Creating
  BY <1>1 DEF Creating
<1>8. AloneIsAlone' /\ CreatedStays'
  BY <1>1, <1>7 DEF AloneIsAlone, CreatedStays
<1>9. CASE calm'
  <2>1. calm /\ Editing = {} /\ Creating = {} /\ UNCHANGED torn
    BY <1>a, <1>9
  <2>2. Editing' = {e}
    BY <1>4, <2>1 DEF Editing
  <2>3. UpToDate(e)'
    BY <1>1, <1>4 DEF UpToDate
  <2>. QED
    BY <1>1, <1>5, <1>6, <1>7, <1>8, <2>1, <2>2, <2>3
       DEF CalmIsOneByOne, KeptIsInOrder, EditIsUpToDate
<1>10. CASE ~calm'
  BY <1>5, <1>6, <1>8, <1>10 DEF CalmIsOneByOne, KeptIsInOrder, EditIsUpToDate
<1>. QED
  BY <1>9, <1>10

LEMMA CopyKeeps ==
  ASSUME TmplInv, NEW e \in Edit, CopyFiles(e)
  PROVE  TmplInv'
<1> USE DEF TmplInv
<1>1. /\ edit[e].at = "read"
      /\ UNCHANGED <<dir, files, trow, current, kept, make, sync, up, alone, sworn, calm, past>>
  BY DEF CopyFiles, diskVars
<1> DEFINE v == edit[e].cur
           Tears(snap) == torn' = IF kept[v].row \/ ~calm THEN torn
                                  ELSE IF snap = files THEN torn \ {v} ELSE torn \cup {v}
<1>a. PICK snap \in State :
        /\ edit' = [edit EXCEPT ![e].at = "copied", ![e].snap = snap]
        /\ Tears(snap)
  <2>1. files \in State
    BY EditIs
  <2>2. \A got : [f \in File |-> IF f \in got THEN files[f] ELSE Absent] \in State
    BY <2>1 DEF State
  <2>3. PICK got :
          LET snap == [f \in File |-> IF f \in got THEN files[f] ELSE Absent]
          IN /\ edit' = [edit EXCEPT ![e].at = "copied", ![e].snap = snap]
             /\ Tears(snap)
    BY Zenon DEF CopyFiles
  <2>. QED
    BY <2>2, <2>3
<1> DEFINE r == [edit[e] EXCEPT !.at = "copied", !.snap = snap]
<1>2. r \in EditType /\ r.at = "copied" /\ r.cur = edit[e].cur /\ r.snap = snap
  <2>1. edit[e] \in EditType /\ "copied" \in EditAt
    BY EditIs DEF EditAt
  <2>2. r \in EditType /\ r.at = "copied"
    BY <2>1 DEF EditType
  <2>3. r.cur = edit[e].cur /\ r.snap = snap
    BY <2>1 DEF EditType
  <2>. QED
    BY <2>2, <2>3
<1>3. edit' = [edit EXCEPT ![e] = r]
  BY <1>a, EditIs DEF EditType
<1>4. e \in Editing /\ e \notin Counted /\ v \in Version
  BY <1>1, EditIs DEF EditType
<1>5. edit' \in [Edit -> EditType] /\ edit'[e] = r
  BY <1>2, <1>3, EditIs, EditMoves
<1>b. /\ torn' \subseteq torn \cup {v}
      /\ \A w \in Version : kept[w].row => (w \in torn' <=> w \in torn)
      /\ calm /\ ~kept[v].row /\ v \notin torn' => snap = files
  BY <1>a, <1>4
<1>6. VersionsSuffice' /\ TmplTypeOK'
  <2>1. VersionsSuffice'
    BY <1>1, <1>2, <1>3, <1>4, VersionsStep
  <2>. QED
    BY <1>1, <1>4, <1>5, <1>b, <2>1 DEF TmplTypeOK, EditType, EditAt
<1>7. EditsAreUndoable' /\ (calm => KeptIsInOrder')
  BY <1>1, <1>b DEF KeptIsInOrder, EditsAreUndoable
<1>8. calm => UpToDate(e)'
  BY <1>1, <1>b, <1>2, <1>4, <1>5 DEF EditIsUpToDate, UpToDate
<1>. QED
  BY <1>1, <1>2, <1>3, <1>4, <1>6, <1>7, <1>8, EditKeeps

LEMMA KeepKeeps ==
  ASSUME TmplInv, NEW e \in Edit, KeepVersion(e)
  PROVE  TmplInv'
<1> USE DEF TmplInv
<1> DEFINE v == edit[e].cur
           K == IF kept[v].row THEN kept ELSE [kept EXCEPT ![v] = [row |-> TRUE, files |-> edit[e].snap]]
           Keeps == kept' = K
<1>1. /\ edit[e].at = "copied"
      /\ UNCHANGED <<dir, files, trow, current, make, sync, up, alone, sworn, calm, torn, past>>
  BY DEF KeepVersion, diskVars
<1>2. PICK r \in EditType :
        /\ edit' = [edit EXCEPT ![e] = r]
        /\ \/ Keeps /\ r = [edit[e] EXCEPT !.at = "kept"]
           \/ (Keeps \/ UNCHANGED kept) /\ r.at = "over"
  <2>1. CASE Keeps /\ EditGoes(e, "kept")
    <3>1. PICK r \in EditType : r = [edit[e] EXCEPT !.at = "kept"]
      BY EditIs DEF EditAt
    <3>2. edit' = [edit EXCEPT ![e] = r]
      BY <2>1, <3>1 DEF EditGoes
    <3>. QED
      BY <2>1, <3>1, <3>2
  <2>2. CASE (Keeps \/ UNCHANGED kept) /\ EditFails(e)
    <3>1. [NoEdit EXCEPT !.at = "over"] \in EditType /\ [NoEdit EXCEPT !.at = "over"].at = "over"
      BY EditIs DEF NoEdit
    <3>. QED
      BY <2>2, <3>1 DEF EditFails, EditOver
  <2>. QED
    BY <2>1, <2>2 DEF KeepVersion
<1>3. e \in Editing /\ e \notin Counted /\ v \in Version /\ edit[e].snap \in State
  BY <1>1, EditIs DEF EditType
<1>4. edit' \in [Edit -> EditType] /\ edit'[e] = r
  BY <1>2, EditIs, EditMoves
<1>5. /\ kept' \in [Version -> [row : BOOLEAN, files : State]]
      /\ \A w \in Version : kept[w].row => kept'[w] = kept[w]
      /\ \A w \in Version : w # v => kept'[w] = kept[w]
      /\ kept'[v].row /\ ~kept[v].row => kept'[v].files = edit[e].snap
      /\ Keeps => kept'[v].row
  <2>1. kept \in [Version -> [row : BOOLEAN, files : State]] /\ (Keeps \/ UNCHANGED kept)
    BY <1>2, EditIs
  <2>2. CASE UNCHANGED kept /\ ~Keeps
    BY <2>1, <2>2, <1>3
  <2>3. CASE Keeps /\ ~kept[v].row
    BY <2>1, <2>3, <1>3
  <2>4. CASE Keeps /\ kept[v].row
    BY <2>1, <2>4, <1>3
  <2>. QED
    BY <2>1, <2>2, <2>3, <2>4
<1>6. r.at \in {"kept", "over"} /\ (r.at = "kept" => r.cur = v /\ r.snap = edit[e].snap /\ kept'[v].row)
  BY <1>2, <1>5, EditIs DEF EditType
<1>7. VersionsSuffice' /\ TmplTypeOK'
  <2>1. (r.at \in {"read", "copied", "kept"} /\ r.cur = edit[e].cur) \/ r.at \in {"bumped", "writing", "over"}
    BY <1>6
  <2>2. VersionsSuffice'
    BY <1>1, <1>2, <1>3, <2>1, VersionsStep
  <2>. QED
    BY <1>1, <1>4, <1>5, <2>2 DEF TmplTypeOK, EditType, EditAt
<1>8. calm => v = current /\ (~kept[v].row /\ v \notin torn => edit[e].snap = files)
  BY <1>1, <1>3 DEF EditIsUpToDate, UpToDate
<1>9. calm => KeptIsInOrder'
  BY <1>1, <1>5, <1>8 DEF KeptIsInOrder, TmplTypeOK
<1>10. EditsAreUndoable'
  BY <1>1, <1>5 DEF EditsAreUndoable
<1>11. calm /\ e \in Editing' => UpToDate(e)'
  BY <1>1, <1>4, <1>6, <1>8 DEF UpToDate, Editing
<1>. QED
  BY <1>1, <1>2, <1>3, <1>7, <1>9, <1>10, <1>11, EditKeeps

LEMMA BumpKeeps ==
  ASSUME TmplInv, NEW e \in Edit, Bump(e)
  PROVE  TmplInv'
<1> USE DEF TmplInv
<1>1. /\ edit[e].at = "kept"
      /\ UNCHANGED <<dir, files, trow, kept, make, sync, up, alone, sworn, calm, torn, past>>
  BY DEF Bump, diskVars
<1>2. PICK r \in EditType :
        /\ edit' = [edit EXCEPT ![e] = r]
        /\ \/ current' = edit[e].cur + 1 /\ r.at = "bumped" /\ r.cur = edit[e].cur
           \/ current' \in {current, edit[e].cur + 1} /\ r.at = "over"
  <2>1. CASE current' = edit[e].cur + 1 /\ EditGoes(e, "bumped")
    <3>1. edit[e] \in EditType /\ "bumped" \in EditAt /\ files \in State
      BY EditIs DEF EditAt
    <3>2. /\ [edit[e] EXCEPT !.at = "bumped"] \in EditType
          /\ [edit[e] EXCEPT !.at = "bumped"].at = "bumped"
          /\ [edit[e] EXCEPT !.at = "bumped"].cur = edit[e].cur
      BY <3>1, FieldMoves
    <3>3. edit' = [edit EXCEPT ![e] = [edit[e] EXCEPT !.at = "bumped"]]
      BY <2>1 DEF EditGoes
    <3>. QED
      BY <2>1, <3>2, <3>3
  <2>2. CASE current' \in {current, edit[e].cur + 1} /\ EditFails(e)
    <3>1. [NoEdit EXCEPT !.at = "over"] \in EditType /\ [NoEdit EXCEPT !.at = "over"].at = "over"
      BY EditIs DEF NoEdit
    <3>. QED
      BY <2>2, <3>1 DEF EditFails, EditOver
  <2>. QED
    BY <2>1, <2>2 DEF Bump
<1>3. e \in Editing /\ e \notin Counted /\ edit[e].cur \in Version
  BY <1>1, EditIs DEF EditType
<1>4. edit' \in [Edit -> EditType] /\ edit'[e] = r
  BY <1>2, EditIs, EditMoves
<1>5. VersionsSuffice' /\ current' \in 1 .. Cardinality(Edit) + 1
  BY <1>2, <1>3, VersionsStep
<1>6. TmplTypeOK'
  BY <1>1, <1>4, <1>5 DEF TmplTypeOK, EditType, EditAt
<1>7. current \in Nat /\ (calm => edit[e].cur = current /\ kept[current].row)
  BY <1>1, <1>3, CountedFits DEF TmplTypeOK, EditIsUpToDate, UpToDate
<1>8. calm => KeptIsInOrder'
  <2>1. \A v \in Version : v \in Nat
    BY DEF Version
  <2>. QED
    BY <1>1, <1>2, <1>7, <2>1 DEF KeptIsInOrder
<1>9. EditsAreUndoable'
  BY <1>1 DEF EditsAreUndoable
<1>10. calm /\ e \in Editing' => UpToDate(e)'
  <2> SUFFICES ASSUME calm, r.at = "bumped", r.cur = current, current' = current + 1
               PROVE  UpToDate(e)'
    BY <1>2, <1>4, <1>7 DEF Editing
  <2>1. kept[current].row /\ (current \notin torn => kept[current].files = files) /\ current \in Version
    BY <1>3, <1>7 DEF KeptIsInOrder
  <2>2. \A v \in Version : kept[v].row => v < current'
    BY <1>7 DEF KeptIsInOrder, Version
  <2>. QED
    BY <1>1, <1>4, <2>1, <2>2 DEF UpToDate
<1>. QED
  BY <1>1, <1>2, <1>3, <1>5, <1>6, <1>8, <1>9, <1>10, EditKeeps

LEMMA WriteKeeps ==
  ASSUME TmplInv, NEW e \in Edit, NEW f \in File, WriteFile(e, f)
  PROVE  TmplInv'
<1> USE DEF TmplInv
<1>1. /\ edit[e].at \in {"bumped", "writing"}
      /\ UNCHANGED <<dir, trow, current, kept, make, sync, up, alone, sworn, calm, torn>>
  BY DEF WriteFile
<1> DEFINE Moved(r) ==
      /\ edit' = [edit EXCEPT ![e] = r] /\ files' \in State
      /\ \/ r.at = "writing" /\ Overwrites(e)
         \/ r.at = "over" /\ UNCHANGED <<files, past>>
<1>2. PICK r \in EditType : Moved(r)
  <2>1. ASSUME NEW t \in Text,
               files' = [files EXCEPT ![f] = t],
               edit' = [edit EXCEPT ![e].at = "writing", ![e].todo[f] = IF t = @ THEN Absent ELSE @],
               Overwrites(e)
        PROVE  \E r \in EditType : Moved(r)
    <3> DEFINE left == IF t = edit[e].todo[f] THEN Absent ELSE edit[e].todo[f]
               r == [edit[e] EXCEPT !.at = "writing", !.todo[f] = left]
    <3>1. r \in EditType /\ r.at = "writing"
      <4>1. edit[e] \in EditType /\ edit[e].todo \in State
        BY EditIs DEF EditType
      <4>2. [edit[e].todo EXCEPT ![f] = left] \in State
        BY <4>1 DEF State
      <4>. QED
        BY <4>1, <4>2 DEF EditType, EditAt
    <3>2. files' \in State
      BY <2>1, EditIs DEF EditType, State
    <3>3. edit' = [edit EXCEPT ![e] = r]
      BY <2>1, EditIs DEF EditType
    <3>. QED
      BY <2>1, <3>1, <3>2, <3>3
  <2>2. CASE EditOver(e) /\ UNCHANGED <<files, past>>
    <3>1. [NoEdit EXCEPT !.at = "over"] \in EditType /\ [NoEdit EXCEPT !.at = "over"].at = "over"
      BY EditIs DEF NoEdit
    <3>. QED
      BY <2>2, <3>1, EditIs DEF EditOver
  <2>. QED
    BY <2>1, <2>2 DEF WriteFile
<1>3. e \in Editing /\ e \in Counted
  BY <1>1, EditIs
<1>4. edit' \in [Edit -> EditType] /\ edit'[e] = r
  BY <1>2, EditIs, EditMoves
<1>5. VersionsSuffice' /\ TmplTypeOK'
  <2>1. VersionsSuffice'
    BY <1>1, <1>2, <1>3, VersionsStep
  <2>2. past' \subseteq State
    BY <1>2, EditIs DEF TmplTypeOK, Overwrites
  <2>. QED
    BY <1>1, <1>2, <1>4, <2>1, <2>2 DEF TmplTypeOK, EditType, EditAt
<1>6. calm => \A v \in Version : kept[v].row => v < current
  BY <1>1, <1>3 DEF EditIsUpToDate, UpToDate
<1>7. calm => KeptIsInOrder'
  BY <1>1, <1>6 DEF KeptIsInOrder, TmplTypeOK, Version
<1>8. EditsAreUndoable'
  BY <1>1, <1>2, <1>3 DEF EditsAreUndoable, EditIsUpToDate, UpToDate, Overwrites
<1>9. calm /\ e \in Editing' => UpToDate(e)'
  BY <1>1, <1>2, <1>4, <1>6 DEF UpToDate, Editing
<1>. QED
  BY <1>1, <1>2, <1>3, <1>5, <1>7, <1>8, <1>9, EditKeeps

LEMMA EditEndKeeps ==
  ASSUME TmplInv, NEW e \in Edit, EndEdit(e)
  PROVE  TmplInv'
<1> USE DEF TmplInv
<1> DEFINE r == [NoEdit EXCEPT !.at = "over"]
<1>1. /\ edit[e].at \in {"bumped", "writing"} /\ edit' = [edit EXCEPT ![e] = r]
      /\ UNCHANGED <<dir, files, trow, current, kept, make, sync, up, alone, sworn, calm, torn, past>>
  BY DEF EndEdit, EditOver, diskVars
<1>2. r \in EditType /\ r.at = "over"
  BY EditIs DEF NoEdit
<1>3. e \in Editing /\ e \in Counted
  BY <1>1, EditIs
<1>4. edit' \in [Edit -> EditType] /\ edit'[e] = r
  BY <1>1, <1>2, EditIs, EditMoves
<1>5. VersionsSuffice' /\ TmplTypeOK'
  <2>1. VersionsSuffice'
    BY <1>1, <1>2, <1>3, VersionsStep
  <2>. QED
    BY <1>1, <1>4, <2>1 DEF TmplTypeOK, EditType, EditAt
<1>6. EditsAreUndoable' /\ (calm => KeptIsInOrder')
  BY <1>1 DEF KeptIsInOrder, EditsAreUndoable
<1>7. e \notin Editing'
  BY <1>2, <1>4 DEF Editing
<1>. QED
  BY <1>1, <1>2, <1>3, <1>5, <1>6, <1>7, EditKeeps

(* When the backend dies every creation and every edit under way is over.  *)
LEMMA CrashKeeps ==
  ASSUME TmplInv, TmplCrash
  PROVE  TmplInv'
<1> USE DEF TmplInv
<1> DEFINE r == [NoEdit EXCEPT !.at = "over"]
<1>1. /\ make' = [c \in Creation |-> IF c \in Creating THEN Made ELSE make[c]]
      /\ edit' = [e \in Edit |-> IF e \in Editing THEN r ELSE edit[e]]
      /\ sync' = "listing" /\ up' = FALSE /\ alone' = {}
      /\ UNCHANGED <<dir, files, trow, current, kept, sworn, calm, torn, past>>
  BY DEF TmplCrash, diskVars
<1>2. Creating' = {}
  BY <1>1 DEF Creating, Made
<1>3. Editing' = {} /\ Counted \subseteq Counted' /\ Counted' \in SUBSET Edit
  BY <1>1 DEF Editing, Counted, NoEdit
<1>4. \A e \in Edit \ Counted' : edit'[e] = edit[e] /\ e \notin Counted
  BY <1>1, <1>3 DEF Counted, Editing, NoEdit
<1>5. TmplTypeOK'
  <2>1. make' \in [Creation -> MakeType]
    BY <1>1 DEF TmplTypeOK, MakeType, Made
  <2>2. edit' \in [Edit -> EditType]
    BY <1>1, EditIs DEF Editing
  <2>. QED
    BY <1>1, <2>1, <2>2 DEF TmplTypeOK, MakeType, EditType, EditAt
<1>6. VersionsSuffice'
  <2>1. /\ Cardinality(Counted) \in Nat /\ Cardinality(Counted') \in Nat
        /\ Cardinality(Counted) <= Cardinality(Counted')
    BY <1>3, EditFinite, FS_Subset, FS_CardinalityType, CountedFits
  <2>2. current \in Nat /\ \A e \in Edit : edit[e].cur \in Nat
    BY EditIs, CountedFits DEF EditType, Version, TmplTypeOK
  <2>3. current' <= Cardinality(Counted') + 1
    BY <1>1, <2>1, <2>2 DEF VersionsSuffice
  <2>4. ASSUME NEW e \in Edit \ Counted'
        PROVE  edit'[e].cur <= Cardinality(Counted') + 1
    <3>1. edit'[e] = edit[e] /\ edit[e].cur <= Cardinality(Counted) + 1
      BY <1>4 DEF VersionsSuffice
    <3>. QED
      BY <2>1, <2>2, <3>1
  <2>. QED
    BY <2>3, <2>4 DEF VersionsSuffice
<1>7. AloneIsAlone' /\ CreatedStays'
  BY <1>1, <1>2 DEF AloneIsAlone, CreatedStays
<1>8. CalmIsOneByOne' /\ KeptIsInOrder' /\ EditIsUpToDate' /\ EditsAreUndoable'
  BY <1>1, <1>2, <1>3 DEF CalmIsOneByOne, KeptIsInOrder, EditIsUpToDate, EditsAreUndoable
<1>. QED
  BY <1>5, <1>6, <1>7, <1>8

LEMMA TmplSteps == TmplInv /\ [TmplNext]_tmplVars => TmplInv'
<1> SUFFICES ASSUME TmplInv, [TmplNext]_tmplVars PROVE TmplInv'
  OBVIOUS
<1>1. CASE UNCHANGED tmplVars
  BY <1>1 DEF tmplVars, diskVars, TmplInv, TmplTypeOK, VersionsSuffice, Counted, AloneIsAlone, Creating,
     CreatedStays, CalmIsOneByOne, Editing, KeptIsInOrder, EditIsUpToDate, UpToDate, EditsAreUndoable
<1>. QED
  BY <1>1, StartKeeps, FillKeeps, SaveKeeps, CleanUpKeeps, RowKeeps, BeginKeeps, CopyKeeps, KeepKeeps,
     BumpKeeps, WriteKeeps, EditEndKeeps, CrashKeeps DEF TmplNext

(* The invariant of a template's directory, row and versions, for any number
   of creations, edits and synchronisations and deaths at any of their steps. *)
THEOREM TmplInvariant == TmplSpec => []TmplInv
BY TmplStarts, TmplSteps, PTL DEF TmplSpec

(* A creation nothing overlapped is not undone, by no second creation, no
   synchronisation, no failure and no death of the backend.                *)
THEOREM CreatedAlwaysStays == TmplSpec => []CreatedStays
<1>1. TmplInv => CreatedStays
  BY DEF TmplInv
<1>. QED
  BY <1>1, TmplInvariant, PTL

(* Whatever edits have overwritten while they overlapped neither each other nor
   a creation is kept in a version, wherever they failed or died - but where a
   read of the directory failed before, which is swallowed.                *)
THEOREM EditsAreAlwaysUndoable == TmplSpec => []EditsAreUndoable
<1>1. TmplInv => EditsAreUndoable
  BY DEF TmplInv
<1>. QED
  BY <1>1, TmplInvariant, PTL
=============================================================================
