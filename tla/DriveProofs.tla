---------------------------- MODULE DriveProofs -----------------------------
(***************************************************************************)
(* What a drive guarantees, for every set of handles, every geometry,      *)
(* every size and every bound: proofs about Drive.  In order: what the     *)
(* lock protects, that the lists of files agree, that a clean drive has the *)
(* layout that a recalculation would compute, that this layout fills the   *)
(* data area without gap or overlap, that both searches find a file in it, *)
(* and that every field keeps its type.                                    *)
(***************************************************************************)
EXTENDS Drive, ListLemmas, TLAPS

(* The inductive invariant.  LockedIsClean alone is not inductive: a lock  *)
(* of a clean drive does not recalculate, so a clean drive must have its   *)
(* ranges before it is locked.                                             *)
LockInv ==
    /\ dirty \in BOOLEAN
    /\ have_ranges \in BOOLEAN
    /\ ~dirty => have_ranges
    /\ LockedIsClean

(* Every call of file.c that changes the tree needs the drive unlocked and *)
(* leaves it dirty.                                                        *)
LEMMA FileNextChangesTree == FileNext => ChangesTree
  BY DEF FileNext, AddDir, AddFileReal, AddFileVirt, AddFails, DeleteFile, MoveFile,
         SetFileName, SetFileShortname, SetFileSize, SetFileMeta

(* vdf_drive_recalc() either leaves a clean drive alone, or publishes a    *)
(* layout on a dirty one, or fails and leaves it dirty.                    *)
LEMMA RecalcOutcome ==
    ASSUME vdf_drive_recalc, dirty \in BOOLEAN
    PROVE  \/ ~dirty /\ UNCHANGED <<treevars, layoutvars>>
           \/ dirty /\ dirty' = FALSE /\ have_ranges' = TRUE
           \/ dirty /\ dirty' = dirty /\ have_ranges' = have_ranges
  BY DEF vdf_drive_recalc

(* LockInv holds initially.                                                *)
LEMMA LockInvInit == Init => LockInv
  BY DEF Init, LockInv, LockedIsClean

(* LockInv is preserved by every step.                                     *)
LEMMA LockInvStep == LockInv /\ [Next]_vars => LockInv'
  <1> SUFFICES ASSUME LockInv, [Next]_vars PROVE LockInv'
    OBVIOUS
  <1> USE DEF LockInv, LockedIsClean
  <1>1. CASE FileNext
    <2>1. ChangesTree
      BY <1>1, FileNextChangesTree
    <2> QED
      BY <2>1 DEF ChangesTree, Unlocked, set_drive_dirty, setupvars
  <1>2. CASE Recalc
    BY <1>2, RecalcOutcome DEF Recalc, Unlocked, setupvars, layoutvars
  <1>3. CASE Lock
    <2>1. CASE lockcnt = 0
      <3>1. vdf_drive_recalc /\ lockcnt' = IF dirty' THEN 0 ELSE 1
        BY <1>3, <2>1 DEF Lock, vdf_drive_lock
      <3>2. ~dirty' => have_ranges'
        BY <3>1, <2>1, RecalcOutcome DEF layoutvars
      <3>3. dirty' \in BOOLEAN /\ have_ranges' \in BOOLEAN
        BY <3>1, RecalcOutcome DEF layoutvars
      <3>4. dirty' => lockcnt' = 0
        BY <3>1
      <3> QED
        BY <3>2, <3>3, <3>4
    <2>2. CASE lockcnt # 0
      <3>1. UNCHANGED layoutvars
        BY <1>3, <2>2 DEF Lock, vdf_drive_lock
      <3> QED
        BY <3>1, <2>2 DEF layoutvars
    <2> QED
      BY <2>1, <2>2
  <1>4. CASE Unlock
    BY <1>4 DEF Unlock, layoutvars
  <1>5. CASE DumpDrive
    <2>1. CASE lockcnt = 0
      BY <1>5, <2>1, RecalcOutcome DEF DumpDrive, layoutvars, setupvars
    <2>2. CASE lockcnt # 0
      BY <1>5, <2>2 DEF DumpDrive, layoutvars, setupvars
    <2> QED
      BY <2>1, <2>2
  <1>6. CASE DumpDriveFails
    BY <1>3, <1>6 DEF DumpDriveFails
  <1>7. CASE \E on \in Labels : SetLabel(on)
    BY <1>7 DEF SetLabel, Unlocked, set_drive_dirty
  <1>8. CASE SetLabelFails
    BY <1>8 DEF SetLabelFails, layoutvars
  <1>9. CASE \E s \in Serials : SetSerial(s)
    BY <1>9 DEF SetSerial, layoutvars
  <1>10. CASE \E g \in Geoms : Recreate(g)
    BY <1>10 DEF Recreate, Unlocked
  <1>11. CASE Free
    BY <1>11 DEF Free, layoutvars
  <1>12. CASE UNCHANGED vars
    BY <1>12 DEF vars, layoutvars, setupvars
  <1> QED
    BY <1>1, <1>2, <1>3, <1>4, <1>5, <1>6, <1>7, <1>8, <1>9, <1>10, <1>11, <1>12
       DEF Next, DriveNext

LEMMA LockInvariant == Spec => []LockInv
  BY LockInvInit, LockInvStep, PTL DEF Spec

(* Under the lock the drive is clean and has its ranges: no sequence of    *)
(* calls, failed recalculations and failed allocations included, reaches a *)
(* lock that is held on a dirty drive.                                     *)
THEOREM LockedDriveIsClean == Spec => []LockedIsClean
  <1>1. LockInv => LockedIsClean
    BY DEF LockInv
  <1> QED
    BY <1>1, LockInvariant, PTL

-----------------------------------------------------------------------------
(* A step from a locked state leaves everything the image is computed from *)
(* as it was: the calls that could change it are refused.                  *)
LEMMA LockedStep ==
    ASSUME [Next]_vars, lockcnt # 0
    PROVE  UNCHANGED <<treevars, layoutvars, geom, label>>
  <1>1. CASE FileNext
    BY <1>1, FileNextChangesTree DEF ChangesTree, Unlocked
  <1>2. CASE Recalc
    BY <1>2 DEF Recalc, Unlocked
  <1>3. CASE Lock
    BY <1>3 DEF Lock, vdf_drive_lock
  <1>4. CASE Unlock
    BY <1>4 DEF Unlock
  <1>5. CASE DumpDrive
    BY <1>5 DEF DumpDrive, setupvars
  <1>6. CASE DumpDriveFails
    BY <1>3, <1>6 DEF DumpDriveFails
  <1>7. CASE \E on \in Labels : SetLabel(on)
    BY <1>7 DEF SetLabel, Unlocked
  <1>8. CASE SetLabelFails
    BY <1>8 DEF SetLabelFails, Unlocked
  <1>9. CASE \E s \in Serials : SetSerial(s)
    BY <1>9 DEF SetSerial
  <1>10. CASE \E g \in Geoms : Recreate(g)
    BY <1>10 DEF Recreate, Unlocked
  <1>11. CASE Free
    BY <1>11 DEF Free
  <1>12. CASE UNCHANGED vars
    BY <1>12 DEF vars, setupvars
  <1> QED
    BY <1>1, <1>2, <1>3, <1>4, <1>5, <1>6, <1>7, <1>8, <1>9, <1>10, <1>11, <1>12
       DEF Next, DriveNext

(* While the drive is locked, no call changes its geometry, its label, its *)
(* files, their positions or its ranges.                                   *)
THEOREM LockedDriveIsFrozen == Spec => FrozenWhileLocked
  <1>1. [Next]_vars => [lockcnt # 0 => UNCHANGED <<treevars, layoutvars, geom, label>>]_vars
    BY LockedStep
  <1> QED
    BY <1>1, PTL DEF Spec, FrozenWhileLocked

-----------------------------------------------------------------------------
(* The layout of view does not change when its parts do not.               *)
LEMMA SameView ==
    ASSUME UNCHANGED <<treevars, layoutvars, geom>>
    PROVE  view' = view
  BY DEF view, treevars, layoutvars

(* view is empty exactly while the drive is dirty.                         *)
LEMMA ViewEmptyIffDirty ==
    /\ dirty => view = {}
    /\ ~dirty => view # {}
    /\ dirty' => view' = {}
    /\ ~dirty' => view' # {}
  BY DEF view

(* Outside the lock a recalculation is a step of DriveLock that keeps      *)
(* lockcnt: it publishes a layout or changes nothing.                      *)
LEMMA RecalcIsPublish ==
    ASSUME LockInv, vdf_drive_recalc, lockcnt = 0, lockcnt' = lockcnt, geom' = geom
    PROVE  DL!Publish \/ UNCHANGED DL!lockvars
  <1>1. CASE ~dirty /\ UNCHANGED <<treevars, layoutvars>>
    BY <1>1, SameView DEF DL!lockvars
  <1>2. CASE dirty /\ dirty' = FALSE
    BY <1>2, ViewEmptyIffDirty DEF DL!Publish
  <1>3. CASE dirty /\ dirty' = dirty
    BY <1>3, ViewEmptyIffDirty DEF DL!lockvars
  <1> QED
    BY <1>1, <1>2, <1>3, RecalcOutcome DEF LockInv

(* A call that needs the drive unlocked and leaves it dirty is a Change.   *)
LEMMA DirtyingIsChange ==
    ASSUME lockcnt = 0, lockcnt' = lockcnt, dirty' = TRUE
    PROVE  DL!Change
  BY ViewEmptyIffDirty DEF DL!Change

(* vdf_drive_lock() is a Lock, or it fails and is a recalculation that has *)
(* published nothing.                                                      *)
LEMMA LockIsLock ==
    ASSUME LockInv, Lock
    PROVE  DL!Lock \/ UNCHANGED DL!lockvars
  <1>1. CASE lockcnt = 0
    <2>1. vdf_drive_recalc /\ lockcnt' = (IF dirty' THEN 0 ELSE 1) /\ geom' = geom
      BY <1>1 DEF Lock, vdf_drive_lock
    <2>2. CASE ~dirty /\ UNCHANGED <<treevars, layoutvars>>
      <3>1. view' = view /\ view # {}
        BY <2>1, <2>2, SameView, ViewEmptyIffDirty
      <3>2. ~dirty'
        BY <2>2 DEF layoutvars
      <3>3. lockcnt' = 1
        BY <2>1, <3>2
      <3>4. lockcnt' = lockcnt + 1
        BY <3>3, <1>1
      <3> QED
        BY <3>1, <3>4 DEF DL!Lock
    <2>3. CASE dirty /\ dirty' = FALSE
      <3>1. lockcnt' = 1
        BY <2>1, <2>3
      <3>2. lockcnt' = lockcnt + 1
        BY <3>1, <1>1
      <3> QED
        BY <2>3, <3>2, ViewEmptyIffDirty DEF DL!Lock
    <2>4. CASE dirty /\ dirty' = dirty
      <3>1. lockcnt' = lockcnt
        BY <1>1, <2>1, <2>4
      <3> QED
        BY <3>1, <2>4, ViewEmptyIffDirty DEF DL!lockvars
    <2> QED
      BY <2>1, <2>2, <2>3, <2>4, RecalcOutcome DEF LockInv
  <1>2. CASE lockcnt # 0
    <2>1. lockcnt' = lockcnt + 1 /\ UNCHANGED <<treevars, layoutvars, geom>>
      BY <1>2 DEF Lock, vdf_drive_lock
    <2>2. view' = view /\ view # {}
      BY <2>1, <1>2, SameView, ViewEmptyIffDirty DEF LockInv, LockedIsClean
    <2> QED
      BY <2>1, <2>2 DEF DL!Lock
  <1> QED
    BY <1>1, <1>2

(* Every step of Drive is a step of DriveLock or changes nothing there.    *)
LEMMA StepImplements ==
    ASSUME LockInv, lockcnt \in Nat, [Next]_vars
    PROVE  [DL!LockNext]_(DL!lockvars)
  <1> USE DEF DL!LockNext
  <1>1. CASE FileNext
    <2>1. ChangesTree
      BY <1>1, FileNextChangesTree
    <2> QED
      BY <2>1, DirtyingIsChange DEF ChangesTree, Unlocked, set_drive_dirty, setupvars
  <1>2. CASE Recalc
    BY <1>2, RecalcIsPublish DEF Recalc, Unlocked, setupvars
  <1>3. CASE Lock
    BY <1>3, LockIsLock
  <1>4. CASE Unlock
    <2>1. lockcnt # 0 /\ lockcnt' = lockcnt - 1 /\ view' = view
      BY <1>4, SameView DEF Unlock
    <2>2. lockcnt > 0
      BY <2>1
    <2> QED
      BY <2>1, <2>2 DEF DL!Unlock
  <1>5. CASE DumpDrive
    <2>1. CASE lockcnt = 0
      BY <1>5, <2>1, RecalcIsPublish DEF DumpDrive, setupvars
    <2>2. CASE lockcnt # 0
      BY <1>5, <2>2, SameView DEF DumpDrive, setupvars, DL!lockvars
    <2> QED
      BY <2>1, <2>2
  <1>6. CASE DumpDriveFails
    BY <1>3, <1>6 DEF DumpDriveFails
  <1>7. CASE \E on \in Labels : SetLabel(on)
    BY <1>7, DirtyingIsChange DEF SetLabel, Unlocked, set_drive_dirty
  <1>8. CASE SetLabelFails
    BY <1>8, SameView DEF SetLabelFails, DL!lockvars
  <1>9. CASE \E s \in Serials : SetSerial(s)
    BY <1>9, SameView DEF SetSerial, DL!lockvars
  <1>10. CASE \E g \in Geoms : Recreate(g)
    BY <1>10, DirtyingIsChange DEF Recreate, Unlocked
  <1>11. CASE Free
    BY <1>11, SameView DEF Free, DL!lockvars
  <1>12. CASE UNCHANGED vars
    BY <1>12, SameView DEF vars, setupvars, DL!lockvars
  <1> QED
    BY <1>1, <1>2, <1>3, <1>4, <1>5, <1>6, <1>7, <1>8, <1>9, <1>10, <1>11, <1>12
       DEF Next, DriveNext

(* lockcnt never goes below zero.                                          *)
LEMMA LockCntNat == Spec => [](lockcnt \in Nat)
  <1>1. Init => lockcnt \in Nat
    BY DEF Init
  <1>2. lockcnt \in Nat /\ [Next]_vars => (lockcnt \in Nat)'
    <2> SUFFICES ASSUME lockcnt \in Nat, [Next]_vars PROVE lockcnt' \in Nat
      OBVIOUS
    <2>1. CASE FileNext
      BY <2>1, FileNextChangesTree DEF ChangesTree, setupvars
    <2>2. CASE Lock
      <3>1. lockcnt' \in {0, 1, lockcnt + 1}
        BY <2>2 DEF Lock, vdf_drive_lock
      <3> QED
        BY <3>1
    <2>3. CASE Unlock
      <3>1. lockcnt # 0 /\ lockcnt' = lockcnt - 1
        BY <2>3 DEF Unlock
      <3> QED
        BY <3>1
    <2>4. CASE DumpDriveFails
      BY <2>2, <2>4 DEF DumpDriveFails
    <2>5. CASE UNCHANGED lockcnt
      BY <2>5
    <2>6. UNCHANGED vars => UNCHANGED lockcnt
      BY DEF vars, setupvars
    <2> QED
      BY <2>1, <2>2, <2>3, <2>4, <2>5, <2>6
         DEF Next, DriveNext, Recalc, DumpDrive, SetLabel, SetLabelFails, SetSerial,
             Recreate, Free, setupvars
  <1> QED
    BY <1>1, <1>2, PTL DEF Spec

(* The drive keeps the promise of DriveLock: its initial states are        *)
(* initial states there, and every call is a step or a stutter there.      *)
THEOREM DriveImplementsDriveLock == Spec => ImplementsDriveLock
  <1>1. Init => DL!LockInit
    BY ViewEmptyIffDirty DEF Init, DL!LockInit
  <1>2. LockInv /\ lockcnt \in Nat /\ [Next]_vars => [DL!LockNext]_(DL!lockvars)
    BY StepImplements
  <1> QED
    BY <1>1, <1>2, LockInvariant, LockCntNat, PTL DEF Spec, ImplementsDriveLock, DL!LockSpec

-----------------------------------------------------------------------------
(* The three structures of file.c.  For the induction the lists have their *)
(* types, and a parent that is not NULL or FREED is allocated: malloc()    *)
(* may give the address of a deleted directory to a new one, which must    *)
(* not inherit the files of the old one.                                   *)
NodeType ==
    [parent : Handles \cup {NULL, FREED}, dir : BOOLEAN, virt : BOOLEAN,
     lfn : LfnExtras \cup {0}, entries : Seq(Handles), cnt : Int]

TreeTypes ==
    /\ Root \in DOMAIN file /\ DOMAIN file \subseteq Handles
    /\ file \in [DOMAIN file -> NodeType]
    /\ \A h \in DOMAIN file : file[h].parent \in DOMAIN file \cup {NULL, FREED}
    /\ all_files \in Seq(Handles)

Entries(d) == {h \in DOMAIN file : file[h].parent = d}

DirsMatch ==
    \A d \in DOMAIN file : Distinct(file[d].entries) /\ Range(file[d].entries) = Entries(d)

ListMatches(g) ==
    /\ Distinct(all_files)
    /\ Range(all_files) = IF RootListed(g) THEN DOMAIN file ELSE DOMAIN file \ {Root}

TreeInv == TreeTypes /\ DirsMatch /\ ListMatches(geom)

LEMMA TreeInvSuffices == TreeInv => TreeConsistent
  BY DEF TreeInv, DirsMatch, ListMatches, Entries, TreeConsistent, ListMatchesTree, Distinct,
         IsInjective

LEMMA TreeInvInit == Init => TreeInv
  <1> SUFFICES ASSUME Init PROVE TreeInv
    OBVIOUS
  <1>1. /\ file = [x \in {Root} |-> NewFile(NULL, TRUE, FALSE, 0)]
        /\ all_files = IF RootListed(geom) THEN <<Root>> ELSE <<>>
    BY DEF Init, TreeInit
  <1>2. NewFile(NULL, TRUE, FALSE, 0) \in NodeType
    BY DEF NewFile, NodeType
  <1>3. NewFile(NULL, TRUE, FALSE, 0).parent = NULL /\ NewFile(NULL, TRUE, FALSE, 0).entries = <<>>
    BY DEF NewFile
  <1>4. Root # NULL /\ Root \in Handles
    BY HandlesAssumption
  <1>5. DOMAIN file = {Root} /\ file[Root] = NewFile(NULL, TRUE, FALSE, 0)
    BY <1>1
  <1>6. TreeTypes
    <2>1. file \in [DOMAIN file -> NodeType]
      BY <1>1, <1>2
    <2>2. all_files \in Seq(Handles)
      BY <1>1, <1>4
    <2> QED
      BY <1>3, <1>4, <1>5, <2>1, <2>2 DEF TreeTypes
  <1>7. DirsMatch
    <2>1. Entries(Root) = {}
      BY <1>3, <1>4, <1>5 DEF Entries
    <2>2. Distinct(<<>>) /\ Range(<<>>) = {}
      BY DEF Distinct, Range
    <2> QED
      BY <1>3, <1>5, <2>1, <2>2 DEF DirsMatch
  <1>8. ListMatches(geom)
    <2>1. Distinct(<<Root>>) /\ Range(<<Root>>) = {Root} /\ Distinct(<<>>) /\ Range(<<>>) = {}
      BY DEF Distinct, Range
    <2> QED
      BY <1>1, <1>5, <2>1 DEF ListMatches
  <1> QED
    BY <1>6, <1>7, <1>8 DEF TreeInv

(* A step that leaves the lists and the parents alone.                     *)
LEMMA TreeFrame ==
    ASSUME TreeInv, geom' = geom, all_files' = all_files,
           file' \in [DOMAIN file -> NodeType],
           \A x \in DOMAIN file : file'[x].parent = file[x].parent /\ file'[x].entries = file[x].entries
    PROVE  TreeInv'
  <1>1. DOMAIN file' = DOMAIN file
    OBVIOUS
  <1>2. TreeTypes'
    BY <1>1 DEF TreeInv, TreeTypes
  <1>3. \A d : Entries(d)' = Entries(d)
    BY <1>1 DEF Entries
  <1>4. DirsMatch'
    BY <1>1, <1>3 DEF TreeInv, DirsMatch
  <1>5. ListMatches(geom)'
    BY <1>1 DEF TreeInv, ListMatches
  <1> QED
    BY <1>2, <1>4, <1>5 DEF TreeInv

LEMMA CreateKeepsTree ==
    ASSUME TreeInv, geom' = geom, NEW p, NEW h, NEW rec \in NodeType, NEW ext,
           create_file(geom, p, h, rec, ext), rec.parent = p, rec.entries = <<>>
    PROVE  TreeInv'
  <1>1. /\ h \in Handles /\ h \notin DOMAIN file /\ p \in DOMAIN file /\ p # h
        /\ all_files' = Append(all_files, h)
    BY DEF create_file, IsDir
  <1>2. p \in Handles /\ file[p] \in NodeType /\ h # Root /\ h # NULL /\ h # FREED
    BY <1>1, HandlesAssumption DEF TreeInv, TreeTypes
  <1>3. PICK r : r = [file[p] EXCEPT !.entries = Append(@, h), !.cnt = @ + 1]
    OBVIOUS
  <1>4. r \in NodeType /\ r.parent = file[p].parent /\ r.entries = Append(file[p].entries, h)
    <2>1. PICK es \in Seq(Handles), n \in Int : es = Append(file[p].entries, h) /\ n = file[p].cnt + 1
      <3>1. file[p].entries \in Seq(Handles) /\ file[p].cnt \in Int
        BY <1>2 DEF NodeType
      <3>2. Append(file[p].entries, h) \in Seq(Handles) /\ file[p].cnt + 1 \in Int
        BY <1>1, <3>1
      <3> QED
        BY <3>2
    <2>2. r = [file[p] EXCEPT !.entries = es, !.cnt = n]
      BY <1>3, <2>1
    <2> QED
      BY <1>2, <2>1, <2>2 DEF NodeType
  <1>5. file' = [x \in DOMAIN file \cup {h} |-> IF x = h THEN rec ELSE IF x = p THEN r ELSE file[x]]
    BY <1>3 DEF create_file
  <1>6. /\ DOMAIN file' = DOMAIN file \cup {h} /\ file'[h] = rec /\ file'[p] = r
        /\ \A x \in DOMAIN file : x # p => file'[x] = file[x]
    BY <1>1, <1>5
  <1>7. /\ file'[h].parent = p
        /\ \A x \in DOMAIN file : file'[x].parent = file[x].parent
    BY <1>1, <1>4, <1>6
  <1>8. TreeTypes'
    <2>1. file' \in [DOMAIN file' -> NodeType]
      BY <1>4, <1>5, <1>6 DEF TreeInv, TreeTypes
    <2>2. Append(all_files, h) \in Seq(Handles)
      BY <1>1 DEF TreeInv, TreeTypes
    <2> QED
      BY <1>1, <1>6, <1>7, <2>1, <2>2 DEF TreeInv, TreeTypes
  <1>9. DirsMatch'
    <2>1. SUFFICES ASSUME NEW d \in DOMAIN file'
                   PROVE  Distinct(file'[d].entries) /\ Range(file'[d].entries) = Entries(d)'
      BY DEF DirsMatch
    <2>2. CASE d = h
      <3>1. Entries(h)' = {}
        BY <1>1, <1>2, <1>6, <1>7 DEF Entries, TreeInv, TreeTypes
      <3>2. Distinct(<<>>) /\ Range(<<>>) = {}
        BY DEF Distinct, Range
      <3> QED
        BY <1>6, <2>2, <3>1, <3>2
    <2>3. CASE d = p
      <3>1. Entries(p)' = Entries(p) \cup {h}
        BY <1>1, <1>6, <1>7 DEF Entries
      <3>2. Distinct(file[p].entries) /\ Range(file[p].entries) = Entries(p) /\ h \notin Entries(p)
        BY <1>1 DEF TreeInv, DirsMatch, Entries
      <3>3. file[p].entries \in Seq(Handles)
        BY <1>2 DEF NodeType
      <3>4. /\ Distinct(Append(file[p].entries, h))
            /\ Range(Append(file[p].entries, h)) = Entries(p) \cup {h}
        BY <1>1, <3>2, <3>3, AppendDistinct
      <3> QED
        BY <1>4, <1>6, <2>3, <3>1, <3>4
    <2>4. CASE d # h /\ d # p
      <3>1. Entries(d)' = Entries(d)
        BY <1>1, <1>6, <1>7, <2>4 DEF Entries
      <3>2. d \in DOMAIN file /\ file'[d] = file[d]
        BY <1>6, <2>4
      <3> QED
        BY <3>1, <3>2 DEF TreeInv, DirsMatch
    <2> QED
      BY <2>2, <2>3, <2>4
  <1>10. ListMatches(geom)'
    <2>1. h \notin Range(all_files) /\ Distinct(all_files) /\ all_files \in Seq(Handles)
      BY <1>1 DEF TreeInv, ListMatches, TreeTypes
    <2>2. Distinct(all_files') /\ Range(all_files') = Range(all_files) \cup {h}
      BY <1>1, <2>1, AppendDistinct
    <2>3. Range(all_files') = IF RootListed(geom) THEN DOMAIN file' ELSE DOMAIN file' \ {Root}
      BY <1>2, <1>6, <2>2 DEF TreeInv, ListMatches
    <2> QED
      BY <2>2, <2>3 DEF ListMatches
  <1> QED
    BY <1>8, <1>9, <1>10 DEF TreeInv

LEMMA DeleteKeepsTree ==
    ASSUME TreeInv, geom' = geom, NEW h, delete_file(h)
    PROVE  TreeInv'
  <1> DEFINE p == file[h].parent
  <1>1. /\ h \in DOMAIN file /\ h # Root /\ p \in DOMAIN file
        /\ all_files' = RemoveFirst(all_files, h)
    BY DEF delete_file, HasParent
  <1>2. /\ h \in Handles /\ p \in Handles /\ file[p] \in NodeType
        /\ h # FREED /\ h # NULL /\ FREED \notin DOMAIN file
    BY <1>1, HandlesAssumption DEF TreeInv, TreeTypes
  <1>3. PICK r : r = [file[p] EXCEPT !.entries = RemoveFirst(@, h)]
    OBVIOUS
  <1>4. /\ h \in Range(file[p].entries) /\ file[p].entries \in Seq(Handles)
        /\ Distinct(file[p].entries) /\ Range(file[p].entries) = Entries(p)
    <2>1. Range(file[p].entries) = Entries(p) /\ Distinct(file[p].entries)
      BY <1>1 DEF TreeInv, DirsMatch
    <2>2. h \in Entries(p)
      BY <1>1 DEF Entries
    <2> QED
      BY <1>2, <2>1, <2>2 DEF NodeType
  <1>5. /\ RemoveFirst(file[p].entries, h) \in Seq(Handles)
        /\ Distinct(RemoveFirst(file[p].entries, h))
        /\ Range(RemoveFirst(file[p].entries, h)) = Entries(p) \ {h}
    BY <1>4, RemoveFirstDistinct
  <1>6. r \in NodeType /\ r.parent = file[p].parent /\ r.entries = RemoveFirst(file[p].entries, h)
    BY <1>2, <1>3, <1>5 DEF NodeType
  <1>7. PICK u : /\ u = [file EXCEPT ![p] = r] /\ u \in [DOMAIN file -> NodeType]
                 /\ u[p] = r /\ \A x \in DOMAIN file : x # p => u[x] = file[x]
    <2>1. PICK u : u = [file EXCEPT ![p] = r]
      OBVIOUS
    <2>2. file \in [DOMAIN file -> NodeType]
      BY DEF TreeInv, TreeTypes
    <2>3. u \in [DOMAIN file -> NodeType] /\ u[p] = r /\ \A x \in DOMAIN file : x # p => u[x] = file[x]
      BY <1>1, <1>6, <2>1, <2>2
    <2> QED
      BY <2>1, <2>3
  <1>8. file' = [x \in DOMAIN file \ {h} |-> [u[x] EXCEPT !.parent = IF @ = h THEN FREED ELSE @]]
    BY <1>3, <1>7 DEF delete_file
  <1> HIDE DEF p
  <1>9. DOMAIN file' = DOMAIN file \ {h}
    BY <1>8
  <1>10. ASSUME NEW x \in DOMAIN file'
         PROVE  /\ file'[x] \in NodeType
                /\ file'[x].parent = IF file[x].parent = h THEN FREED ELSE file[x].parent
                /\ file'[x].entries = IF x = p THEN RemoveFirst(file[p].entries, h) ELSE file[x].entries
    <2>1. x \in DOMAIN file /\ u[x] \in NodeType
      BY <1>7, <1>9
    <2>2. file'[x] = [u[x] EXCEPT !.parent = IF u[x].parent = h THEN FREED ELSE u[x].parent]
      BY <1>8, <1>9
    <2>3. /\ file'[x] \in NodeType /\ file'[x].entries = u[x].entries
          /\ file'[x].parent = IF u[x].parent = h THEN FREED ELSE u[x].parent
      BY <2>1, <2>2 DEF NodeType
    <2>4. u[x].parent = file[x].parent
      BY <1>6, <1>7, <2>1
    <2>5. u[x].entries = IF x = p THEN RemoveFirst(file[p].entries, h) ELSE file[x].entries
      BY <1>6, <1>7, <2>1
    <2> QED
      BY <2>3, <2>4, <2>5
  <1>11. TreeTypes' /\ Distinct(all_files') /\ Range(all_files') = Range(all_files) \ {h}
    <2>1. h \in Range(all_files) /\ Distinct(all_files) /\ all_files \in Seq(Handles)
      BY <1>1 DEF TreeInv, ListMatches, TreeTypes
    <2>2. /\ all_files' \in Seq(Handles) /\ Distinct(all_files')
          /\ Range(all_files') = Range(all_files) \ {h}
      BY <1>1, <2>1, RemoveFirstDistinct
    <2>3. file' \in [DOMAIN file' -> NodeType]
      BY <1>8, <1>9, <1>10
    <2>4. Root \in DOMAIN file' /\ DOMAIN file' \subseteq Handles
      BY <1>1, <1>9 DEF TreeInv, TreeTypes
    <2>5. \A x \in DOMAIN file' : file'[x].parent \in DOMAIN file' \cup {NULL, FREED}
      BY <1>9, <1>10 DEF TreeInv, TreeTypes
    <2> QED
      BY <2>2, <2>3, <2>4, <2>5 DEF TreeTypes
  <1>12. ASSUME NEW d \in DOMAIN file' PROVE Entries(d)' = Entries(d) \ {h}
    BY <1>2, <1>9, <1>10 DEF Entries
  <1>13. DirsMatch'
    <2>1. SUFFICES ASSUME NEW d \in DOMAIN file'
                   PROVE  Distinct(file'[d].entries) /\ Range(file'[d].entries) = Entries(d)'
      BY DEF DirsMatch
    <2>2. CASE d = p
      BY <1>5, <1>10, <1>12, <2>2
    <2>3. CASE d # p
      <3>1. d \in DOMAIN file /\ file'[d].entries = file[d].entries
        BY <1>9, <1>10, <2>3
      <3>2. h \notin Entries(d)
        BY <2>3 DEF Entries, p
      <3>3. Distinct(file[d].entries) /\ Range(file[d].entries) = Entries(d)
        BY <3>1 DEF TreeInv, DirsMatch
      <3> QED
        BY <1>12, <3>1, <3>2, <3>3
    <2> QED
      BY <2>2, <2>3
  <1>14. ListMatches(geom)'
    <2>1. Range(all_files') = IF RootListed(geom) THEN DOMAIN file' ELSE DOMAIN file' \ {Root}
      BY <1>1, <1>9, <1>11 DEF TreeInv, ListMatches
    <2> QED
      BY <1>11, <2>1 DEF ListMatches
  <1> QED
    BY <1>11, <1>13, <1>14 DEF TreeInv

(* Two fields of a node are set.                                           *)
Relisted(f, d, es, c) == [f EXCEPT ![d].entries = es, ![d].cnt = c]
Rehomed(f, d, p, n)   == [f EXCEPT ![d].parent = p, ![d].lfn = n]

LEMMA RelistedNode ==
    ASSUME NEW D, NEW f \in [D -> NodeType], NEW d \in D, NEW es \in Seq(Handles), NEW c \in Int
    PROVE  /\ Relisted(f, d, es, c) \in [D -> NodeType]
           /\ Relisted(f, d, es, c)[d].entries = es /\ Relisted(f, d, es, c)[d].cnt = c
           /\ Relisted(f, d, es, c)[d].parent = f[d].parent
           /\ \A x \in D : x # d => Relisted(f, d, es, c)[x] = f[x]
  BY DEF NodeType, Relisted

LEMMA RehomedNode ==
    ASSUME NEW D, NEW f \in [D -> NodeType], NEW d \in D, NEW p \in Handles,
           NEW n \in LfnExtras \cup {0}
    PROVE  /\ Rehomed(f, d, p, n) \in [D -> NodeType]
           /\ Rehomed(f, d, p, n)[d].entries = f[d].entries /\ Rehomed(f, d, p, n)[d].cnt = f[d].cnt
           /\ Rehomed(f, d, p, n)[d].parent = p
           /\ \A x \in D : x # d => Rehomed(f, d, p, n)[x] = f[x]
  BY DEF NodeType, Rehomed

(* A file leaves one directory and enters another, which may be the file   *)
(* itself.                                                                 *)
LEMMA MoveKeepsTree ==
    ASSUME TreeInv, geom' = geom, NEW h, NEW p, NEW n, move_file(h, p, n)
    PROVE  TreeInv'
  <1> DEFINE old == file[h].parent
  <1>1. /\ h \in DOMAIN file /\ old \in DOMAIN file /\ p \in DOMAIN file /\ old # p
        /\ n \in MovedLfn(file[h].lfn) /\ all_files' = all_files
    BY DEF move_file, HasParent, IsDir
  <1>2. /\ file \in [DOMAIN file -> NodeType] /\ h \in Handles /\ p \in Handles
    BY <1>1 DEF TreeInv, TreeTypes
  <1>3. n \in LfnExtras \cup {0}
    BY <1>1, <1>2 DEF MovedLfn, NodeType
  <1>4. /\ file[old].entries \in Seq(Handles) /\ file[p].entries \in Seq(Handles)
        /\ file[old].cnt \in Int /\ file[p].cnt \in Int
    BY <1>1, <1>2 DEF NodeType
  <1>5. /\ Distinct(file[old].entries) /\ Range(file[old].entries) = Entries(old) /\ h \in Entries(old)
        /\ Distinct(file[p].entries) /\ Range(file[p].entries) = Entries(p) /\ h \notin Entries(p)
    BY <1>1 DEF TreeInv, DirsMatch, Entries
  <1>6. PICK es \in Seq(Handles) : /\ es = RemoveFirst(file[old].entries, h)
                                   /\ Distinct(es) /\ Range(es) = Entries(old) \ {h}
    BY <1>4, <1>5, RemoveFirstDistinct
  <1>7. PICK fs \in Seq(Handles) : /\ fs = <<h>> \o file[p].entries
                                   /\ Distinct(fs) /\ Range(fs) = Entries(p) \cup {h}
    <2>1. h \notin Range(file[p].entries)
      BY <1>5
    <2>2. /\ <<h>> \o file[p].entries \in Seq(Handles) /\ Distinct(<<h>> \o file[p].entries)
          /\ Range(<<h>> \o file[p].entries) = Range(file[p].entries) \cup {h}
      BY <1>2, <1>4, <1>5, <2>1, PrependDistinct
    <2> QED
      BY <1>5, <2>2
  <1>8. PICK lo \in Int, hi \in Int : lo = file[old].cnt - 1 /\ hi = file[p].cnt + 1
    BY <1>4, SMTT(40)
  <1> HIDE DEF old
  <1>9. PICK f1 : f1 = Relisted(file, old, es, lo)
    OBVIOUS
  <1>10. PICK f2 : f2 = Relisted(f1, p, fs, hi)
    OBVIOUS
  <1>11. /\ f1 \in [DOMAIN file -> NodeType] /\ f1[old].entries = es /\ f1[old].parent = file[old].parent
         /\ \A x \in DOMAIN file : x # old => f1[x] = file[x]
    BY <1>1, <1>2, <1>9, RelistedNode
  <1>12. /\ f2 \in [DOMAIN file -> NodeType] /\ f2[p].entries = fs /\ f2[p].parent = f1[p].parent
         /\ \A x \in DOMAIN file : x # p => f2[x] = f1[x]
    BY <1>1, <1>10, <1>11, RelistedNode
  <1>13. file' = Rehomed(f2, h, p, n)
    <2>1. f1 = [file EXCEPT ![old].entries = RemoveFirst(@, h), ![old].cnt = @ - 1]
      BY <1>6, <1>8, <1>9 DEF Relisted
    <2>2. f1[p].entries = file[p].entries /\ f1[p].cnt = file[p].cnt
      BY <1>1, <1>11
    <2>3. f2 = [f1 EXCEPT ![p].entries = <<h>> \o @, ![p].cnt = @ + 1]
      BY <1>7, <1>8, <1>10, <2>2 DEF Relisted
    <2> QED
      BY <2>1, <2>3 DEF move_file, old, Rehomed
  <1>14. /\ file' \in [DOMAIN file -> NodeType]
         /\ \A x \in DOMAIN file : /\ file'[x].parent = IF x = h THEN p ELSE file[x].parent
                                   /\ file'[x].entries = f2[x].entries
    <2>1. /\ file' \in [DOMAIN file -> NodeType] /\ file'[h].entries = f2[h].entries /\ file'[h].parent = p
          /\ \A x \in DOMAIN file : x # h => file'[x] = f2[x]
      <3>1. f2 \in [DOMAIN file -> NodeType] /\ h \in DOMAIN file /\ p \in Handles
        BY <1>1, <1>2, <1>12
      <3>2. /\ Rehomed(f2, h, p, n) \in [DOMAIN file -> NodeType]
            /\ Rehomed(f2, h, p, n)[h].entries = f2[h].entries
            /\ Rehomed(f2, h, p, n)[h].parent = p
            /\ \A x \in DOMAIN file : x # h => Rehomed(f2, h, p, n)[x] = f2[x]
        <4>1. PICK m \in LfnExtras \cup {0} : m = n
          BY <1>3
        <4> QED
          BY <3>1, <4>1, RehomedNode
      <3> QED
        BY <1>13, <3>2
    <2>2. \A x \in DOMAIN file : f2[x].parent = file[x].parent
      BY <1>1, <1>11, <1>12
    <2> QED
      BY <2>1, <2>2
  <1>15. DOMAIN file' = DOMAIN file
    BY <1>14
  <1>16. TreeTypes'
    BY <1>1, <1>14, <1>15 DEF TreeInv, TreeTypes
  <1>17. ASSUME NEW d \in DOMAIN file
         PROVE  Entries(d)' = IF d = p THEN Entries(p) \cup {h} ELSE Entries(d) \ {h}
    <2>1. Entries(d)' = {x \in DOMAIN file : (IF x = h THEN p ELSE file[x].parent) = d}
      BY <1>14, <1>15 DEF Entries
    <2> QED
      BY <1>1, <2>1 DEF Entries
  <1>18. DirsMatch'
    <2>1. SUFFICES ASSUME NEW d \in DOMAIN file
                   PROVE  Distinct(file'[d].entries) /\ Range(file'[d].entries) = Entries(d)'
      BY <1>15 DEF DirsMatch
    <2>2. CASE d = p
      BY <1>7, <1>12, <1>14, <1>17, <2>2
    <2>3. CASE d = old
      <3>1. file'[d].entries = es
        BY <1>1, <1>11, <1>12, <1>14, <2>3
      <3> QED
        BY <1>1, <1>6, <1>17, <2>3, <3>1
    <2>4. CASE d # p /\ d # old
      <3>1. file'[d].entries = file[d].entries
        BY <1>11, <1>12, <1>14, <2>4
      <3>2. h \notin Entries(d)
        BY <2>4 DEF Entries, old
      <3>3. Distinct(file[d].entries) /\ Range(file[d].entries) = Entries(d)
        BY DEF TreeInv, DirsMatch
      <3> QED
        BY <1>17, <2>4, <3>1, <3>2, <3>3
    <2> QED
      BY <2>2, <2>3, <2>4
  <1>19. ListMatches(geom)'
    BY <1>1, <1>15 DEF TreeInv, ListMatches
  <1> QED
    BY <1>16, <1>18, <1>19 DEF TreeInv

(* The root directory enters or leaves the flat list with the geometry.    *)
LEMMA RelistKeepsTree ==
    ASSUME TreeInv, NEW g, relist_root(geom, g), geom' = g
    PROVE  TreeInv'
  <1>1. file' = file
    BY DEF relist_root
  <1>2. /\ Root \in Handles /\ Root \in DOMAIN file
        /\ all_files \in Seq(Handles) /\ Distinct(all_files)
        /\ Range(all_files) = IF RootListed(geom) THEN DOMAIN file ELSE DOMAIN file \ {Root}
    BY HandlesAssumption DEF TreeInv, TreeTypes, ListMatches
  <1>3. /\ all_files' \in Seq(Handles) /\ Distinct(all_files')
        /\ Range(all_files') = IF RootListed(g) THEN DOMAIN file ELSE DOMAIN file \ {Root}
    <2>1. CASE RootListed(geom) /\ ~RootListed(g)
      <3>1. all_files' = RemoveFirst(all_files, Root)
        BY <2>1 DEF relist_root
      <3> QED
        BY <1>2, <2>1, <3>1, RemoveFirstDistinct
    <2>2. CASE ~RootListed(geom) /\ RootListed(g)
      <3>1. all_files' = Append(all_files, Root)
        BY <2>2 DEF relist_root
      <3>2. Root \notin Range(all_files)
        BY <1>2, <2>2
      <3>3. /\ all_files' \in Seq(Handles) /\ Distinct(all_files')
            /\ Range(all_files') = Range(all_files) \cup {Root}
        BY <1>2, <3>1, <3>2, AppendDistinct
      <3> QED
        BY <1>2, <2>2, <3>3
    <2>3. CASE RootListed(geom) <=> RootListed(g)
      <3>1. all_files' = all_files
        BY <2>3 DEF relist_root
      <3> QED
        BY <1>2, <2>3, <3>1
    <2> QED
      BY <2>1, <2>2, <2>3
  <1>4. TreeTypes' /\ DirsMatch'
    BY <1>1, <1>3 DEF TreeInv, TreeTypes, DirsMatch, Entries
  <1>5. ListMatches(geom)'
    BY <1>1, <1>3 DEF ListMatches
  <1> QED
    BY <1>4, <1>5 DEF TreeInv

LEMMA TreeStep == TreeInv /\ [Next]_vars => TreeInv'
  <1> SUFFICES ASSUME TreeInv, [Next]_vars PROVE TreeInv'
    OBVIOUS
  <1>0. file \in [DOMAIN file -> NodeType]
    BY DEF TreeInv, TreeTypes
  <1>1. ASSUME UNCHANGED <<file, all_files, geom>> PROVE TreeInv'
    BY <1>0, <1>1, TreeFrame
  <1>2. ASSUME NEW p \in Handles, NEW h \in Handles, NEW n \in LfnExtras, NEW dir \in BOOLEAN,
               NEW virt \in BOOLEAN, NEW ext, create_file(geom, p, h, NewFile(p, dir, virt, n), ext),
               ChangesTree
        PROVE  TreeInv'
    <2>1. /\ NewFile(p, dir, virt, n) \in NodeType /\ NewFile(p, dir, virt, n).parent = p
          /\ NewFile(p, dir, virt, n).entries = <<>>
      BY DEF NewFile, NodeType
    <2>2. geom' = geom
      BY <1>2 DEF ChangesTree, setupvars
    <2> QED
      BY <1>2, <2>1, <2>2, CreateKeepsTree
  <1>3. ASSUME NEW p \in Handles, AddFails(p) PROVE TreeInv'
    <2>1. /\ p \in DOMAIN file /\ file' = [file EXCEPT ![p].cnt = @ + 1]
          /\ all_files' = all_files /\ geom' = geom
      BY <1>3 DEF AddFails, create_file_fails, IsDir, ChangesTree, setupvars
    <2>2. PICK c \in Int : c = file[p].cnt + 1
      BY <1>0, <2>1 DEF NodeType
    <2>3. PICK r : r = [file[p] EXCEPT !.cnt = c]
      OBVIOUS
    <2>4. r \in NodeType /\ r.parent = file[p].parent /\ r.entries = file[p].entries
      <3>1. file[p] \in NodeType
        BY <1>0, <2>1
      <3> QED
        BY <2>3, <3>1 DEF NodeType
    <2>5. file' = [file EXCEPT ![p] = r]
      BY <2>1, <2>2, <2>3
    <2>6. /\ file' \in [DOMAIN file -> NodeType]
          /\ \A x \in DOMAIN file : file'[x].parent = file[x].parent /\ file'[x].entries = file[x].entries
      <3>1. /\ file' \in [DOMAIN file -> NodeType] /\ file'[p] = r
            /\ \A x \in DOMAIN file : x # p => file'[x] = file[x]
        BY <1>0, <2>1, <2>4, <2>5
      <3> QED
        BY <2>4, <3>1
    <2> QED
      BY <2>1, <2>6, TreeFrame
  <1>4. ASSUME NEW h \in Handles, NEW n \in LfnExtras, set_name(h, n), ChangesTree PROVE TreeInv'
    <2>1. /\ h \in DOMAIN file /\ file' = [file EXCEPT ![h].lfn = n]
          /\ all_files' = all_files /\ geom' = geom
      BY <1>4 DEF set_name, HasParent, ChangesTree, setupvars
    <2>2. /\ file' \in [DOMAIN file -> NodeType]
          /\ \A x \in DOMAIN file : file'[x].parent = file[x].parent /\ file'[x].entries = file[x].entries
      BY <1>0, <1>4, <2>1 DEF NodeType
    <2> QED
      BY <2>1, <2>2, TreeFrame
  <1>5. ASSUME vdf_drive_recalc, geom' = geom PROVE TreeInv'
    BY <1>1, <1>5 DEF vdf_drive_recalc, treevars
  <1>6. CASE FileNext
    <2>1. ASSUME NEW p \in Handles, NEW h \in Handles, NEW n \in LfnExtras, AddDir(p, h, n)
          PROVE  TreeInv'
      BY <1>2, <2>1 DEF AddDir
    <2>2. ASSUME NEW p \in Handles, NEW h \in Handles, NEW n \in LfnExtras, NEW s \in RealSizes,
                 AddFileReal(p, h, n, s)
          PROVE  TreeInv'
      BY <1>2, <2>2 DEF AddFileReal
    <2>3. ASSUME NEW p \in Handles, NEW h \in Handles, NEW n \in LfnExtras, NEW s \in VirtSizes,
                 AddFileVirt(p, h, n, s)
          PROVE  TreeInv'
      BY <1>2, <2>3 DEF AddFileVirt
    <2>4. ASSUME NEW h \in Handles, DeleteFile(h) PROVE TreeInv'
      BY <2>4, DeleteKeepsTree DEF DeleteFile, ChangesTree, setupvars
    <2>5. ASSUME NEW h \in Handles, NEW p \in Handles, NEW n \in LfnExtras, MoveFile(h, p, n)
          PROVE  TreeInv'
      BY <2>5, MoveKeepsTree DEF MoveFile, ChangesTree, setupvars
    <2>6. ASSUME NEW h \in Handles, NEW n \in LfnExtras, SetFileName(h, n) PROVE TreeInv'
      BY <1>4, <2>6 DEF SetFileName
    <2>7. ASSUME NEW h \in Handles, NEW n \in LfnExtras, SetFileShortname(h, n) PROVE TreeInv'
      BY <1>4, <2>7 DEF SetFileShortname
    <2>8. ASSUME NEW h \in Handles, NEW s \in VirtSizes, SetFileSize(h, s) PROVE TreeInv'
      BY <1>1, <2>8 DEF SetFileSize, ChangesTree, setupvars
    <2>9. ASSUME NEW h \in Handles, SetFileMeta(h) PROVE TreeInv'
      BY <1>1, <2>9 DEF SetFileMeta, ChangesTree, setupvars, treevars
    <2> QED
      BY <1>3, <1>6, <2>1, <2>2, <2>3, <2>4, <2>5, <2>6, <2>7, <2>8, <2>9 DEF FileNext
  <1>7. CASE Recalc
    BY <1>5, <1>7 DEF Recalc, setupvars
  <1>8. CASE Lock
    BY <1>1, <1>5, <1>8 DEF Lock, vdf_drive_lock, treevars
  <1>9. CASE DumpDrive
    BY <1>1, <1>5, <1>9 DEF DumpDrive, setupvars, treevars
  <1>10. CASE \E g \in Geoms : Recreate(g)
    BY <1>10, RelistKeepsTree DEF Recreate
  <1>11. CASE Unlock \/ SetLabelFails \/ Free \/ UNCHANGED vars
    BY <1>1, <1>11 DEF Unlock, SetLabelFails, Free, vars, setupvars, treevars
  <1>12. CASE (\E on \in Labels : SetLabel(on)) \/ (\E s \in Serials : SetSerial(s))
    BY <1>1, <1>12 DEF SetLabel, SetSerial, treevars
  <1> QED
    BY <1>6, <1>7, <1>8, <1>9, <1>10, <1>11, <1>12 DEF Next, DriveNext, DumpDriveFails

(* Whatever is created, moved, deleted or re-created, in whatever order,   *)
(* the flat list and the directories of file.c name the same files, each   *)
(* of them once.                                                           *)
THEOREM DriveTreeConsistent == Spec => []TreeConsistent
  BY TreeInvInit, TreeStep, TreeInvSuffices, PTL DEF Spec

-----------------------------------------------------------------------------
(* VDF_DIRTY tells the truth.  The argument: file_recalc_offsize() writes  *)
(* the positions of a file and reads only its size and its clusters, and   *)
(* dir_recalc() writes the sizes of directories and reads no extent at     *)
(* all.  So a recalculation of a drive that has just been recalculated     *)
(* finds the sizes it has written itself and, file by file, the positions  *)
(* it is about to write, as long as no file is placed twice in one run.    *)
IsExtent(x) ==
    x = [size |-> x.size, clusters |-> x.clusters, start |-> x.start, end |-> x.end,
         startsect |-> x.startsect, endsect |-> x.endsect]

Extents(E) == E = [h \in DOMAIN E |-> E[h]] /\ \A h \in DOMAIN E : IsExtent(E[h])

SameSize(x, y) == x.size = y.size /\ x.clusters = y.clusters

(* It changes neither the size nor the clusters, reads no position, and    *)
(* done twice at the same place does what it does once.                    *)
LEMMA OffsizeIs ==
    ASSUME NEW g, NEW d, NEW f, IsExtent(f), NEW x, x = OffsizeFile(g, d, f)
    PROVE  IsExtent(x) /\ SameSize(x, f) /\ OffsizeFile(g, d, x) = x
  <1>0. PICK ok, de, ce : ok = OffsizeDrive(g, d, f).ok /\ de = OffsizeDrive(g, d, f).dend
                          /\ ce = OffsizeDrive(g, d, f).cend
    OBVIOUS
  <1>1. CASE f.size = 0
    <2>1. x = [f EXCEPT !.start = 0]
      BY <1>1 DEF OffsizeFile
    <2>2. IsExtent(x) /\ SameSize(x, f) /\ x.start = 0
      BY <2>1 DEF IsExtent, SameSize
    <2>3. [x EXCEPT !.start = 0] = x
      BY <2>2 DEF IsExtent
    <2>4. x.size = 0
      BY <1>1, <2>2 DEF SameSize
    <2>5. OffsizeFile(g, d, x) = [x EXCEPT !.start = 0]
      BY <2>4 DEF OffsizeFile
    <2> QED
      BY <2>2, <2>3, <2>5
  <1>2. CASE f.size # 0
    <2>1. x = [f EXCEPT !.start = d.cend, !.end = ce,
                        !.startsect = IF d.dend < g.sectors THEN d.dend ELSE f.startsect,
                        !.endsect = IF ok THEN de ELSE f.endsect]
      BY <1>0, <1>2 DEF OffsizeFile
    <2>2. /\ IsExtent(x) /\ SameSize(x, f) /\ x.start = d.cend /\ x.end = ce
          /\ x.startsect = IF d.dend < g.sectors THEN d.dend ELSE f.startsect
          /\ x.endsect = IF ok THEN de ELSE f.endsect
      BY <2>1 DEF IsExtent, SameSize
    <2>3. OffsizeDrive(g, d, x) = OffsizeDrive(g, d, f)
      BY <2>2 DEF OffsizeDrive, SameSize
    <2>4. OffsizeFile(g, d, x) = [x EXCEPT !.start = d.cend, !.end = ce,
                        !.startsect = IF d.dend < g.sectors THEN d.dend ELSE x.startsect,
                        !.endsect = IF ok THEN de ELSE x.endsect]
      <3>1. x.size # 0
        BY <1>2, <2>2 DEF SameSize
      <3>2. OffsizeDrive(g, d, x).ok = ok /\ OffsizeDrive(g, d, x).dend = de /\ OffsizeDrive(g, d, x).cend = ce
        BY <1>0, <2>3
      <3> QED
        BY ONLY <3>1, <3>2 DEF OffsizeFile
    <2>5. /\ x.startsect = IF d.dend < g.sectors THEN d.dend ELSE x.startsect
          /\ x.endsect = IF ok THEN de ELSE x.endsect
      BY <2>2
    <2> QED
      BY <2>2, <2>4, <2>5 DEF IsExtent
  <1> QED
    BY <1>1, <1>2

(* The drive's counters advance by the size and the clusters alone.        *)
LEMMA OffsizeDriveSame ==
    ASSUME NEW g, NEW d, NEW f, NEW x, SameSize(x, f)
    PROVE  OffsizeDrive(g, d, x) = OffsizeDrive(g, d, f)
  BY DEF OffsizeDrive, SameSize

(* The first loop of vdf_drive_recalc() as a function of what it reads.    *)
PlaceNext(g, acc, h) ==
    IF ~acc.d.ok THEN acc
    ELSE [d |-> OffsizeDrive(g, acc.d, acc.e[h]),
          e |-> [acc.e EXCEPT ![h] = OffsizeFile(g, acc.d, acc.e[h])]]

PlacedFrom(g, E, fs) ==
    LET Upto[k \in 0..Len(fs)] ==
            IF k = 0 THEN [d |-> LayoutStart(g), e |-> E] ELSE PlaceNext(g, Upto[k - 1], fs[k])
    IN  Upto[Len(fs)]

(* P[k] is what the loop holds after k turns.                              *)
Places(P, g, E, fs) ==
    /\ P[0] = [d |-> LayoutStart(g), e |-> E]
    /\ \A k \in 1..Len(fs) : P[k] = PlaceNext(g, P[k - 1], fs[k])
    /\ PlacedFrom(g, E, fs) = P[Len(fs)]

(* The recursive function of PlacedFrom exists.                            *)
LEMMA PlacedFromIs ==
    ASSUME NEW g, NEW E, NEW fs, Len(fs) \in Nat
    PROVE  \E P : Places(P, g, E, fs)
  <1> DEFINE Start == [d |-> LayoutStart(g), e |-> E]
             Step(x, k) == PlaceNext(g, x, fs[k])
             Is(f, m) == f = [k \in 0..m |-> IF k = 0 THEN Start ELSE Step(f[k - 1], k)]
             S == {m \in Nat : \E f : Is(f, m)}
             F == CHOOSE f : Is(f, Len(fs))
  <1> HIDE DEF Step, Start
  <1>1. 0 \in S
    <2>1. Is([k \in 0..0 |-> Start], 0)
      OBVIOUS
    <2> HIDE DEF Is
    <2> QED
      BY <2>1
  <1>2. ASSUME NEW m \in Nat, m \in S PROVE m + 1 \in S
    <2>1. PICK f : Is(f, m)
      BY <1>2
    <2> DEFINE g1 == [k \in 0..(m + 1) |-> IF k <= m THEN f[k] ELSE Step(f[m], m + 1)]
    <2>2. Is(g1, m + 1)
      BY <2>1
    <2> HIDE DEF Is, g1
    <2> QED
      BY <2>2
  <1>3. Len(fs) \in S
    <2> HIDE DEF S
    <2> QED
      BY <1>1, <1>2, SetInduction
  <1>4. Is(F, Len(fs))
    <2> HIDE DEF Is
    <2> QED
      BY <1>3
  <1>5. PlacedFrom(g, E, fs) = F[Len(fs)]
    BY DEF PlacedFrom, Step, Start
  <1> HIDE DEF F
  <1>6. F[0] = Start /\ \A k \in 1..Len(fs) : F[k] = Step(F[k - 1], k)
    <2>1. PICK n : n = Len(fs)
      OBVIOUS
    <2>2. n \in Nat /\ F = [k \in 0..n |-> IF k = 0 THEN Start ELSE Step(F[k - 1], k)]
      BY <1>4, <2>1
    <2>3. F[0] = Start /\ \A k \in 1..n : F[k] = Step(F[k - 1], k)
      BY ONLY <2>2
    <2> QED
      BY <2>1, <2>3
  <1> QED
    BY <1>5, <1>6 DEF Step, Start, Places

(* What each turn of the loop leaves alone.                                *)
IsPlacing(acc, E) ==
    /\ acc = [d |-> acc.d, e |-> acc.e]
    /\ Extents(acc.e) /\ DOMAIN acc.e = DOMAIN E
    /\ \A h \in DOMAIN E : SameSize(acc.e[h], E[h])

IsTurn(g, E, acc, h, nxt) == IsPlacing(acc, E) /\ h \in DOMAIN E /\ nxt = PlaceNext(g, acc, h)

(* One turn moves one file, and only while every file so far has fitted.   *)
LEMMA PlaceNextIs ==
    ASSUME NEW g, NEW E, NEW acc, NEW h, NEW nxt, IsTurn(g, E, acc, h, nxt)
    PROVE  /\ IsPlacing(nxt, E)
           /\ \A x \in DOMAIN E : x # h => nxt.e[x] = acc.e[x]
           /\ acc.d.ok => nxt.e[h] = OffsizeFile(g, acc.d, acc.e[h])
           /\ nxt.d = IF acc.d.ok THEN OffsizeDrive(g, acc.d, acc.e[h]) ELSE acc.d
           /\ ~acc.d.ok => nxt = acc
  <1> USE DEF IsTurn
  <1>1. CASE ~acc.d.ok
    BY <1>1 DEF PlaceNext
  <1>2. CASE acc.d.ok
    <2>1. PICK x : x = OffsizeFile(g, acc.d, acc.e[h])
      OBVIOUS
    <2>2. Extents(acc.e) /\ DOMAIN acc.e = DOMAIN E /\ IsExtent(acc.e[h]) /\ SameSize(acc.e[h], E[h])
      BY DEF IsPlacing, Extents
    <2>3. IsExtent(x) /\ SameSize(x, acc.e[h])
      BY <2>1, <2>2, OffsizeIs
    <2>4. nxt = [d |-> OffsizeDrive(g, acc.d, acc.e[h]), e |-> [acc.e EXCEPT ![h] = x]]
      BY <1>2, <2>1 DEF PlaceNext
    <2>5. PICK e : e = [acc.e EXCEPT ![h] = x]
      OBVIOUS
    <2>6. /\ e = [y \in DOMAIN E |-> e[y]] /\ DOMAIN e = DOMAIN E /\ e[h] = x
          /\ \A y \in DOMAIN E : y # h => e[y] = acc.e[y]
      BY <2>2, <2>5
    <2>7. nxt.e = e /\ nxt.d = OffsizeDrive(g, acc.d, acc.e[h]) /\ nxt = [d |-> nxt.d, e |-> nxt.e]
      BY <2>4, <2>5
    <2>8. Extents(e) /\ \A y \in DOMAIN E : SameSize(e[y], E[y])
      BY <2>2, <2>3, <2>6 DEF Extents, SameSize, IsPlacing
    <2> QED
      BY <1>2, <2>1, <2>6, <2>7, <2>8 DEF IsPlacing
  <1> QED
    BY <1>1, <1>2

(* After k turns no size has changed and the files placed so far are where *)
(* their turn put them.                                                    *)
LoopOK(P, E, fs, k) ==
    /\ IsPlacing(P[k], E)
    /\ \A j \in 1..k : P[k].e[fs[j]] = P[j].e[fs[j]]

(* LoopOK holds after every turn: by induction over the flat list.         *)
LEMMA PlacesAre ==
    ASSUME NEW g, NEW E, Extents(E), NEW D, D = DOMAIN E, NEW fs \in Seq(D), Distinct(fs),
           NEW P, Places(P, g, E, fs)
    PROVE  \A k \in 0..Len(fs) : LoopOK(P, E, fs, k)
  <1>0. PICK n \in Nat : n = Len(fs)
    OBVIOUS
  <1>1. /\ P[0] = [d |-> LayoutStart(g), e |-> E]
        /\ \A k \in 1..n : P[k] = PlaceNext(g, P[k - 1], fs[k])
        /\ \A k \in 1..n : fs[k] \in DOMAIN E
        /\ \A j, k \in 1..n : fs[j] = fs[k] => j = k
    <2>1. DOMAIN fs = 1..n /\ \A k \in 1..n : fs[k] \in D
      BY <1>0, ElementOfSeq, LenProperties
    <2>2. \A j, k \in 1..n : fs[j] = fs[k] => j = k
      BY <2>1 DEF Distinct
    <2>3. /\ P[0] = [d |-> LayoutStart(g), e |-> E]
          /\ \A k \in 1..n : P[k] = PlaceNext(g, P[k - 1], fs[k])
      BY <1>0, Zenon DEF Places
    <2> QED
      BY <2>1, <2>2, <2>3
  <1> DEFINE S == {k \in Nat : k <= n => LoopOK(P, E, fs, k)}
  <1>2. 0 \in S
    <2>1. IsPlacing(P[0], E)
      BY <1>1 DEF IsPlacing, SameSize
    <2> QED
      BY <2>1 DEF LoopOK
  <1>3. ASSUME NEW k \in Nat, k \in S PROVE k + 1 \in S
    <2>1. SUFFICES ASSUME k + 1 <= n PROVE LoopOK(P, E, fs, k + 1)
      OBVIOUS
    <2>2. LoopOK(P, E, fs, k)
      BY <1>3, <2>1
    <2>3. /\ k + 1 \in 1..n /\ k + 1 - 1 = k /\ \A j \in 1..k : j \in 1..n /\ j # k + 1
          /\ \A j \in 1..(k + 1) : j = k + 1 \/ j \in 1..k
      BY <2>1
    <2>4. P[k + 1] = PlaceNext(g, P[k], fs[k + 1]) /\ fs[k + 1] \in DOMAIN E
      BY <1>1, <2>3
    <2>5. PICK acc, nxt, h : acc = P[k] /\ nxt = P[k + 1] /\ h = fs[k + 1]
      OBVIOUS
    <2>6. IsPlacing(acc, E) /\ nxt = PlaceNext(g, acc, h) /\ h \in DOMAIN E
      BY <2>2, <2>4, <2>5 DEF LoopOK
    <2>7. IsPlacing(nxt, E) /\ \A x \in DOMAIN E : x # h => nxt.e[x] = acc.e[x]
      <3>1. IsTurn(g, E, acc, h, nxt)
        BY <2>6 DEF IsTurn
      <3> QED
        BY ONLY <3>1, PlaceNextIs
    <2>8. ASSUME NEW j \in 1..k PROVE P[k + 1].e[fs[j]] = P[j].e[fs[j]]
      <3>1. fs[j] \in DOMAIN E /\ fs[j] # h
        BY <1>1, <2>3, <2>5
      <3>2. acc.e[fs[j]] = P[j].e[fs[j]]
        BY <2>2, <2>5 DEF LoopOK
      <3> QED
        BY <2>5, <2>7, <3>1, <3>2
    <2> QED
      BY <2>3, <2>5, <2>7, <2>8 DEF LoopOK
  <1>4. n \in S /\ \A k \in Nat : k \in S
    <2> HIDE DEF S
    <2> QED
      BY <1>2, <1>3, SetInduction
  <1> QED
    BY <1>0, <1>4

(* Placing the files of a layout again, from the same sizes, changes       *)
(* nothing.                                                                *)
LEMMA PlacedAgain ==
    ASSUME NEW g, NEW E, Extents(E), NEW D, D = DOMAIN E, NEW fs \in Seq(D), Distinct(fs),
           NEW p, p = PlacedFrom(g, E, fs)
    PROVE  IsPlacing(p, E) /\ PlacedFrom(g, p.e, fs) = p
  <1>0. PICK n \in Nat : n = Len(fs)
    OBVIOUS
  <1>1. PICK P : Places(P, g, E, fs)
    BY <1>0, PlacedFromIs, Zenon
  <1>2. \A k \in 0..n : LoopOK(P, E, fs, k)
    BY <1>0, <1>1, PlacesAre
  <1>3. PICK Q : Places(Q, g, p.e, fs)
    BY <1>0, PlacedFromIs, Zenon
  <1>4. p = P[n] /\ PlacedFrom(g, p.e, fs) = Q[n]
    BY <1>0, <1>1, <1>3, Zenon DEF Places
  <1>5. IsPlacing(p, E) /\ \A j \in 1..n : p.e[fs[j]] = P[j].e[fs[j]]
    <2>1. LoopOK(P, E, fs, n)
      BY <1>2
    <2> QED
      BY <1>4, <2>1 DEF LoopOK
  <1>6. \A k \in 1..n : P[k] = PlaceNext(g, P[k - 1], fs[k]) /\ Q[k] = PlaceNext(g, Q[k - 1], fs[k])
    BY <1>0, <1>1, <1>3, Zenon DEF Places
  <1>7. \A k \in 1..n : fs[k] \in DOMAIN E
    BY <1>0, ElementOfSeq, LenProperties
  <1> DEFINE Again(k) == Q[k] = [d |-> P[k].d, e |-> p.e]
             S == {k \in Nat : k <= n => Again(k)}
  <1>8. 0 \in S
    <2>1. P[0] = [d |-> LayoutStart(g), e |-> E] /\ Q[0] = [d |-> LayoutStart(g), e |-> p.e]
      BY <1>1, <1>3, Zenon DEF Places
    <2> QED
      BY <2>1
  <1>9. ASSUME NEW k \in Nat, k \in S PROVE k + 1 \in S
    <2>1. SUFFICES ASSUME k + 1 <= n PROVE Again(k + 1)
      OBVIOUS
    <2>2. Again(k)
      BY <1>9, <2>1
    <2>3. k + 1 \in 1..n /\ k + 1 - 1 = k /\ k \in 0..n
      BY <2>1
    <2>4. PICK acc, nxt, h : acc = P[k] /\ nxt = P[k + 1] /\ h = fs[k + 1]
      OBVIOUS
    <2>5. nxt = PlaceNext(g, acc, h) /\ Q[k + 1] = PlaceNext(g, Q[k], h) /\ h \in DOMAIN E
      BY <1>6, <1>7, <2>3, <2>4
    <2>6. IsPlacing(acc, E)
      BY <1>2, <2>3, <2>4 DEF LoopOK
    <2>7. IsTurn(g, E, acc, h, nxt)
      BY <2>5, <2>6 DEF IsTurn
    <2>8. /\ acc.d.ok => nxt.e[h] = OffsizeFile(g, acc.d, acc.e[h])
          /\ nxt.d = IF acc.d.ok THEN OffsizeDrive(g, acc.d, acc.e[h]) ELSE acc.d
      BY ONLY <2>7, PlaceNextIs
    <2>9. p.e[h] = nxt.e[h]
      BY <1>5, <2>3, <2>4
    <2>10. Q[k].d = acc.d /\ Q[k].e = p.e
      BY <2>2, <2>4
    <2>11. CASE ~acc.d.ok
      <3>1. Q[k + 1] = Q[k]
        BY <2>5, <2>10, <2>11 DEF PlaceNext
      <3> QED
        BY <2>2, <2>4, <2>8, <2>11, <3>1
    <2>12. CASE acc.d.ok
      <3>1. PICK f, x : f = acc.e[h] /\ x = p.e[h]
        OBVIOUS
      <3>2. IsExtent(f)
        BY <2>5, <2>6, <3>1 DEF IsPlacing, Extents
      <3>3. x = OffsizeFile(g, acc.d, f)
        BY <2>8, <2>9, <2>12, <3>1
      <3>4. SameSize(x, f) /\ OffsizeFile(g, acc.d, x) = x
        BY ONLY <3>2, <3>3, OffsizeIs
      <3>5. OffsizeDrive(g, acc.d, x) = OffsizeDrive(g, acc.d, f)
        BY <3>4, OffsizeDriveSame
      <3>6. Q[k + 1] = [d |-> OffsizeDrive(g, acc.d, x),
                        e |-> [p.e EXCEPT ![h] = OffsizeFile(g, acc.d, x)]]
        BY <2>5, <2>10, <2>12, <3>1 DEF PlaceNext
      <3>7. Q[k + 1] = [d |-> nxt.d, e |-> [p.e EXCEPT ![h] = x]]
        BY <2>8, <2>12, <3>1, <3>4, <3>5, <3>6
      <3>8. [p.e EXCEPT ![h] = x] = p.e
        BY <1>5, <3>1 DEF IsPlacing, Extents
      <3> QED
        BY <2>4, <3>7, <3>8
    <2> QED
      BY <2>11, <2>12
  <1>10. n \in S
    <2> HIDE DEF S
    <2> QED
      BY <1>8, <1>9, SetInduction
  <1>11. Q[n] = [d |-> P[n].d, e |-> p.e]
    BY <1>10
  <1> QED
    BY <1>4, <1>5, <1>11 DEF IsPlacing

(* dir_recalc() gives the directories in V their sizes and their clusters. *)
Resized(E, V, sz, cl) ==
    [h \in DOMAIN E |-> IF h \in V THEN [E[h] EXCEPT !.size = sz[h], !.clusters = cl[h]] ELSE E[h]]

(* Sizing a layout again and placing its files again changes nothing.      *)
LEMMA SameLayout ==
    ASSUME NEW g, NEW E, Extents(E), NEW V, NEW sz, NEW cl, NEW D, D = DOMAIN E,
           NEW fs \in Seq(D), Distinct(fs), NEW p, p = PlacedFrom(g, Resized(E, V, sz, cl), fs)
    PROVE  /\ Extents(p.e) /\ DOMAIN p.e = DOMAIN E
           /\ PlacedFrom(g, Resized(p.e, V, sz, cl), fs) = p
  <1>1. PICK R : R = Resized(E, V, sz, cl)
    OBVIOUS
  <1>2. DOMAIN R = D /\ R = [h \in D |-> R[h]]
    BY <1>1 DEF Resized
  <1>3. ASSUME NEW h \in D
        PROVE  IsExtent(R[h]) /\ (h \in V => R[h].size = sz[h] /\ R[h].clusters = cl[h])
    <2>1. IsExtent(E[h])
      BY DEF Extents
    <2>2. CASE h \in V
      <3>1. R[h] = [E[h] EXCEPT !.size = sz[h], !.clusters = cl[h]]
        BY <1>1, <2>2 DEF Resized
      <3> QED
        BY <2>1, <3>1 DEF IsExtent
    <2>3. CASE h \notin V
      BY <1>1, <2>1, <2>3 DEF Resized
    <2> QED
      BY <2>2, <2>3
  <1>4. Extents(R)
    BY <1>2, <1>3 DEF Extents
  <1>5. IsPlacing(p, R) /\ PlacedFrom(g, p.e, fs) = p
    <2>1. p = PlacedFrom(g, R, fs) /\ D = DOMAIN R
      BY <1>1, <1>2
    <2> QED
      BY <1>4, <2>1, PlacedAgain
  <1>6. Extents(p.e) /\ DOMAIN p.e = D /\ \A h \in D : SameSize(p.e[h], R[h])
    BY <1>2, <1>5 DEF IsPlacing
  <1>7. PICK F : F = p.e
    OBVIOUS
  <1>8. ASSUME NEW h \in D
        PROVE  (IF h \in V THEN [F[h] EXCEPT !.size = sz[h], !.clusters = cl[h]] ELSE F[h]) = F[h]
    <2>1. IsExtent(F[h]) /\ (h \in V => F[h].size = sz[h] /\ F[h].clusters = cl[h])
      BY <1>3, <1>6, <1>7 DEF Extents, SameSize
    <2> QED
      BY <2>1 DEF IsExtent
  <1>9. Resized(F, V, sz, cl) = F
    BY <1>6, <1>7, <1>8 DEF Resized, Extents
  <1> QED
    BY <1>5, <1>6, <1>7, <1>9

(* What vdf_drive_recalc() computes, from the drive's files f, extents E,  *)
(* flat list a, geometry g and label.                                      *)
VisitedOf(f) ==
    LET SubDirs(d) == {c \in Range(f[d].entries) : c \in DOMAIN f /\ f[c].dir}
        Down(S) == S \cup UNION {SubDirs(d) : d \in S}
        Level[n \in 0..Cardinality(Handles)] ==
            IF n = 0 THEN {Root}
            ELSE Down(Level[n - 1])
    IN  Level[Cardinality(Handles)]

FentCntOf(f, g, labelled, d) ==
    LET es == f[d].entries
        Upto[k \in 0..Len(es)] ==
            IF k = 0 THEN IF f[d].parent = NULL THEN (IF labelled THEN 1 ELSE 0) ELSE 2
            ELSE Upto[k - 1] + (IF g.vfat THEN f[es[k]].lfn ELSE 0) + 1
    IN  Upto[Len(es)]

DirSizes(f, g, labelled)    == [h \in DOMAIN f |-> FentCntOf(f, g, labelled, h) * DirentSize]
DirClusters(f, g, labelled) ==
    [h \in DOMAIN f |-> (FentCntOf(f, g, labelled, h) * DirentSize + Bpc(g) - 1) \div Bpc(g)]

LayoutOf(f, E, a, g, labelled) ==
    PlacedFrom(g, Resized(E, VisitedOf(f), DirSizes(f, g, labelled), DirClusters(f, g, labelled)), a)

WrittenOf(f, a, g, e) ==
    LET Upto[k \in 0..Len(a)] ==
            IF k = 0 THEN <<>>
            ELSE IF HasRange(f[a[k]].dir, e[a[k]])
                 THEN Append(Upto[k - 1], RangeOf(g, a[k], e[a[k]]))
                 ELSE Upto[k - 1]
    IN  Upto[Len(a)]

RangesFor(f, a, g, d, e) ==
    LET written == WrittenOf(f, a, g, e)
    IN  Sorted(SubSeq(written, 1, d.nonempty))
        \o SubSeq(written, d.nonempty + 1, Len(written))

(* RangesFor is RangesOf with its variables as parameters.                 *)
LEMMA RangesForIs ==
    ASSUME NEW d, NEW e
    PROVE  RangesOf(d, e) = RangesFor(file, all_files, geom, d, e)
  BY DEF RangesOf, RangesFor, Written, WrittenOf

(* LayoutOf is PlacedWith with its variables as parameters.                *)
LEMMA LayoutIs ==
    ASSUME NEW lab
    PROVE  DOMAIN extent = DOMAIN file
             => PlacedWith(lab) = LayoutOf(file, extent, all_files, geom, lab)
  <1>0. SUFFICES ASSUME DOMAIN extent = DOMAIN file
                 PROVE  PlacedWith(lab) = LayoutOf(file, extent, all_files, geom, lab)
    OBVIOUS
  <1>1. VisitedDirs = VisitedOf(file)
    BY DEF VisitedDirs, VisitedOf, IsDir
  <1>2. ASSUME NEW h PROVE FentCnt(geom, lab, h) = FentCntOf(file, geom, lab, h)
    BY DEF FentCnt, FentCntOf, fents_needed
  <1>3. PICK V, sz, cl : /\ V = VisitedOf(file) /\ sz = DirSizes(file, geom, lab)
                         /\ cl = DirClusters(file, geom, lab)
    OBVIOUS
  <1>4. \A h \in DOMAIN file :
          /\ sz[h] = FentCnt(geom, lab, h) * DirentSize
          /\ cl[h] = (FentCnt(geom, lab, h) * DirentSize + Bpc(geom) - 1) \div Bpc(geom)
    BY <1>2, <1>3 DEF DirSizes, DirClusters
  <1>5. dir_recalc(geom, lab, Bpc(geom), DirentSize) = Resized(extent, V, sz, cl)
    BY <1>0, <1>1, <1>3, <1>4 DEF dir_recalc, Resized
  <1>6. PlacedWith(lab) = PlacedFrom(geom, dir_recalc(geom, lab, Bpc(geom), DirentSize), all_files)
    BY DEF PlacedWith, PlacedFrom, PlaceOne, PlaceNext
  <1> QED
    BY <1>3, <1>5, <1>6 DEF LayoutOf

(* CleanIsCurrent as a statement about the values of the variables.        *)
IsLayout(f, E, a, g, labelled, lay) ==
    LET p == LayoutOf(f, E, a, g, labelled)
    IN  /\ p.d.ok /\ p.e = E
        /\ <<RangesFor(f, a, g, p.d, p.e), p.d.nonempty, p.d.dend, p.d.cend>> = lay

MayHaveLabel(on) == {on} \cup (IF AllocMayFail THEN {TRUE} ELSE {})

SomeLayout(f, E, a, g, on, lay) == \E lab \in MayHaveLabel(on) : IsLayout(f, E, a, g, lab, lay)

(* CleanIsCurrent is SomeLayout of the variables,                          *)
LEMMA CurrentIs ==
    DOMAIN extent = DOMAIN file =>
      (CleanIsCurrent <=>
         (~dirty => SomeLayout(file, extent, all_files, geom, label,
                               <<ranges, nonempty_file_cnt, data_end, data_cluster_end>>)))
  <1> SUFFICES ASSUME DOMAIN extent = DOMAIN file
               PROVE  CleanIsCurrent <=>
         (~dirty => SomeLayout(file, extent, all_files, geom, label,
                               <<ranges, nonempty_file_cnt, data_end, data_cluster_end>>))
    OBVIOUS
  <1> DEFINE Cur(p) == /\ p.d.ok /\ p.e = extent
                       /\ RangesOf(p.d, p.e) = ranges
                       /\ <<p.d.nonempty, p.d.dend, p.d.cend>>
                            = <<nonempty_file_cnt, data_end, data_cluster_end>>
  <1>1. ASSUME NEW lab
        PROVE  Cur(PlacedWith(lab)) <=>
                 IsLayout(file, extent, all_files, geom, lab,
                          <<ranges, nonempty_file_cnt, data_end, data_cluster_end>>)
    <2>1. PICK p : p = PlacedWith(lab) /\ p = LayoutOf(file, extent, all_files, geom, lab)
      BY LayoutIs
    <2>2. PICK d, e : d = p.d /\ e = p.e
      OBVIOUS
    <2>3. RangesOf(d, e) = RangesFor(file, all_files, geom, d, e)
      BY RangesForIs
    <2>4. Cur(p) <=> /\ d.ok /\ e = extent
                     /\ <<RangesFor(file, all_files, geom, d, e), d.nonempty, d.dend, d.cend>>
                          = <<ranges, nonempty_file_cnt, data_end, data_cluster_end>>
      BY <2>2, <2>3
    <2> QED
      BY <2>1, <2>2, <2>4 DEF IsLayout
  <1>2. CleanIsCurrent <=> (~dirty => \E lab \in MayHaveLabel(label) : Cur(PlacedWith(lab)))
    BY DEF CleanIsCurrent, MayHaveLabel
  <1> HIDE DEF Cur
  <1> QED
    BY <1>1, <1>2 DEF SomeLayout

(* in the next state as well.                                              *)
LEMMA CurrentIsPrimed ==
    DOMAIN extent' = DOMAIN file' =>
      (CleanIsCurrent' <=>
         (~dirty' => SomeLayout(file', extent', all_files', geom', label',
                                <<ranges', nonempty_file_cnt', data_end', data_cluster_end'>>)))
  <1>1. (DOMAIN extent = DOMAIN file =>
          (CleanIsCurrent <=>
             (~dirty => SomeLayout(file, extent, all_files, geom, label,
                                   <<ranges, nonempty_file_cnt, data_end, data_cluster_end>>))))'
    BY CurrentIs, PTL
  <1> QED
    BY <1>1

(* Beside CleanIsCurrent the induction needs every file of the tree to     *)
(* have an extent and the flat list to name each file once: placed twice   *)
(* in one recalculation, a file would be elsewhere in the next.            *)
ExtentInv ==
    /\ label \in BOOLEAN /\ dirty \in BOOLEAN
    /\ DOMAIN extent = DOMAIN file /\ Extents(extent)

CurrentInv == TreeInv /\ ExtentInv /\ CleanIsCurrent

(* A new drive is dirty.                                                   *)
LEMMA CurrentInvInit == Init => CurrentInv
  <1> SUFFICES ASSUME Init PROVE CurrentInv
    OBVIOUS
  <1>1. TreeInv /\ dirty = TRUE /\ label = FALSE
    BY TreeInvInit DEF Init
  <1>2. /\ file = [x \in {Root} |-> NewFile(NULL, TRUE, FALSE, 0)]
        /\ extent = [x \in {Root} |-> NewExtent(0, 0)]
    BY DEF Init, TreeInit
  <1>3. IsExtent(NewExtent(0, 0))
    BY DEF IsExtent, NewExtent
  <1>4. DOMAIN extent = DOMAIN file /\ Extents(extent)
    BY <1>2, <1>3 DEF Extents
  <1> QED
    BY <1>1, <1>4 DEF CurrentInv, ExtentInv, CleanIsCurrent

(* A recalculation keeps a clean drive as it is, or fails, or leaves a     *)
(* drive on which the next one would change nothing.                       *)
LEMMA RecalcIsCurrent ==
    ASSUME CurrentInv, vdf_drive_recalc, geom' = geom, label' = label
    PROVE  ExtentInv' /\ CleanIsCurrent'
  <1>0. ExtentInv /\ DOMAIN extent = DOMAIN file /\ Extents(extent)
    BY DEF CurrentInv, ExtentInv
  <1>1. CASE ~dirty /\ UNCHANGED <<treevars, layoutvars>>
    <2>1. /\ UNCHANGED <<file, extent, all_files, dirty, ranges>>
          /\ UNCHANGED <<nonempty_file_cnt, data_end, data_cluster_end>>
      BY <1>1 DEF treevars, layoutvars
    <2>2. ExtentInv'
      BY <1>0, <2>1 DEF ExtentInv
    <2>3. CleanIsCurrent'
      BY <1>0, <2>1, CurrentIs, CurrentIsPrimed DEF CurrentInv
    <2> QED
      BY <2>2, <2>3
  <1>2. CASE dirty
    <2>1. PICK p : p = PlacedWith(label)
      OBVIOUS
    <2>2. /\ extent' = p.e /\ nonempty_file_cnt' = p.d.nonempty
          /\ data_end' = p.d.dend /\ data_cluster_end' = p.d.cend
          /\ UNCHANGED <<file, all_files>>
          /\ (p.d.ok /\ dirty' = FALSE /\ ranges' = RangesOf(p.d, p.e)) \/ (~p.d.ok /\ dirty' = dirty)
      BY <1>2, <2>1 DEF vdf_drive_recalc, Placed
    <2>3. PICK V, sz, cl : /\ V = VisitedOf(file) /\ sz = DirSizes(file, geom, label)
                           /\ cl = DirClusters(file, geom, label)
      OBVIOUS
    <2>4. p = PlacedFrom(geom, Resized(extent, V, sz, cl), all_files)
      BY <1>0, <2>1, <2>3, LayoutIs DEF LayoutOf
    <2>5. all_files \in Seq(DOMAIN extent) /\ Distinct(all_files)
      <3>1. all_files \in Seq(Handles) /\ Distinct(all_files) /\ Range(all_files) \subseteq DOMAIN file
        BY DEF CurrentInv, TreeInv, TreeTypes, ListMatches
      <3>2. \A i \in 1..Len(all_files) : all_files[i] \in DOMAIN extent
        BY <1>0, <3>1 DEF Range
      <3> QED
        BY <3>1, <3>2
    <2>6. /\ Extents(p.e) /\ DOMAIN p.e = DOMAIN extent
          /\ PlacedFrom(geom, Resized(p.e, V, sz, cl), all_files) = p
      BY <1>0, <2>4, <2>5, SameLayout
    <2>7. ExtentInv'
      BY <1>0, <2>2, <2>6 DEF ExtentInv
    <2>8. LayoutOf(file, p.e, all_files, geom, label) = p
      BY <2>3, <2>6 DEF LayoutOf
    <2>9. ASSUME ~dirty'
          PROVE  SomeLayout(file', extent', all_files', geom', label',
                            <<ranges', nonempty_file_cnt', data_end', data_cluster_end'>>)
      <3>1. p.d.ok /\ ranges' = RangesOf(p.d, p.e)
        BY <1>2, <2>2, <2>9
      <3>2. PICK d, e : d = p.d /\ e = p.e
        OBVIOUS
      <3>3. ranges' = RangesFor(file, all_files, geom, d, e)
        BY <3>1, <3>2, RangesForIs
      <3>4. IsLayout(file, p.e, all_files, geom, label,
                     <<ranges', nonempty_file_cnt', data_end', data_cluster_end'>>)
        BY <2>2, <2>8, <3>1, <3>2, <3>3 DEF IsLayout
      <3>5. label \in MayHaveLabel(label)
        BY DEF MayHaveLabel
      <3> QED
        BY <2>2, <3>4, <3>5 DEF SomeLayout
    <2>10. CleanIsCurrent'
      BY <2>7, <2>9, CurrentIsPrimed DEF ExtentInv
    <2> QED
      BY <2>7, <2>10
  <1> QED
    BY <1>1, <1>2 DEF vdf_drive_recalc

(* The calls of file.c keep an extent for every file.                      *)
LEMMA FileNextKeepsExtents ==
    ASSUME CurrentInv, FileNext
    PROVE  DOMAIN extent' = DOMAIN file' /\ Extents(extent')
  <1>0. DOMAIN extent = DOMAIN file /\ Extents(extent) /\ file \in [DOMAIN file -> NodeType]
    BY DEF CurrentInv, ExtentInv, TreeInv, TreeTypes
  <1>1. ASSUME NEW p, NEW h, NEW rec, NEW s, NEW c, create_file(geom, p, h, rec, NewExtent(s, c))
        PROVE  DOMAIN extent' = DOMAIN file' /\ Extents(extent')
    <2>1. IsExtent(NewExtent(s, c))
      BY DEF IsExtent, NewExtent
    <2>2. /\ extent' = [x \in DOMAIN extent \cup {h} |-> IF x = h THEN NewExtent(s, c) ELSE extent[x]]
          /\ DOMAIN file' = DOMAIN file \cup {h}
      BY <1>1 DEF create_file
    <2>3. DOMAIN extent' = DOMAIN file \cup {h}
      BY <1>0, <2>2
    <2>4. \A x \in DOMAIN extent' : IsExtent(extent'[x])
      BY <1>0, <2>1, <2>2 DEF Extents
    <2> QED
      BY <2>2, <2>3, <2>4 DEF Extents
  <1>2. ASSUME NEW h, delete_file(h)
        PROVE  DOMAIN extent' = DOMAIN file' /\ Extents(extent')
    <2>1. extent' = [x \in DOMAIN extent \ {h} |-> extent[x]] /\ DOMAIN file' = DOMAIN file \ {h}
      BY <1>2 DEF delete_file
    <2> QED
      BY <1>0, <2>1 DEF Extents
  <1>3. ASSUME extent' = extent, DOMAIN file' = DOMAIN file
        PROVE  DOMAIN extent' = DOMAIN file' /\ Extents(extent')
    BY <1>0, <1>3
  <1>4. ASSUME NEW h \in Handles, NEW s \in VirtSizes, SetFileSize(h, s)
        PROVE  DOMAIN extent' = DOMAIN file' /\ Extents(extent')
    <2>1. PICK c : c = ClustersFor(s, Bpc(geom), SizeMod)
      OBVIOUS
    <2>2. /\ h \in DOMAIN extent /\ file' = file
          /\ extent' = [extent EXCEPT ![h] = [extent[h] EXCEPT !.size = s, !.clusters = c]]
      BY <1>0, <1>4, <2>1 DEF SetFileSize
    <2>3. IsExtent([extent[h] EXCEPT !.size = s, !.clusters = c])
      <3>1. IsExtent(extent[h])
        BY <1>0, <2>2 DEF Extents
      <3>2. PICK x, y : x = extent[h] /\ y = [x EXCEPT !.size = s, !.clusters = c]
        OBVIOUS
      <3>3. IsExtent(y)
        BY ONLY <3>1, <3>2 DEF IsExtent
      <3> QED
        BY <3>2, <3>3
    <2> QED
      BY <1>0, <2>2, <2>3 DEF Extents
  <1>5. ASSUME NEW p \in Handles, AddFails(p) PROVE extent' = extent /\ DOMAIN file' = DOMAIN file
    BY <1>5 DEF AddFails, create_file_fails
  <1>6. ASSUME NEW h, NEW p, NEW n, move_file(h, p, n) PROVE extent' = extent /\ DOMAIN file' = DOMAIN file
    BY <1>6 DEF move_file
  <1>7. ASSUME NEW h, NEW n, set_name(h, n) PROVE extent' = extent /\ DOMAIN file' = DOMAIN file
    BY <1>7 DEF set_name
  <1>8. ASSUME NEW h, SetFileMeta(h) PROVE extent' = extent /\ DOMAIN file' = DOMAIN file
    BY <1>8 DEF SetFileMeta, treevars
  <1>9. CASE \E p, h \in Handles, n \in LfnExtras : AddDir(p, h, n)
    BY <1>1, <1>9 DEF AddDir
  <1>10. CASE \E p, h \in Handles, n \in LfnExtras, s \in RealSizes : AddFileReal(p, h, n, s)
    BY <1>1, <1>10 DEF AddFileReal
  <1>11. CASE \E p, h \in Handles, n \in LfnExtras, s \in VirtSizes : AddFileVirt(p, h, n, s)
    BY <1>1, <1>11 DEF AddFileVirt
  <1>12. CASE \E h \in Handles : DeleteFile(h)
    BY <1>2, <1>12 DEF DeleteFile
  <1>13. CASE \E h, p \in Handles, n \in LfnExtras : MoveFile(h, p, n)
    BY <1>3, <1>6, <1>13 DEF MoveFile
  <1>14. CASE \E h \in Handles, n \in LfnExtras : SetFileName(h, n) \/ SetFileShortname(h, n)
    BY <1>3, <1>7, <1>14 DEF SetFileName, SetFileShortname
  <1> QED
    BY <1>3, <1>4, <1>5, <1>8, <1>9, <1>10, <1>11, <1>12, <1>13, <1>14 DEF FileNext

(* CurrentInv is preserved by every step.                                  *)
LEMMA CurrentInvStep == CurrentInv /\ [Next]_vars => CurrentInv'
  <1> SUFFICES ASSUME CurrentInv, [Next]_vars PROVE CurrentInv'
    OBVIOUS
  <1>0. ExtentInv /\ CleanIsCurrent /\ TreeInv'
    BY TreeStep DEF CurrentInv
  <1>1. SUFFICES ExtentInv' /\ CleanIsCurrent'
    BY <1>0 DEF CurrentInv
  <1>2. ASSUME UNCHANGED <<treevars, layoutvars, geom, label>> PROVE ExtentInv' /\ CleanIsCurrent'
    <2>1. /\ UNCHANGED <<file, extent, all_files, dirty, ranges>>
          /\ UNCHANGED <<nonempty_file_cnt, data_end, data_cluster_end, geom, label>>
      BY <1>2 DEF treevars, layoutvars
    <2>2. ExtentInv'
      BY <1>0, <2>1 DEF ExtentInv
    <2> QED
      BY <1>0, <2>1, <2>2, CurrentIs, CurrentIsPrimed DEF ExtentInv
  <1>3. dirty' = TRUE => CleanIsCurrent'
    BY DEF CleanIsCurrent
  <1>4. CASE FileNext
    <2>1. dirty' = TRUE /\ label' = label
      BY <1>4, FileNextChangesTree DEF ChangesTree, set_drive_dirty, setupvars
    <2> QED
      BY <1>0, <1>3, <1>4, <2>1, FileNextKeepsExtents DEF ExtentInv
  <1>5. CASE Recalc
    BY <1>5, RecalcIsCurrent DEF Recalc, setupvars
  <1>6. CASE Lock
    BY <1>2, <1>6, RecalcIsCurrent DEF Lock, vdf_drive_lock
  <1>7. CASE DumpDrive
    BY <1>2, <1>7, RecalcIsCurrent DEF DumpDrive, setupvars
  <1>8. CASE \E on \in Labels : SetLabel(on)
    <2>1. label' \in BOOLEAN /\ dirty' = TRUE /\ UNCHANGED treevars
      BY <1>8, DriveAssumption DEF SetLabel, set_drive_dirty
    <2> QED
      BY <1>0, <1>3, <2>1 DEF ExtentInv, treevars
  <1>9. CASE SetLabelFails
    <2>1. /\ AllocMayFail /\ label' = FALSE
          /\ UNCHANGED <<file, extent, all_files, dirty, ranges>>
          /\ UNCHANGED <<nonempty_file_cnt, data_end, data_cluster_end, geom>>
      BY <1>9 DEF SetLabelFails, treevars, layoutvars
    <2>2. ExtentInv'
      BY <1>0, <2>1 DEF ExtentInv
    <2>3. MayHaveLabel(label) \subseteq MayHaveLabel(label')
      BY <1>0, <2>1 DEF MayHaveLabel, ExtentInv
    <2>4. ASSUME NEW E, NEW lay, SomeLayout(file, E, all_files, geom, label, lay)
          PROVE  SomeLayout(file, E, all_files, geom, label', lay)
      BY <2>3, <2>4 DEF SomeLayout
    <2>5. CleanIsCurrent'
      BY <1>0, <2>1, <2>2, <2>4, CurrentIs, CurrentIsPrimed DEF ExtentInv
    <2> QED
      BY <2>2, <2>5
  <1>10. CASE \E g \in Geoms : Recreate(g)
    <2>1. dirty' = TRUE /\ UNCHANGED <<file, extent, label>>
      BY <1>10 DEF Recreate, relist_root
    <2> QED
      BY <1>0, <1>3, <2>1 DEF ExtentInv
  <1>11. CASE Unlock \/ Free \/ UNCHANGED vars
    BY <1>2, <1>11 DEF Unlock, Free, vars, setupvars
  <1>12. CASE \E s \in Serials : SetSerial(s)
    BY <1>2, <1>12 DEF SetSerial
  <1> QED
    BY <1>4, <1>5, <1>6, <1>7, <1>8, <1>9, <1>10, <1>11, <1>12 DEF Next, DriveNext, DumpDriveFails

(* VDF_DIRTY tells the truth on every drive: as long as it is clear, the   *)
(* extents, the ranges and the counters are what vdf_drive_recalc() would  *)
(* compute now, whatever was called since it last did (but for the label   *)
(* that a failed strdup() loses).                                          *)
THEOREM CleanDriveIsCurrent == Spec => []CleanIsCurrent
  <1>1. CurrentInv => CleanIsCurrent
    BY DEF CurrentInv
  <1> QED
    BY <1>1, CurrentInvInit, CurrentInvStep, PTL DEF Spec

-----------------------------------------------------------------------------
(* What is known of a geometry and of the counters of the first loop.      *)
GeomOK(g) == g.spc \in Nat \ {0} /\ g.sectors \in Nat /\ g.data_start \in Nat

IsCount(d) ==
    /\ d = [cend |-> d.cend, dend |-> d.dend, nonempty |-> d.nonempty, ok |-> d.ok]
    /\ d.cend \in Nat /\ d.dend \in Nat /\ d.nonempty \in Nat /\ d.ok \in BOOLEAN

(* What file_recalc_offsize() does, without wrap-around, in numbers.       *)
LEMMA OffsizeNumbers ==
    ASSUME NEW g, GeomOK(g), NEW d, IsCount(d), NEW f \in ExtentType
    PROVE  /\ IsCount(OffsizeDrive(g, d, f)) /\ OffsizeFile(g, d, f) \in ExtentType
           /\ OffsizeFile(g, d, f).size = f.size /\ OffsizeFile(g, d, f).clusters = f.clusters
  <1>1. f.clusters \in Nat /\ g.spc \in Nat /\ f.size \in Nat
    BY DEF GeomOK, ExtentType
  <1>2. f.clusters * g.spc \in Nat
    BY <1>1
  <1>3. PICK m \in Nat : m = f.clusters * g.spc
    BY <1>2
  <1>4. PICK dd : dd = OffsizeDrive(g, d, f)
    OBVIOUS
  <1>5. IsCount(dd)
    <2>1. CASE f.size = 0
      BY <1>4, <2>1 DEF OffsizeDrive
    <2>2. CASE f.size # 0
      <3>1. PICK y \in Nat : y = IF d.dend >= g.sectors THEN d.dend ELSE d.dend + m
        BY DEF IsCount
      <3>2. dd = [cend |-> d.cend + f.clusters, dend |-> y, nonempty |-> d.nonempty + 1,
                  ok |-> y < g.sectors]
        BY <1>3, <1>4, <2>2, <3>1 DEF OffsizeDrive
      <3>3. d.cend + f.clusters \in Nat /\ d.nonempty + 1 \in Nat /\ (y < g.sectors) \in BOOLEAN
        BY <1>1 DEF IsCount
      <3> QED
        BY <3>2, <3>3 DEF IsCount
    <2> QED
      BY <2>1, <2>2
  <1>6. CASE f.size = 0
    <2>1. OffsizeFile(g, d, f) = [f EXCEPT !.start = 0]
      BY <1>6 DEF OffsizeFile
    <2> QED
      BY <1>4, <1>5, <2>1 DEF ExtentType
  <1>7. CASE f.size # 0
    <2>1. PICK ss \in Nat, es \in Nat : /\ ss = IF d.dend < g.sectors THEN d.dend ELSE f.startsect
                                       /\ es = IF dd.ok THEN dd.dend ELSE f.endsect
      BY <1>5 DEF IsCount, ExtentType
    <2>2. OffsizeFile(g, d, f) = [f EXCEPT !.start = d.cend, !.end = dd.cend,
                                           !.startsect = ss, !.endsect = es]
      BY <1>4, <1>7, <2>1 DEF OffsizeFile
    <2>3. d.cend \in Nat /\ dd.cend \in Nat
      BY <1>5 DEF IsCount
    <2> QED
      BY <1>4, <1>5, <2>2, <2>3 DEF ExtentType
  <1> QED
    BY <1>6, <1>7

(* A list of ranges that fills the data area up to the drive's counters.   *)
Tile(w, g, d) ==
    /\ w \in Seq(RangeType)
    /\ Len(w) = d.nonempty
    /\ d.dend = g.data_start + (d.cend - FirstCluster) * g.spc /\ d.cend >= FirstCluster
    /\ Len(w) = 0 => d.dend = g.data_start /\ d.cend = FirstCluster
    /\ Len(w) > 0 => /\ w[1].sectstart = g.data_start /\ w[1].fatstart = FirstCluster
                     /\ w[Len(w)].sectend = d.dend /\ w[Len(w)].fatend = d.cend
                     /\ d.dend < g.sectors
    /\ \A i \in 1..(Len(w) - 1) : /\ w[i].sectend = w[i + 1].sectstart
                                  /\ w[i].fatend = w[i + 1].fatstart
    /\ \A i \in 1..Len(w) :
         /\ w[i].sectend - w[i].sectstart = (w[i].fatend - w[i].fatstart) * g.spc
         /\ w[i].sectend = g.data_start + (w[i].fatend - FirstCluster) * g.spc
         /\ w[i].sectstart <= w[i].sectend /\ w[i].sectend <= d.dend /\ w[i].fatend >= FirstCluster
    /\ \A i, j \in 1..Len(w) : i < j => w[i].sectend <= w[j].sectstart

(* One more file that is not empty and fits.                               *)
LEMMA TileNext ==
    ASSUME NEW g, GeomOK(g), NEW d, IsCount(d), NEW w, Tile(w, g, d), NEW h \in Handles,
           NEW f \in ExtentType, f.size # 0, OffsizeDrive(g, d, f).ok
    PROVE  /\ Tile(Append(w, RangeOf(g, h, OffsizeFile(g, d, f))), g, OffsizeDrive(g, d, f))
           /\ OffsizeFile(g, d, f).endsect = RangeOf(g, h, OffsizeFile(g, d, f)).sectend
           /\ RangeOf(g, h, OffsizeFile(g, d, f)).file = h
  <1>1. PICK c \in Nat, spc \in Nat, ds \in Nat, sc \in Nat :
             c = f.clusters /\ spc = g.spc /\ ds = g.data_start /\ sc = g.sectors
    BY DEF GeomOK, ExtentType
  <1>2. PICK ce \in Nat, de \in Nat, ne \in Nat : ce = d.cend /\ de = d.dend /\ ne = d.nonempty
    BY DEF IsCount
  <1>3. c * spc \in Nat
    OBVIOUS
  <1>4. PICK m \in Nat : m = c * spc
    BY <1>3
  <1>5. PICK dd, x, r : /\ dd = OffsizeDrive(g, d, f) /\ x = OffsizeFile(g, d, f)
                        /\ r = RangeOf(g, h, x)
    OBVIOUS
  <1>6. /\ dd.ok = (dd.dend < g.sectors) /\ dd.cend = ce + c /\ dd.nonempty = ne + 1
        /\ dd.dend = IF de >= sc THEN de ELSE de + m
    BY <1>1, <1>2, <1>4, <1>5 DEF OffsizeDrive
  <1>7. de < sc /\ dd.dend = de + m /\ de + m < sc
    <2>1. dd.dend < sc
      BY <1>1, <1>5, <1>6
    <2> QED
      BY ONLY <1>6, <2>1, de \in Nat, sc \in Nat, m \in Nat
  <1>8. x = [f EXCEPT !.start = ce, !.end = ce + c, !.startsect = de, !.endsect = de + m]
    BY <1>1, <1>2, <1>5, <1>6, <1>7 DEF OffsizeFile
  <1>9. /\ x.clusters = c /\ x.start = ce /\ x.end = ce + c /\ x.startsect = de /\ x.endsect = de + m
    BY <1>1, <1>8 DEF ExtentType
  <1>10. r = [file |-> h, sectstart |-> de, sectend |-> de + m, fatstart |-> ce, fatend |-> ce + c]
    BY <1>1, <1>4, <1>5, <1>9 DEF RangeOf
  <1>11. r \in RangeType
    BY <1>10 DEF RangeType
  <1>12. PICK n \in Nat : n = Len(w) /\ n = ne
    BY <1>2 DEF Tile
  <1>13. PICK v : v = Append(w, r)
    OBVIOUS
  <1>14. /\ v \in Seq(RangeType) /\ Len(v) = n + 1 /\ v[n + 1] = r /\ \A i \in 1..n : v[i] = w[i]
    BY <1>11, <1>12, <1>13 DEF Tile
  <1>15. de = ds + (ce - 2) * spc /\ ce >= 2
    BY <1>1, <1>2 DEF Tile, FirstCluster
  <1>16. de + m = ds + (ce + c - 2) * spc /\ m = (ce + c - ce) * spc
    <2>1. PICK q \in Nat : q = ce - 2
      BY <1>15
    <2>2. ASSUME NEW a \in Nat, NEW b \in Nat, NEW k \in Nat PROVE (a + b) * k = a * k + b * k
      OBVIOUS
    <2>3. (q + c) * spc = q * spc + c * spc
      BY <2>2
    <2>4. ce + c - 2 = q + c /\ ce + c - ce = c /\ q * spc \in Nat
      BY <2>1
    <2> QED
      BY <1>4, <1>15, <2>1, <2>3, <2>4
  <1>17. \A i \in 1..n :
         /\ w[i].sectend - w[i].sectstart = (w[i].fatend - w[i].fatstart) * spc
         /\ w[i].sectend = ds + (w[i].fatend - 2) * spc
         /\ w[i].sectstart <= w[i].sectend /\ w[i].sectend <= de /\ w[i].fatend >= 2
         /\ w[i].sectend \in Nat
    <2>1. \A i \in 1..n :
         /\ w[i].sectend - w[i].sectstart = (w[i].fatend - w[i].fatstart) * g.spc
         /\ w[i].sectend = g.data_start + (w[i].fatend - 2) * g.spc
         /\ w[i].sectstart <= w[i].sectend /\ w[i].sectend <= d.dend /\ w[i].fatend >= 2
      BY <1>12, Zenon DEF Tile, FirstCluster
    <2>2. \A i \in 1..n : w[i] \in RangeType
      BY <1>12, ElementOfSeq DEF Tile
    <2>3. \A i \in 1..n : w[i].sectend \in Nat
      BY <2>2 DEF RangeType
    <2> QED
      BY <1>1, <1>2, <2>1, <2>3
  <1>18. r.sectstart = de /\ r.sectend = de + m /\ r.fatstart = ce /\ r.fatend = ce + c /\ r.file = h
    BY <1>10
  <1>19. \A i \in 1..(n + 1) :
         /\ v[i].sectend - v[i].sectstart = (v[i].fatend - v[i].fatstart) * spc
         /\ v[i].sectend = ds + (v[i].fatend - 2) * spc
         /\ v[i].sectstart <= v[i].sectend /\ v[i].sectend <= de + m /\ v[i].fatend >= 2
    <2> SUFFICES ASSUME NEW i \in 1..(n + 1)
                 PROVE  /\ v[i].sectend - v[i].sectstart = (v[i].fatend - v[i].fatstart) * spc
                        /\ v[i].sectend = ds + (v[i].fatend - 2) * spc
                        /\ v[i].sectstart <= v[i].sectend /\ v[i].sectend <= de + m /\ v[i].fatend >= 2
      OBVIOUS
    <2>1. CASE i = n + 1
      <3>1. v[i] = r
        BY <1>14, <2>1
      <3>2. de + m - de = m /\ de <= de + m /\ ce + c >= 2
        BY <1>15
      <3>3. r.sectend - r.sectstart = (r.fatend - r.fatstart) * spc
        BY ONLY <1>16, <1>18, <3>2
      <3>4. r.sectend = ds + (r.fatend - 2) * spc
        BY ONLY <1>16, <1>18
      <3>5. r.sectstart <= r.sectend /\ r.sectend <= de + m /\ r.fatend >= 2
        <4>1. de + m <= de + m
          OBVIOUS
        <4> QED
          BY ONLY <1>18, <3>2, <4>1
      <3> QED
        BY ONLY <3>1, <3>3, <3>4, <3>5
    <2>2. CASE i \in 1..n
      <3>1. v[i] = w[i]
        BY <1>14, <2>2
      <3>2. /\ w[i].sectend - w[i].sectstart = (w[i].fatend - w[i].fatstart) * spc
            /\ w[i].sectend = ds + (w[i].fatend - 2) * spc
            /\ w[i].sectstart <= w[i].sectend /\ w[i].sectend <= de /\ w[i].fatend >= 2
            /\ w[i].sectend \in Nat
        BY ONLY <1>17, <2>2
      <3>3. w[i].sectend <= de + m
        BY ONLY <3>2, de \in Nat, m \in Nat
      <3> QED
        BY ONLY <3>1, <3>2, <3>3
    <2> QED
      BY <2>1, <2>2
  <1>20. \A i, j \in 1..(n + 1) : i < j => v[i].sectend <= v[j].sectstart
    <2> SUFFICES ASSUME NEW i \in 1..(n + 1), NEW j \in 1..(n + 1), i < j
                 PROVE  v[i].sectend <= v[j].sectstart
      OBVIOUS
    <2>1. i \in 1..n
      OBVIOUS
    <2>2. CASE j = n + 1
      BY <1>14, <1>17, <1>18, <2>1, <2>2
    <2>3. CASE j \in 1..n
      BY <1>12, <1>14, <2>1, <2>3 DEF Tile
    <2> QED
      BY <2>2, <2>3
  <1>21. \A i \in 1..n : v[i].sectend = v[i + 1].sectstart /\ v[i].fatend = v[i + 1].fatstart
    <2> SUFFICES ASSUME NEW i \in 1..n
                 PROVE  v[i].sectend = v[i + 1].sectstart /\ v[i].fatend = v[i + 1].fatstart
      OBVIOUS
    <2>1. CASE i = n
      <3>1. w[n].sectend = de /\ w[n].fatend = ce
        BY <1>2, <1>12, <2>1 DEF Tile
      <3>2. v[i] = w[n] /\ v[i + 1] = r
        BY <1>14, <2>1
      <3> QED
        BY <1>18, <3>1, <3>2
    <2>2. CASE i \in 1..(n - 1)
      <3>1. i + 1 \in 1..n
        BY <2>2
      <3> QED
        BY <1>12, <1>14, <2>2, <3>1 DEF Tile
    <2> QED
      BY <2>1, <2>2
  <1>22. v[1].sectstart = ds /\ v[1].fatstart = 2
    <2>1. CASE n = 0
      BY <1>1, <1>2, <1>12, <1>14, <1>18, <2>1 DEF Tile, FirstCluster
    <2>2. CASE n > 0
      BY <1>1, <1>12, <1>14, <2>2 DEF Tile, FirstCluster
    <2> QED
      BY <2>1, <2>2
  <1>23. Tile(v, g, dd)
    <2>1. /\ dd.nonempty = n + 1 /\ dd.dend = de + m /\ dd.cend = ce + c /\ ce + c >= 2 /\ de + m < sc
          /\ n + 1 # 0 /\ n + 1 > 0 /\ n + 1 - 1 = n
      BY <1>6, <1>7, <1>12, <1>15
    <2> QED
      BY ONLY <1>1, <1>14, <1>16, <1>18, <1>19, <1>20, <1>21, <1>22, <2>1 DEF Tile, FirstCluster
  <1> QED
    BY <1>5, <1>9, <1>13, <1>18, <1>23

(* The second loop of vdf_drive_recalc(); W[k] is what it has written      *)
(* after k turns.                                                          *)
WriteNext(w, f, a, g, e, k) ==
    IF HasRange(f[a[k]].dir, e[a[k]]) THEN Append(w, RangeOf(g, a[k], e[a[k]])) ELSE w

Writes(W, f, a, g, e) ==
    /\ W[0] = <<>>
    /\ \A k \in 1..Len(a) : W[k] = WriteNext(W[k - 1], f, a, g, e, k)
    /\ WrittenOf(f, a, g, e) = W[Len(a)]

(* The loop that writes drive->ranges, as a sequence of its steps.         *)
LEMMA WrittenIs ==
    ASSUME NEW f, NEW a, NEW g, NEW e, Len(a) \in Nat
    PROVE  \E W : Writes(W, f, a, g, e)
  <1> DEFINE Step(x, k) == WriteNext(x, f, a, g, e, k)
             Is(u, m) == u = [k \in 0..m |-> IF k = 0 THEN <<>> ELSE Step(u[k - 1], k)]
             S == {m \in Nat : \E u : Is(u, m)}
             F == CHOOSE u : Is(u, Len(a))
  <1> HIDE DEF Step
  <1>1. 0 \in S
    <2>1. Is([k \in 0..0 |-> <<>>], 0)
      OBVIOUS
    <2> HIDE DEF Is
    <2> QED
      BY <2>1
  <1>2. ASSUME NEW m \in Nat, m \in S PROVE m + 1 \in S
    <2>1. PICK u : Is(u, m)
      BY <1>2
    <2> DEFINE v == [k \in 0..(m + 1) |-> IF k <= m THEN u[k] ELSE Step(u[m], m + 1)]
    <2>2. Is(v, m + 1)
      BY <2>1
    <2> HIDE DEF Is, v
    <2> QED
      BY <2>2
  <1>3. Len(a) \in S
    <2> HIDE DEF S
    <2> QED
      BY <1>1, <1>2, SetInduction
  <1>4. Is(F, Len(a))
    <2> HIDE DEF Is
    <2> QED
      BY <1>3
  <1>5. WrittenOf(f, a, g, e) = F[Len(a)]
    BY DEF WrittenOf, Step, WriteNext
  <1> HIDE DEF F
  <1>6. F[0] = <<>> /\ \A k \in 1..Len(a) : F[k] = Step(F[k - 1], k)
    <2>1. PICK n : n = Len(a)
      OBVIOUS
    <2>2. n \in Nat /\ F = [k \in 0..n |-> IF k = 0 THEN <<>> ELSE Step(F[k - 1], k)]
      BY <1>4, <2>1
    <2>3. F[0] = <<>> /\ \A k \in 1..n : F[k] = Step(F[k - 1], k)
      BY ONLY <2>2
    <2> QED
      BY <2>1, <2>3
  <1> QED
    BY <1>5, <1>6 DEF Step, Writes

(* Extents with numbers in them stay so.                                   *)
LEMMA NumbersAreExtents ==
    ASSUME NEW D, NEW E \in [D -> ExtentType]
    PROVE  Extents(E) /\ DOMAIN E = D
  <1>1. ASSUME NEW x \in ExtentType PROVE IsExtent(x)
    BY DEF ExtentType, IsExtent
  <1> QED
    BY <1>1 DEF Extents

(* The placing loop keeps the extents and the counters numbers.            *)
LEMMA PlacesNumbers ==
    ASSUME NEW g, GeomOK(g), NEW D, NEW E \in [D -> ExtentType], NEW fs \in Seq(D), Distinct(fs),
           NEW P, Places(P, g, E, fs)
    PROVE  \A k \in 0..Len(fs) : IsCount(P[k].d) /\ \A h \in D : P[k].e[h] \in ExtentType
  <1>0. PICK n \in Nat : n = Len(fs)
    OBVIOUS
  <1>1. Extents(E) /\ DOMAIN E = D
    BY NumbersAreExtents
  <1>2. \A k \in 0..n : LoopOK(P, E, fs, k)
    BY <1>0, <1>1, PlacesAre
  <1>3. /\ P[0] = [d |-> LayoutStart(g), e |-> E]
        /\ \A k \in 1..n : P[k] = PlaceNext(g, P[k - 1], fs[k])
    BY <1>0, Zenon DEF Places
  <1>4. \A k \in 1..n : fs[k] \in D
    BY <1>0, ElementOfSeq, LenProperties
  <1> DEFINE Num(k) == IsCount(P[k].d) /\ \A h \in D : P[k].e[h] \in ExtentType
             S == {k \in Nat : k <= n => Num(k)}
  <1>5. 0 \in S
    <2>1. P[0].d = LayoutStart(g) /\ P[0].e = E
      BY <1>3
    <2>2. IsCount(LayoutStart(g))
      BY DEF IsCount, LayoutStart, FirstCluster, GeomOK
    <2> QED
      BY <2>1, <2>2
  <1>6. ASSUME NEW k \in Nat, k \in S PROVE k + 1 \in S
    <2>1. SUFFICES ASSUME k + 1 <= n PROVE Num(k + 1)
      OBVIOUS
    <2>2. Num(k)
      BY <1>6, <2>1
    <2>3. k + 1 \in 1..n /\ k + 1 - 1 = k /\ k \in 0..n
      BY <2>1
    <2>4. PICK acc, nxt, h : acc = P[k] /\ nxt = P[k + 1] /\ h = fs[k + 1]
      OBVIOUS
    <2>5. IsTurn(g, E, acc, h, nxt)
      <3>1. IsPlacing(acc, E)
        BY <1>2, <2>3, <2>4 DEF LoopOK
      <3>2. nxt = PlaceNext(g, acc, h) /\ h \in DOMAIN E
        BY <1>1, <1>3, <1>4, <2>3, <2>4
      <3> QED
        BY <3>1, <3>2 DEF IsTurn
    <2>6. /\ \A x \in DOMAIN E : x # h => nxt.e[x] = acc.e[x]
          /\ acc.d.ok => nxt.e[h] = OffsizeFile(g, acc.d, acc.e[h])
          /\ nxt.d = IF acc.d.ok THEN OffsizeDrive(g, acc.d, acc.e[h]) ELSE acc.d
          /\ ~acc.d.ok => nxt = acc
      BY ONLY <2>5, PlaceNextIs
    <2>7. IsCount(acc.d) /\ (\A x \in D : acc.e[x] \in ExtentType) /\ h \in D
      BY <1>1, <2>2, <2>4, <2>5 DEF IsTurn
    <2>8. CASE ~acc.d.ok
      BY <2>2, <2>4, <2>6, <2>8
    <2>9. CASE acc.d.ok
      <3>1. /\ IsCount(OffsizeDrive(g, acc.d, acc.e[h]))
            /\ OffsizeFile(g, acc.d, acc.e[h]) \in ExtentType
        BY <2>7, OffsizeNumbers
      <3>2. IsCount(nxt.d) /\ nxt.e[h] \in ExtentType
        BY <2>6, <2>9, <3>1
      <3>3. \A x \in D : nxt.e[x] \in ExtentType
        BY <1>1, <2>6, <2>7, <3>2
      <3> QED
        BY <2>4, <3>2, <3>3
    <2> QED
      BY <2>8, <2>9
  <1>7. \A k \in Nat : k \in S
    <2> HIDE DEF S
    <2> QED
      BY <1>5, <1>6, SetInduction
  <1> QED
    BY <1>0, <1>7

(* Whose the ranges are, after k turns.                                    *)
Owned(w, a, e, k) ==
    /\ \A i, j \in 1..Len(w) : w[i].file = w[j].file => i = j
    /\ \A i \in 1..Len(w) : \E j \in 1..k : w[i].file = a[j] /\ e[a[j]].size # 0
    /\ \A j \in 1..k : e[a[j]].size # 0 => \E i \in 1..Len(w) : w[i].file = a[j]
    /\ \A i \in 1..Len(w) : e[w[i].file].endsect = w[i].sectend
    /\ Len(w) <= k

(* A file without clusters, which the second loop of                       *)
(* vdf_drive_recalc() passes over.                                         *)
LEMMA OwnedSkip ==
    ASSUME NEW w, Len(w) \in Nat, NEW a, NEW e, NEW k \in Nat, Owned(w, a, e, k), e[a[k + 1]].size = 0
    PROVE  Owned(w, a, e, k + 1)
  <1>1. \A j \in 1..k : j \in 1..(k + 1)
    OBVIOUS
  <1>2. \A j \in 1..(k + 1) : j = k + 1 \/ j \in 1..k
    OBVIOUS
  <1>3. Len(w) <= k + 1
    BY DEF Owned
  <1> QED
    BY <1>1, <1>2, <1>3 DEF Owned

(* A file with clusters, for which the loop writes a range.                *)
LEMMA OwnedNext ==
    ASSUME NEW w \in Seq(RangeType), NEW a, NEW e, NEW k \in Nat, Owned(w, a, e, k),
           \A i, j \in 1..(k + 1) : a[i] = a[j] => i = j,
           NEW r \in RangeType, r.file = a[k + 1], e[a[k + 1]].endsect = r.sectend,
           e[a[k + 1]].size # 0
    PROVE  Owned(Append(w, r), a, e, k + 1)
  <1>1. PICK n \in Nat : n = Len(w)
    OBVIOUS
  <1>2. PICK v : v = Append(w, r)
    OBVIOUS
  <1>3. Len(v) = n + 1 /\ v[n + 1] = r /\ \A i \in 1..n : v[i] = w[i]
    BY <1>1, <1>2
  <1>4. /\ \A j \in 1..k : j \in 1..(k + 1) /\ j # k + 1
        /\ \A j \in 1..(k + 1) : j = k + 1 \/ j \in 1..k
        /\ \A j \in 1..n : j \in 1..(n + 1)
        /\ \A j \in 1..(n + 1) : j = n + 1 \/ j \in 1..n
        /\ k + 1 \in 1..(k + 1) /\ n + 1 \in 1..(n + 1)
    OBVIOUS
  <1>5. /\ \A i, j \in 1..n : w[i].file = w[j].file => i = j
        /\ \A i \in 1..n : \E j \in 1..k : w[i].file = a[j] /\ e[a[j]].size # 0
        /\ \A j \in 1..k : e[a[j]].size # 0 => \E i \in 1..n : w[i].file = a[j]
        /\ \A i \in 1..n : e[w[i].file].endsect = w[i].sectend
        /\ n <= k
    BY <1>1 DEF Owned
  <1>6. \A i \in 1..n : w[i].file # r.file
    BY <1>4, <1>5
  <1>7. \A i, j \in 1..(n + 1) : v[i].file = v[j].file => i = j
    BY <1>3, <1>4, <1>5, <1>6, SMTT(40)
  <1>8. \A i \in 1..(n + 1) : \E j \in 1..(k + 1) : v[i].file = a[j] /\ e[a[j]].size # 0
    <2>1. ASSUME NEW i \in 1..n PROVE \E j \in 1..(k + 1) : v[i].file = a[j] /\ e[a[j]].size # 0
      <3>1. PICK j \in 1..k : w[i].file = a[j] /\ e[a[j]].size # 0
        BY <1>5
      <3> QED
        BY <1>3, <1>4, <3>1
    <2>2. \E j \in 1..(k + 1) : v[n + 1].file = a[j] /\ e[a[j]].size # 0
      BY <1>3, <1>4
    <2> QED
      BY <1>4, <2>1, <2>2
  <1>9. \A j \in 1..(k + 1) : e[a[j]].size # 0 => \E i \in 1..(n + 1) : v[i].file = a[j]
    BY <1>3, <1>4, <1>5
  <1>10. \A i \in 1..(n + 1) : e[v[i].file].endsect = v[i].sectend
    BY <1>3, <1>4, <1>5
  <1>11. n + 1 <= k + 1
    BY <1>5
  <1> QED
    BY ONLY <1>2, <1>3, <1>7, <1>8, <1>9, <1>10, <1>11, Zenon DEF Owned

(* The ranges that a recalculation writes, when every file has fitted and  *)
(* every directory of the list has a size.                                 *)
LEMMA LayoutTiles ==
    ASSUME NEW g, GeomOK(g), NEW D, D \subseteq Handles, NEW E \in [D -> ExtentType],
           NEW a \in Seq(D), Distinct(a), NEW p, p = PlacedFrom(g, E, a), p.d.ok,
           NEW f, \A j \in 1..Len(a) : f[a[j]].dir => p.e[a[j]].size # 0,
           NEW w, w = WrittenOf(f, a, g, p.e)
    PROVE  Tile(w, g, p.d) /\ Owned(w, a, p.e, Len(a))
  <1>0. PICK n \in Nat : n = Len(a)
    OBVIOUS
  <1>1. Extents(E) /\ DOMAIN E = D
    BY NumbersAreExtents
  <1>2. PICK P : Places(P, g, E, a)
    BY <1>0, PlacedFromIs, Zenon
  <1>3. \A k \in 0..n : LoopOK(P, E, a, k)
    BY <1>0, <1>1, <1>2, PlacesAre
  <1>4. \A k \in 0..n : IsCount(P[k].d) /\ \A h \in D : P[k].e[h] \in ExtentType
    BY <1>0, <1>2, PlacesNumbers
  <1>5. PICK e : e = p.e
    OBVIOUS
  <1>6. PICK W : Writes(W, f, a, g, e)
    BY <1>0, WrittenIs, Zenon
  <1>7. /\ P[0] = [d |-> LayoutStart(g), e |-> E] /\ p = P[n]
        /\ \A k \in 1..n : P[k] = PlaceNext(g, P[k - 1], a[k])
    BY <1>0, <1>2, Zenon DEF Places
  <1>8. /\ W[0] = <<>> /\ w = W[n]
        /\ \A k \in 1..n : W[k] = WriteNext(W[k - 1], f, a, g, e, k)
    BY <1>0, <1>5, <1>6, Zenon DEF Writes
  <1>9. DOMAIN a = 1..n /\ \A k \in 1..n : a[k] \in D
    BY <1>0, ElementOfSeq, LenProperties
  <1>10. \A i, j \in 1..n : a[i] = a[j] => i = j
    BY <1>9 DEF Distinct
  <1>11. \A j \in 1..n : e[a[j]] = P[j].e[a[j]]
    <2>1. LoopOK(P, E, a, n)
      BY <1>3
    <2> QED
      BY <1>5, <1>7, <2>1 DEF LoopOK
  <1>12. \A j \in 1..n : HasRange(f[a[j]].dir, e[a[j]]) <=> e[a[j]].size # 0
    BY <1>0, <1>5 DEF HasRange
  <1> DEFINE Good(k) == P[k].d.ok => Tile(W[k], g, P[k].d) /\ Owned(W[k], a, e, k)
             S == {k \in Nat : k <= n => Good(k)}
  <1>13. 0 \in S
    <2>1. P[0].d = LayoutStart(g)
      BY <1>7
    <2>2. PICK d : d = LayoutStart(g)
      OBVIOUS
    <2>3. d.cend = 2 /\ d.dend = g.data_start /\ d.nonempty = 0
      BY <2>2 DEF LayoutStart, FirstCluster
    <2>4. g.data_start = g.data_start + (2 - 2) * g.spc /\ 2 >= 2
      BY DEF GeomOK
    <2>5. <<>> \in Seq(RangeType) /\ Len(<<>>) = 0 /\ 1..0 = {} /\ 1..(0 - 1) = {} /\ ~(0 > 0) /\ 0 <= 0
      OBVIOUS
    <2>6. Tile(<<>>, g, d)
      BY ONLY <2>3, <2>4, <2>5 DEF Tile, FirstCluster
    <2>7. Owned(<<>>, a, e, 0)
      BY ONLY <2>5 DEF Owned
    <2> QED
      BY <1>8, <2>1, <2>2, <2>6, <2>7
  <1>14. ASSUME NEW k \in Nat, k \in S PROVE k + 1 \in S
    <2>1. SUFFICES ASSUME k + 1 <= n, P[k + 1].d.ok
                   PROVE  Tile(W[k + 1], g, P[k + 1].d) /\ Owned(W[k + 1], a, e, k + 1)
      OBVIOUS
    <2>2. k + 1 \in 1..n /\ k + 1 - 1 = k /\ k \in 0..n /\ \A i \in 1..(k + 1) : i \in 1..n
      BY <2>1
    <2>3. PICK acc, nxt, h, y, x : /\ acc = P[k] /\ nxt = P[k + 1] /\ h = a[k + 1]
                                   /\ y = acc.e[h] /\ x = e[h]
      OBVIOUS
    <2>4. IsTurn(g, E, acc, h, nxt)
      <3>1. IsPlacing(acc, E)
        BY <1>3, <2>2, <2>3 DEF LoopOK
      <3>2. nxt = PlaceNext(g, acc, h) /\ h \in DOMAIN E
        BY <1>1, <1>7, <1>9, <2>2, <2>3
      <3> QED
        BY <3>1, <3>2 DEF IsTurn
    <2>5. /\ acc.d.ok => nxt.e[h] = OffsizeFile(g, acc.d, acc.e[h])
          /\ nxt.d = IF acc.d.ok THEN OffsizeDrive(g, acc.d, acc.e[h]) ELSE acc.d
      BY ONLY <2>4, PlaceNextIs
    <2>6. acc.d.ok
      BY <2>1, <2>3, <2>5
    <2>7. Tile(W[k], g, acc.d) /\ Owned(W[k], a, e, k)
      BY <1>14, <2>1, <2>3, <2>6
    <2>8. IsCount(acc.d) /\ y \in ExtentType /\ h \in Handles
      BY <1>4, <1>9, <2>2, <2>3
    <2>9. x = OffsizeFile(g, acc.d, y) /\ nxt.d = OffsizeDrive(g, acc.d, y)
      BY <1>11, <2>2, <2>3, <2>5, <2>6
    <2>10. x \in ExtentType /\ x.size = y.size
      BY <2>8, <2>9, OffsizeNumbers
    <2>11. W[k + 1] = IF x.size # 0 THEN Append(W[k], RangeOf(g, h, x)) ELSE W[k]
      BY <1>8, <1>12, <2>2, <2>3 DEF WriteNext
    <2>12. CASE x.size = 0
      <3>1. nxt.d = acc.d
        BY <2>9, <2>10, <2>12 DEF OffsizeDrive
      <3>2. W[k + 1] = W[k]
        BY <2>11, <2>12
      <3>3. Len(W[k]) \in Nat
        BY <2>7 DEF Tile
      <3>4. Owned(W[k], a, e, k + 1)
        BY <2>3, <2>7, <2>12, <3>3, OwnedSkip
      <3> QED
        BY <2>3, <2>7, <3>1, <3>2, <3>4
    <2>13. CASE x.size # 0
      <3>1. PICK r, u : r = RangeOf(g, h, x) /\ u = W[k]
        OBVIOUS
      <3>2. W[k + 1] = Append(u, r)
        BY <2>11, <2>13, <3>1
      <3>3. Tile(u, g, acc.d) /\ y.size # 0 /\ OffsizeDrive(g, acc.d, y).ok
        BY <2>1, <2>3, <2>7, <2>9, <2>10, <2>13, <3>1
      <3>4. Tile(Append(u, r), g, nxt.d) /\ x.endsect = r.sectend /\ r.file = h
        BY <2>8, <2>9, <3>1, <3>3, TileNext
      <3>5. u \in Seq(RangeType)
        BY <3>3 DEF Tile
      <3>6. r \in RangeType
        <4>1. x.clusters * g.spc \in Nat
          BY <2>10 DEF ExtentType, GeomOK
        <4>2. PICK m \in Nat : m = x.clusters * g.spc
          BY <4>1
        <4>3. x.startsect + m \in Nat /\ x.startsect \in Nat /\ x.start \in Nat /\ x.end \in Nat
          BY <2>10 DEF ExtentType
        <4> QED
          BY <2>8, <3>1, <4>2, <4>3 DEF RangeOf, RangeType
      <3>7. \A i, j \in 1..(k + 1) : a[i] = a[j] => i = j
        BY <1>10, <2>2
      <3>8. Owned(u, a, e, k)
        BY <2>7, <3>1
      <3>9. r.file = a[k + 1] /\ e[a[k + 1]].endsect = r.sectend /\ e[a[k + 1]].size # 0
        BY <2>3, <2>13, <3>4
      <3>10. Owned(Append(u, r), a, e, k + 1)
        BY <3>5, <3>6, <3>7, <3>8, <3>9, OwnedNext
      <3> QED
        BY <2>3, <3>2, <3>4, <3>10
    <2> QED
      BY <2>12, <2>13
  <1>15. n \in S
    <2> HIDE DEF S
    <2> QED
      BY <1>13, <1>14, SetInduction
  <1> QED
    BY <1>0, <1>5, <1>7, <1>8, <1>15

(* qsort() leaves ranges that are in order as they are.                    *)
LEMMA SortedSame ==
    ASSUME NEW s \in Seq(RangeType), \A i, j \in 1..Len(s) : i < j => s[i].sectstart <= s[j].sectstart
    PROVE  Sorted(s) = s
  <1>0. PICK n \in Nat : n = Len(s)
    OBVIOUS
  <1>1. DOMAIN s = 1..n /\ \A i \in 1..n : s[i].sectstart \in Nat
    <2>1. DOMAIN s = 1..n /\ \A i \in 1..n : s[i] \in RangeType
      BY <1>0, ElementOfSeq, LenProperties
    <2> QED
      BY <2>1 DEF RangeType
  <1>2. ASSUME NEW i \in 1..n PROVE PlaceOf(s, i) = i
    <2>1. {j \in DOMAIN s : \/ s[j].sectstart < s[i].sectstart
                            \/ s[j].sectstart = s[i].sectstart /\ j < i} = 1..(i - 1)
      <3>1. ASSUME NEW j \in 1..n
            PROVE  (\/ s[j].sectstart < s[i].sectstart
                    \/ s[j].sectstart = s[i].sectstart /\ j < i) <=> j < i
        <4>1. PICK u \in Nat, v \in Nat : u = s[i].sectstart /\ v = s[j].sectstart
          BY <1>1
        <4>2. (j < i => v <= u) /\ (i < j => u <= v)
          BY <1>0, <4>1
        <4>3. (v < u \/ (v = u /\ j < i)) <=> j < i
          <5>1. CASE j < i
            BY <4>2, <5>1
          <5>2. CASE i < j
            BY <4>2, <5>2
          <5>3. CASE i = j
            BY <4>1, <5>3
          <5> QED
            BY <5>1, <5>2, <5>3
        <4> QED
          BY <4>1, <4>3
      <3>2. \A j : j \in 1..(i - 1) <=> j \in 1..n /\ j < i
        OBVIOUS
      <3> QED
        BY <1>1, <3>1, <3>2
    <2>2. Cardinality(1..(i - 1)) = i - 1
      <3>1. Cardinality(1..(i - 1)) = IF 1 > i - 1 THEN 0 ELSE i - 1 - 1 + 1
        BY FS_Interval
      <3> QED
        BY <3>1
    <2>3. PlaceOf(s, i) = 1 + Cardinality(1..(i - 1))
      BY <2>1, Zenon DEF PlaceOf
    <2> QED
      BY <2>2, <2>3
  <1>3. ASSUME NEW k \in 1..n PROVE (CHOOSE i \in DOMAIN s : PlaceOf(s, i) = k) = k
    BY <1>1, <1>2
  <1>4. Sorted(s) = [k \in 1..n |-> s[k]]
    <2>1. Sorted(s) = [k \in 1..n |-> s[CHOOSE i \in DOMAIN s : PlaceOf(s, i) = k]]
      BY <1>1, Zenon DEF Sorted
    <2>2. \A k \in 1..n : s[CHOOSE i \in DOMAIN s : PlaceOf(s, i) = k] = s[k]
      BY <1>3
    <2> QED
      BY <2>1, <2>2
  <1> QED
    BY <1>0, <1>1, <1>4

(* dir_recalc() counts directory entries.                                  *)
LEMMA FentCntNat ==
    ASSUME NEW f, NEW g, NEW labelled, NEW d, NEW es, es = f[d].entries, Len(es) \in Nat,
           \A k \in 1..Len(es) : f[es[k]].lfn \in Nat
    PROVE  FentCntOf(f, g, labelled, d) \in Nat
  <1> DEFINE Start == IF f[d].parent = NULL THEN (IF labelled THEN 1 ELSE 0) ELSE 2
             Fents(k) == IF g.vfat THEN f[es[k]].lfn ELSE 0
             Step(x, k) == x + Fents(k) + 1
             Is(u, m) == u = [k \in 0..m |-> IF k = 0 THEN Start ELSE Step(u[k - 1], k)]
             S == {m \in Nat : \E u : Is(u, m)}
             F == CHOOSE u : Is(u, Len(es))
  <1>0. Start \in Nat /\ \A k \in 1..Len(es) : Fents(k) \in Nat
    OBVIOUS
  <1> HIDE DEF Start, Fents, Step
  <1>1. 0 \in S
    <2>1. Is([k \in 0..0 |-> Start], 0)
      OBVIOUS
    <2> HIDE DEF Is
    <2> QED
      BY <2>1
  <1>2. ASSUME NEW m \in Nat, m \in S PROVE m + 1 \in S
    <2>1. PICK u : Is(u, m)
      BY <1>2
    <2> DEFINE v == [k \in 0..(m + 1) |-> IF k <= m THEN u[k] ELSE Step(u[m], m + 1)]
    <2>2. Is(v, m + 1)
      BY <2>1
    <2> HIDE DEF Is, v
    <2> QED
      BY <2>2
  <1>3. Len(es) \in S
    <2> HIDE DEF S
    <2> QED
      BY <1>1, <1>2, SetInduction
  <1>4. Is(F, Len(es))
    <2> HIDE DEF Is
    <2> QED
      BY <1>3
  <1>5. FentCntOf(f, g, labelled, d) = F[Len(es)]
    BY DEF FentCntOf, Step, Start, Fents
  <1> HIDE DEF F
  <1>6. PICK n \in Nat : n = Len(es)
    OBVIOUS
  <1>7. F = [k \in 0..n |-> IF k = 0 THEN Start ELSE Step(F[k - 1], k)]
    BY <1>4, <1>6
  <1>8. F[0] = Start /\ \A k \in 1..n : F[k] = Step(F[k - 1], k)
    BY ONLY <1>7, n \in Nat
  <1> DEFINE T == {k \in Nat : k <= n => F[k] \in Nat}
  <1>9. 0 \in T
    BY <1>0, <1>8
  <1>10. ASSUME NEW k \in Nat, k \in T PROVE k + 1 \in T
    <2>1. SUFFICES ASSUME k + 1 <= n PROVE F[k + 1] \in Nat
      OBVIOUS
    <2>2. k + 1 \in 1..n /\ k + 1 - 1 = k /\ F[k] \in Nat
      BY <1>10, <2>1
    <2>3. F[k + 1] = F[k] + Fents(k + 1) + 1 /\ Fents(k + 1) \in Nat
      BY <1>0, <1>6, <1>8, <2>2 DEF Step
    <2> QED
      BY <2>2, <2>3
  <1>11. n \in T
    <2> HIDE DEF T
    <2> QED
      BY <1>9, <1>10, SetInduction
  <1> QED
    BY <1>5, <1>6, <1>11

(* A quotient of numbers is a number.                                      *)
LEMMA DivNat ==
    ASSUME NEW x \in Nat, NEW y \in Nat \ {0}
    PROVE  x \div y \in Nat /\ x % y \in Nat
  OBVIOUS

(* A cluster holds at least one byte.                                      *)
LEMMA BpcIs == ASSUME NEW g, GeomOK(g) PROVE Bpc(g) \in Nat \ {0}
  <1>1. Bps \in Nat \ {0} /\ g.spc \in Nat \ {0}
    BY SizesAssumption DEF GeomOK
  <1>2. ASSUME NEW x \in Nat \ {0}, NEW y \in Nat \ {0} PROVE x * y \in Nat \ {0}
    OBVIOUS
  <1> QED
    BY <1>1, <1>2 DEF Bpc

(* The geometries that a drive is created with are in order.               *)
LEMMA GeomsOK == ASSUME NEW g \in Geoms PROVE GeomOK(g)
  BY SizesAssumption DEF GeomOK

(* The bytes of a size round up to clusters.                               *)
LEMMA ClustersNat ==
    ASSUME NEW g, GeomOK(g), NEW s \in Nat
    PROVE  (s + Bpc(g) - 1) \div Bpc(g) \in Nat /\ ClustersFor(s, Bpc(g), SizeMod) \in Nat
  <1>1. PICK b \in Nat \ {0}, m \in Nat \ {0} : b = Bpc(g) /\ m = SizeMod
    BY BpcIs, SizesAssumption
  <1>2. s + b - 1 \in Nat
    OBVIOUS
  <1>3. PICK t \in Nat : t = s + b - 1
    BY <1>2
  <1>4. t \div b \in Nat /\ t % m \in Nat
    BY DivNat
  <1>5. (t % m) \div b \in Nat
    BY <1>4, DivNat
  <1> QED
    BY <1>1, <1>3, <1>4, <1>5 DEF ClustersFor

(* The geometry is one that the drive was created with, and the extents    *)
(* are made of numbers.                                                    *)
NumInv == geom \in Geoms /\ extent \in [DOMAIN file -> ExtentType]

(* The sizes that dir_recalc() computes.                                   *)
LEMMA SizedNumbers ==
    ASSUME TreeInv, NumInv, NEW lab
    PROVE  Resized(extent, VisitedOf(file), DirSizes(file, geom, lab), DirClusters(file, geom, lab))
             \in [DOMAIN file -> ExtentType]
  <1>1. PICK V, sz, cl : /\ V = VisitedOf(file) /\ sz = DirSizes(file, geom, lab)
                         /\ cl = DirClusters(file, geom, lab)
    OBVIOUS
  <1>2. GeomOK(geom) /\ DOMAIN extent = DOMAIN file
    BY GeomsOK DEF NumInv
  <1>3. ASSUME NEW h \in DOMAIN file PROVE sz[h] \in Nat /\ cl[h] \in Nat
    <2>1. PICK es : es = file[h].entries
      OBVIOUS
    <2>2. es \in Seq(Handles) /\ Range(es) \subseteq DOMAIN file
      <3>1. file[h] \in NodeType
        BY DEF TreeInv, TreeTypes
      <3>2. Range(es) = Entries(h)
        BY <2>1 DEF TreeInv, DirsMatch
      <3> QED
        BY <2>1, <3>1, <3>2 DEF NodeType, Entries
    <2>3. \A k \in 1..Len(es) : file[es[k]].lfn \in Nat
      <3>1. \A k \in 1..Len(es) : es[k] \in DOMAIN file
        BY <2>2 DEF Range
      <3>2. \A x \in DOMAIN file : file[x] \in NodeType
        BY DEF TreeInv, TreeTypes
      <3>3. LfnExtras \cup {0} \subseteq Nat
        BY SizesAssumption
      <3>4. ASSUME NEW r \in NodeType PROVE r.lfn \in LfnExtras \cup {0}
        BY DEF NodeType
      <3> QED
        BY <3>1, <3>2, <3>3, <3>4
    <2>4. Len(es) \in Nat
      BY <2>2
    <2>5. FentCntOf(file, geom, lab, h) \in Nat
      BY <2>1, <2>3, <2>4, FentCntNat
    <2>6. FentCntOf(file, geom, lab, h) * DirentSize \in Nat
      BY <2>5, SizesAssumption
    <2>7. PICK s \in Nat : s = FentCntOf(file, geom, lab, h) * DirentSize
      BY <2>6
    <2>8. (s + Bpc(geom) - 1) \div Bpc(geom) \in Nat
      BY <1>2, ClustersNat
    <2> QED
      BY <1>1, <2>7, <2>8 DEF DirSizes, DirClusters
  <1>4. ASSUME NEW h \in DOMAIN file
        PROVE  (IF h \in V THEN [extent[h] EXCEPT !.size = sz[h], !.clusters = cl[h]]
                           ELSE extent[h]) \in ExtentType
    <2>1. extent[h] \in ExtentType /\ sz[h] \in Nat /\ cl[h] \in Nat
      BY <1>3 DEF NumInv
    <2> QED
      BY <2>1 DEF ExtentType
  <1>5. Resized(extent, V, sz, cl) \in [DOMAIN file -> ExtentType]
    BY <1>2, <1>4 DEF Resized
  <1> QED
    BY <1>1, <1>5

(* What the recalculation places is made of numbers.                       *)
LEMMA PlacedNumbers ==
    ASSUME NEW g, GeomOK(g), NEW D, NEW E \in [D -> ExtentType], NEW fs \in Seq(D), Distinct(fs),
           NEW p, p = PlacedFrom(g, E, fs)
    PROVE  IsCount(p.d) /\ p.e \in [D -> ExtentType]
  <1>0. PICK n \in Nat : n = Len(fs)
    OBVIOUS
  <1>1. Extents(E) /\ DOMAIN E = D
    BY NumbersAreExtents
  <1>2. PICK P : Places(P, g, E, fs)
    BY <1>0, PlacedFromIs, Zenon
  <1>3. \A k \in 0..n : IsCount(P[k].d) /\ \A h \in D : P[k].e[h] \in ExtentType
    BY <1>0, <1>2, PlacesNumbers
  <1>4. p = P[n]
    BY <1>0, <1>2, Zenon DEF Places
  <1>5. IsPlacing(p, E)
    BY <1>1, PlacedAgain
  <1>6. p.e = [h \in D |-> p.e[h]]
    BY <1>1, <1>5 DEF IsPlacing, Extents
  <1> QED
    BY <1>3, <1>4, <1>6

(* The flat list names handles of the tree.                                *)
LEMMA FlatListIs ==
    ASSUME TreeInv
    PROVE  all_files \in Seq(DOMAIN file) /\ Distinct(all_files)
  <1>1. all_files \in Seq(Handles) /\ Distinct(all_files) /\ Range(all_files) \subseteq DOMAIN file
    BY DEF TreeInv, TreeTypes, ListMatches
  <1>2. \A i \in 1..Len(all_files) : all_files[i] \in DOMAIN file
    BY <1>1 DEF Range
  <1> QED
    BY <1>1, <1>2

(* The extent that a new file begins with.                                 *)
LEMMA NewExtentIs ==
    ASSUME NEW s \in Nat, NEW c \in Nat
    PROVE  NewExtent(s, c) \in ExtentType
  BY DEF NewExtent, ExtentType

(* The drive's counters, as the loop leaves them.                          *)
Counters == [cend |-> data_cluster_end, dend |-> data_end, nonempty |-> nonempty_file_cnt, ok |-> TRUE]

(* The ranges of a clean drive.                                            *)
LEMMA RangesTile ==
    ASSUME CurrentInv, NumInv, ~dirty, ~EmptyDirListed
    PROVE  /\ IsCount(Counters) /\ Tile(ranges, geom, Counters)
           /\ Owned(ranges, all_files, extent, Len(all_files))
  <1>0. TreeInv /\ CleanIsCurrent /\ DOMAIN extent = DOMAIN file /\ GeomOK(geom)
    BY GeomsOK DEF CurrentInv, ExtentInv, NumInv
  <1>1. SomeLayout(file, extent, all_files, geom, label,
                   <<ranges, nonempty_file_cnt, data_end, data_cluster_end>>)
    BY <1>0, CurrentIs
  <1>2. PICK lab : IsLayout(file, extent, all_files, geom, lab,
                            <<ranges, nonempty_file_cnt, data_end, data_cluster_end>>)
    BY <1>1 DEF SomeLayout
  <1>3. PICK p : p = LayoutOf(file, extent, all_files, geom, lab)
    OBVIOUS
  <1>4. /\ p.d.ok /\ p.e = extent /\ ranges = RangesFor(file, all_files, geom, p.d, p.e)
        /\ nonempty_file_cnt = p.d.nonempty /\ data_end = p.d.dend /\ data_cluster_end = p.d.cend
    BY <1>2, <1>3 DEF IsLayout
  <1>5. PICK E : E = Resized(extent, VisitedOf(file), DirSizes(file, geom, lab), DirClusters(file, geom, lab))
    OBVIOUS
  <1>6. p = PlacedFrom(geom, E, all_files)
    BY <1>3, <1>5 DEF LayoutOf
  <1>7. PICK D : D = DOMAIN file
    OBVIOUS
  <1>8. E \in [D -> ExtentType]
    BY <1>0, <1>5, <1>7, SizedNumbers
  <1>9. all_files \in Seq(D) /\ Distinct(all_files) /\ D \subseteq Handles
    BY <1>0, <1>7, FlatListIs DEF TreeInv, TreeTypes
  <1>10. IsCount(p.d)
    BY <1>0, <1>6, <1>8, <1>9, PlacedNumbers
  <1>11. \A j \in 1..Len(all_files) : file[all_files[j]].dir => p.e[all_files[j]].size # 0
    <2>1. \A h \in Range(all_files) : ~(file[h].dir /\ extent[h].size = 0)
      BY DEF EmptyDirListed
    <2>2. \A j \in 1..Len(all_files) : all_files[j] \in Range(all_files)
      BY <1>9 DEF Range
    <2> QED
      BY <1>4, <2>1, <2>2
  <1>12. PICK w : w = WrittenOf(file, all_files, geom, p.e)
    OBVIOUS
  <1>13. Tile(w, geom, p.d) /\ Owned(w, all_files, p.e, Len(all_files))
    BY <1>0, <1>4, <1>6, <1>8, <1>9, <1>11, <1>12, LayoutTiles
  <1>14. w \in Seq(RangeType) /\ Len(w) = p.d.nonempty
    BY <1>13 DEF Tile
  <1>15. Sorted(w) = w
    <2>1. \A i, j \in 1..Len(w) : i < j => w[i].sectstart <= w[j].sectstart
      <3> SUFFICES ASSUME NEW i \in 1..Len(w), NEW j \in 1..Len(w), i < j
                   PROVE  w[i].sectstart <= w[j].sectstart
        OBVIOUS
      <3>1. w[i].sectstart <= w[i].sectend /\ w[i].sectend <= w[j].sectstart
        BY <1>13 DEF Tile
      <3>2. w[i].sectstart \in Nat /\ w[i].sectend \in Nat /\ w[j].sectstart \in Nat
        <4>1. w[i] \in RangeType /\ w[j] \in RangeType
          BY <1>14, ElementOfSeq
        <4> QED
          BY <4>1 DEF RangeType
      <3> QED
        BY <3>1, <3>2
    <2> QED
      BY <1>14, <2>1, SortedSame
  <1>16. RangesFor(file, all_files, geom, p.d, p.e) = w
    <2>1. PICK n \in Nat : n = Len(w)
      BY <1>14
    <2>2. SubSeq(w, 1, n) = w /\ SubSeq(w, n + 1, n) = <<>> /\ w \o <<>> = w
      BY <1>14, <2>1
    <2>3. RangesFor(file, all_files, geom, p.d, p.e) = Sorted(SubSeq(w, 1, n)) \o SubSeq(w, n + 1, n)
      BY <1>12, <1>14, <2>1 DEF RangesFor
    <2> QED
      BY <1>15, <2>2, <2>3
  <1>17. p.d = Counters
    BY <1>4, <1>10 DEF IsCount, Counters
  <1> QED
    BY <1>4, <1>10, <1>13, <1>16, <1>17

(* TilesDataArea in these terms.                                           *)
LEMMA CurrentTiles == CurrentInv /\ NumInv => TilesDataArea
  <1> SUFFICES ASSUME CurrentInv, NumInv, ~dirty, ~EmptyDirListed
               PROVE  TilesDataArea
    BY DEF TilesDataArea
  <1>1. /\ IsCount(Counters) /\ Tile(ranges, geom, Counters)
        /\ Owned(ranges, all_files, extent, Len(all_files))
    BY RangesTile
  <1>2. /\ Counters.cend = data_cluster_end /\ Counters.dend = data_end
        /\ Counters.nonempty = nonempty_file_cnt
    BY DEF Counters
  <1>3. PICK n \in Nat : n = Len(ranges)
    BY <1>1 DEF Tile
  <1>4. all_files \in Seq(DOMAIN file)
    BY FlatListIs DEF CurrentInv
  <1>5. IsInjective([i \in 1..n |-> ranges[i].file])
    <2>1. \A i, j \in 1..n : ranges[i].file = ranges[j].file => i = j
      BY <1>1, <1>3 DEF Owned
    <2> QED
      BY <2>1 DEF IsInjective
  <1>6. {ranges[i].file : i \in 1..n} = {h \in Range(all_files) : extent[h].size # 0}
    <2>1. \A j \in 1..Len(all_files) : all_files[j] \in Range(all_files)
      BY <1>4 DEF Range
    <2>2. \A h \in Range(all_files) : \E j \in 1..Len(all_files) : h = all_files[j]
      BY <1>4 DEF Range
    <2>3. /\ \A i \in 1..n : \E j \in 1..Len(all_files) :
                ranges[i].file = all_files[j] /\ extent[all_files[j]].size # 0
          /\ \A j \in 1..Len(all_files) : extent[all_files[j]].size # 0 =>
                \E i \in 1..n : ranges[i].file = all_files[j]
      BY <1>1, <1>3 DEF Owned
    <2>4. ASSUME NEW i \in 1..n
          PROVE  ranges[i].file \in Range(all_files) /\ extent[ranges[i].file].size # 0
      BY <2>1, <2>3
    <2>5. ASSUME NEW h \in Range(all_files), extent[h].size # 0
          PROVE  \E i \in 1..n : ranges[i].file = h
      <3>1. PICK j \in 1..Len(all_files) : h = all_files[j]
        BY <2>2
      <3>2. extent[all_files[j]].size # 0
        BY <2>5, <3>1
      <3> QED
        BY <2>3, <3>1, <3>2
    <2> QED
      BY <2>4, <2>5
  <1>7. /\ n = nonempty_file_cnt
        /\ n = 0 => data_end = geom.data_start /\ data_cluster_end = FirstCluster
        /\ n > 0 => /\ ranges[1].sectstart = geom.data_start /\ ranges[1].fatstart = FirstCluster
                    /\ ranges[n].sectend = data_end /\ ranges[n].fatend = data_cluster_end
                    /\ data_end < geom.sectors
    BY <1>1, <1>2, <1>3 DEF Tile
  <1>8. \A i \in 1..n-1 : ranges[i].sectend = ranges[i+1].sectstart /\ ranges[i].fatend = ranges[i+1].fatstart
    BY <1>1, <1>3 DEF Tile
  <1>9. \A i \in 1..n : /\ ranges[i].sectend - ranges[i].sectstart
                            = (ranges[i].fatend - ranges[i].fatstart) * geom.spc
                         /\ extent[ranges[i].file].endsect = ranges[i].sectend
    BY <1>1, <1>3 DEF Tile, Owned
  <1> QED
    BY ONLY <1>3, <1>5, <1>6, <1>7, <1>8, <1>9, Zenon DEF TilesDataArea

(* A new drive has no clusters yet: zeros.                                 *)
LEMMA NumInvInit == Init => NumInv
  <1> SUFFICES ASSUME Init PROVE NumInv
    OBVIOUS
  <1>1. /\ file = [x \in {Root} |-> NewFile(NULL, TRUE, FALSE, 0)]
        /\ extent = [x \in {Root} |-> NewExtent(0, 0)] /\ geom \in Geoms
    BY DEF Init, TreeInit
  <1>2. NewExtent(0, 0) \in ExtentType
    BY NewExtentIs
  <1> QED
    BY <1>1, <1>2 DEF NumInv

(* vdf_drive_recalc(), successful or not, leaves numbers behind.           *)
LEMMA RecalcNumbers ==
    ASSUME CurrentInv, NumInv, vdf_drive_recalc, geom' = geom
    PROVE  NumInv'
  <1>1. CASE ~dirty /\ UNCHANGED <<treevars, layoutvars>>
    BY <1>1 DEF NumInv, treevars
  <1>2. CASE dirty
    <2>0. TreeInv /\ DOMAIN extent = DOMAIN file /\ GeomOK(geom)
      BY GeomsOK DEF CurrentInv, ExtentInv, NumInv
    <2>1. PICK p : p = PlacedWith(label)
      OBVIOUS
    <2>2. extent' = p.e /\ file' = file
      BY <1>2, <2>1 DEF vdf_drive_recalc, Placed
    <2>3. PICK E, D : /\ E = Resized(extent, VisitedOf(file), DirSizes(file, geom, label),
                                     DirClusters(file, geom, label))
                      /\ D = DOMAIN file
      OBVIOUS
    <2>4. p = PlacedFrom(geom, E, all_files)
      BY <2>0, <2>1, <2>3, LayoutIs DEF LayoutOf
    <2>5. E \in [D -> ExtentType]
      BY <2>0, <2>3, SizedNumbers
    <2>6. all_files \in Seq(D) /\ Distinct(all_files)
      BY <2>0, <2>3, FlatListIs
    <2>7. p.e \in [D -> ExtentType]
      BY <2>0, <2>4, <2>5, <2>6, PlacedNumbers
    <2> QED
      BY <2>2, <2>3, <2>7 DEF NumInv
  <1> QED
    BY <1>1, <1>2 DEF vdf_drive_recalc

(* So does every operation on the tree.                                    *)
LEMMA FileNextNumbers ==
    ASSUME CurrentInv, NumInv, FileNext
    PROVE  NumInv'
  <1>0. /\ DOMAIN extent = DOMAIN file /\ GeomOK(geom) /\ file \in [DOMAIN file -> NodeType]
        /\ geom' \in Geoms /\ extent \in [DOMAIN file -> ExtentType]
    <2>1. geom' = geom
      BY FileNextChangesTree DEF ChangesTree, setupvars
    <2> QED
      BY <2>1, GeomsOK DEF CurrentInv, ExtentInv, NumInv, TreeInv, TreeTypes
  <1>1. ASSUME NEW p, NEW h, NEW rec, NEW s \in Nat, NEW c \in Nat,
               create_file(geom, p, h, rec, NewExtent(s, c))
        PROVE  NumInv'
    <2>1. NewExtent(s, c) \in ExtentType
      BY NewExtentIs
    <2>2. /\ extent' = [x \in DOMAIN extent \cup {h} |-> IF x = h THEN NewExtent(s, c) ELSE extent[x]]
          /\ DOMAIN file' = DOMAIN file \cup {h}
      BY <1>1 DEF create_file
    <2> QED
      BY <1>0, <2>1, <2>2 DEF NumInv
  <1>2. ASSUME NEW h, delete_file(h) PROVE NumInv'
    <2>1. extent' = [x \in DOMAIN extent \ {h} |-> extent[x]] /\ DOMAIN file' = DOMAIN file \ {h}
      BY <1>2 DEF delete_file
    <2> QED
      BY <1>0, <2>1 DEF NumInv
  <1>3. ASSUME extent' = extent, DOMAIN file' = DOMAIN file PROVE NumInv'
    BY <1>0, <1>3 DEF NumInv
  <1>4. ASSUME NEW h \in Handles, NEW s \in VirtSizes, SetFileSize(h, s) PROVE NumInv'
    <2>1. s \in Nat /\ ClustersFor(s, Bpc(geom), SizeMod) \in Nat
      BY <1>0, ClustersNat, SizesAssumption
    <2>2. PICK c \in Nat : c = ClustersFor(s, Bpc(geom), SizeMod)
      BY <2>1
    <2>3. /\ h \in DOMAIN extent /\ file' = file
          /\ extent' = [extent EXCEPT ![h] = [extent[h] EXCEPT !.size = s, !.clusters = c]]
      BY <1>0, <1>4, <2>2 DEF SetFileSize
    <2>4. [extent[h] EXCEPT !.size = s, !.clusters = c] \in ExtentType
      <3>1. extent[h] \in ExtentType
        BY <1>0, <2>3
      <3>2. PICK x \in ExtentType : x = extent[h]
        BY <3>1
      <3>3. [x EXCEPT !.size = s, !.clusters = c] \in ExtentType
        BY ONLY <2>1, c \in Nat, x \in ExtentType DEF ExtentType
      <3> QED
        BY <3>2, <3>3
    <2> QED
      BY <1>0, <2>3, <2>4 DEF NumInv
  <1>5. ASSUME NEW p \in Handles, AddFails(p) PROVE extent' = extent /\ DOMAIN file' = DOMAIN file
    BY <1>5 DEF AddFails, create_file_fails
  <1>6. ASSUME NEW h, NEW p, NEW n, move_file(h, p, n) PROVE extent' = extent /\ DOMAIN file' = DOMAIN file
    BY <1>6 DEF move_file
  <1>7. ASSUME NEW h, NEW n, set_name(h, n) PROVE extent' = extent /\ DOMAIN file' = DOMAIN file
    BY <1>7 DEF set_name
  <1>8. ASSUME NEW h, SetFileMeta(h) PROVE extent' = extent /\ DOMAIN file' = DOMAIN file
    BY <1>8 DEF SetFileMeta, treevars
  <1>9. CASE \E p, h \in Handles, n \in LfnExtras : AddDir(p, h, n)
    BY <1>1, <1>9 DEF AddDir
  <1>10. CASE \E p, h \in Handles, n \in LfnExtras, s \in RealSizes : AddFileReal(p, h, n, s)
    <2>1. PICK p \in Handles, h \in Handles, n \in LfnExtras, s \in RealSizes : AddFileReal(p, h, n, s)
      BY <1>10
    <2>2. s \in Nat /\ SizeMod \in Nat \ {0}
      BY SizesAssumption
    <2>3. s % SizeMod \in Nat /\ (s + Bpc(geom) - 1) \div Bpc(geom) \in Nat
      BY <1>0, <2>2, ClustersNat, DivNat
    <2> QED
      BY <1>1, <2>1, <2>3 DEF AddFileReal
  <1>11. CASE \E p, h \in Handles, n \in LfnExtras, s \in VirtSizes : AddFileVirt(p, h, n, s)
    <2>1. PICK p \in Handles, h \in Handles, n \in LfnExtras, s \in VirtSizes : AddFileVirt(p, h, n, s)
      BY <1>11
    <2>2. s \in Nat /\ ClustersFor(s, Bpc(geom), SizeMod) \in Nat
      BY <1>0, ClustersNat, SizesAssumption
    <2> QED
      BY <1>1, <2>1, <2>2 DEF AddFileVirt
  <1>12. CASE \E h \in Handles : DeleteFile(h)
    BY <1>2, <1>12 DEF DeleteFile
  <1>13. CASE \E h, p \in Handles, n \in LfnExtras : MoveFile(h, p, n)
    BY <1>3, <1>6, <1>13 DEF MoveFile
  <1>14. CASE \E h \in Handles, n \in LfnExtras : SetFileName(h, n) \/ SetFileShortname(h, n)
    BY <1>3, <1>7, <1>14 DEF SetFileName, SetFileShortname
  <1> QED
    BY <1>3, <1>4, <1>5, <1>8, <1>9, <1>10, <1>11, <1>12, <1>13, <1>14, FileNext DEF FileNext

(* So does every step of the drive.                                        *)
LEMMA NumInvStep == CurrentInv /\ NumInv /\ [Next]_vars => NumInv'
  <1> SUFFICES ASSUME CurrentInv, NumInv, [Next]_vars PROVE NumInv'
    OBVIOUS
  <1>1. ASSUME UNCHANGED <<file, extent>>, geom' \in Geoms PROVE NumInv'
    BY <1>1 DEF NumInv
  <1>2. geom \in Geoms
    BY DEF NumInv
  <1>3. CASE FileNext
    BY <1>3, FileNextNumbers
  <1>4. CASE Recalc
    BY <1>4, RecalcNumbers DEF Recalc, setupvars
  <1>5. CASE Lock
    BY <1>1, <1>2, <1>5, RecalcNumbers DEF Lock, vdf_drive_lock, treevars
  <1>6. CASE DumpDrive
    BY <1>1, <1>2, <1>6, RecalcNumbers DEF DumpDrive, setupvars, treevars
  <1>7. CASE \E g \in Geoms : Recreate(g)
    BY <1>1, <1>7 DEF Recreate, relist_root
  <1>8. CASE Unlock \/ SetLabelFails \/ Free \/ UNCHANGED vars
    BY <1>1, <1>2, <1>8 DEF Unlock, SetLabelFails, Free, vars, setupvars, treevars
  <1>9. CASE (\E on \in Labels : SetLabel(on)) \/ (\E s \in Serials : SetSerial(s))
    BY <1>1, <1>2, <1>9 DEF SetLabel, SetSerial, treevars
  <1> QED
    BY <1>3, <1>4, <1>5, <1>6, <1>7, <1>8, <1>9 DEF Next, DriveNext, DumpDriveFails

(* A clean drive is laid out without gap or overlap, whatever the history  *)
(* of operations, the sizes and the geometry: after vdf_drive_recalc() the *)
(* ranges start where the data area starts, each ends where the next one   *)
(* starts, in sectors and in clusters alike, and the last ends where the   *)
(* drive's counters say; every file with clusters has its range. (A        *)
(* directory without entries that is on the list is excepted, as the       *)
(* property says.)                                                         *)
THEOREM CleanDriveIsTiled == Spec => []TilesDataArea
  <1>1. Init => CurrentInv /\ NumInv
    BY CurrentInvInit, NumInvInit
  <1>2. CurrentInv /\ NumInv /\ [Next]_vars => (CurrentInv /\ NumInv)'
    BY CurrentInvStep, NumInvStep
  <1> QED
    BY <1>1, <1>2, CurrentTiles, PTL DEF Spec

(* A cluster that holds a sector of a piece of the data area is a cluster  *)
(* of that piece.                                                          *)
LEMMA SectorInCluster ==
    ASSUME NEW a \in Nat, NEW b \in Nat, NEW c \in Nat \ {0}
    PROVE  a < b * c <=> a \div c < b
  <1>1. PICK q \in Nat, r \in Nat : q = a \div c /\ r = a % c
    BY DivNat
  <1>2. a = c * q + r /\ r < c
    BY <1>1
  <1>3. CASE q < b
    <2>1. PICK z \in Nat : b = q + 1 + z
      <3>1. b - q - 1 \in Nat
        BY <1>3
      <3> QED
        BY <3>1
    <2>2. b * c = q * c + c + z * c /\ z * c \in Nat /\ q * c \in Nat /\ c * q = q * c
      BY <2>1
    <2> QED
      BY <1>1, <1>2, <1>3, <2>2
  <1>4. CASE ~(q < b)
    <2>1. PICK z \in Nat : q = b + z
      <3>1. q - b \in Nat
        BY <1>4
      <3> QED
        BY <3>1
    <2>2. c * q = b * c + z * c /\ z * c \in Nat /\ b * c \in Nat
      BY <2>1
    <2> QED
      BY <1>1, <1>2, <1>4, <2>2
  <1> QED
    BY <1>3, <1>4

(* The counters of files on the list: file_cnt, which bounds the searches, *)
(* is not below the number of files on the flat list.                      *)
CountInv == file_cnt \in Nat /\ Len(all_files) <= file_cnt

(* The first range that ends beyond a sector.                              *)
LEMMA FirstHit ==
    ASSUME NEW n \in Nat, NEW hits \in SUBSET (1..n), hits # {}, NEW cnt \in Nat, n <= cnt, NEW r,
           r = ScanResult(hits, n, cnt)
    PROVE  r \in hits /\ \A j \in hits : r <= j
  <1>1. \E i \in hits : i <= cnt
    <2>1. PICK i : i \in hits
      OBVIOUS
    <2>2. i \in 1..n
      BY <2>1
    <2>3. i <= cnt
      BY <2>2
    <2> QED
      BY <2>1, <2>3
  <1>2. r = CHOOSE i \in hits : \A j \in hits : i <= j
    BY <1>1 DEF ScanResult
  <1>3. hits \subseteq Nat
    OBVIOUS
  <1>4. PICK i \in hits : \A j \in hits : i <= j
    BY <1>3, NatLeast
  <1> QED
    BY <1>2, <1>4

(* The searches of a clean drive: the ranges end in increasing order,      *)
(* so the first one that ends beyond a sector of the data area holds it,   *)
(* and the search by FAT entry stops at the same one.                      *)
LEMMA CurrentLookup == CurrentInv /\ NumInv /\ CountInv => LookupSound
  <1> SUFFICES ASSUME CurrentInv, NumInv, CountInv, ~dirty, ~EmptyDirListed PROVE LookupSound
    BY DEF LookupSound
  <1>1. /\ IsCount(Counters) /\ Tile(ranges, geom, Counters)
        /\ Owned(ranges, all_files, extent, Len(all_files))
    BY RangesTile
  <1>2. /\ Counters.cend = data_cluster_end /\ Counters.dend = data_end
        /\ data_cluster_end \in Nat /\ data_end \in Nat
    BY <1>1 DEF Counters, IsCount
  <1>3. PICK ds \in Nat, spc \in Nat \ {0}, de \in Nat, ce \in Nat :
            ds = geom.data_start /\ spc = geom.spc /\ de = data_end /\ ce = data_cluster_end
    BY <1>2, GeomsOK DEF NumInv, GeomOK
  <1>4. PICK n \in Nat, cnt \in Nat : n = Len(ranges) /\ cnt = file_cnt /\ n <= cnt
    <2>1. Len(ranges) \in Nat /\ file_cnt \in Nat /\ Len(all_files) \in Nat
      BY <1>1, FlatListIs DEF Tile, CountInv, CurrentInv
    <2>2. Len(ranges) <= Len(all_files) /\ Len(all_files) <= file_cnt
      BY <1>1 DEF Owned, CountInv
    <2> QED
      BY <2>1, <2>2
  <1>5. \A i \in 1..n : /\ ranges[i].sectend \in Nat /\ ranges[i].fatend \in Nat
                        /\ ranges[i].fatend >= 2
                        /\ ranges[i].sectend = ds + (ranges[i].fatend - 2) * spc
    <2>1. \A i \in 1..n : ranges[i] \in RangeType
      BY <1>1, <1>4, ElementOfSeq DEF Tile
    <2>2. \A i \in 1..n : ranges[i].sectend \in Nat /\ ranges[i].fatend \in Nat
      BY <2>1 DEF RangeType
    <2>3. \A i \in 1..n : /\ ranges[i].fatend >= 2
                          /\ ranges[i].sectend = geom.data_start + (ranges[i].fatend - 2) * geom.spc
      BY <1>1, <1>4, Zenon DEF Tile, FirstCluster
    <2> QED
      BY <1>3, <2>2, <2>3
  <1>6. /\ n = 0 => de = ds
        /\ n > 0 => ranges[1].sectstart = ds /\ ranges[n].sectend = de
        /\ \A i \in 1..(n - 1) : ranges[i].sectend = ranges[i + 1].sectstart
        /\ de = ds + (ce - 2) * spc /\ ce >= 2
    BY <1>1, <1>2, <1>3, <1>4 DEF Tile, FirstCluster
  <1>7. ASSUME NEW s \in geom.data_start .. data_end - 1
        PROVE  LET i == find_file_sector(ranges, file_cnt, data_end, s)
                   j == find_file_fat_entry(ranges, file_cnt, data_cluster_end,
                            FirstCluster + (s - geom.data_start) \div geom.spc)
               IN  i \in 1..Len(ranges) /\ i = j /\ ranges[i].sectstart <= s
    <2>1. s \in ds..(de - 1) /\ s \in Nat /\ s - ds \in Nat /\ s < de
      BY <1>3
    <2>2. PICK o \in Nat : o = s - ds
      BY <2>1
    <2>3. PICK q \in Nat : q = o \div spc
      BY DivNat
    <2>4. ASSUME NEW x \in Nat, x >= 2 PROVE s < ds + (x - 2) * spc <=> 2 + q < x
      <3>1. x - 2 \in Nat
        BY <2>4
      <3>2. PICK b \in Nat : b = x - 2
        BY <3>1
      <3>3. o < b * spc <=> q < b
        BY <2>3, SectorInCluster
      <3>4. b * spc \in Nat
        OBVIOUS
      <3>5. PICK t \in Nat : t = b * spc
        BY <3>4
      <3>6. s < ds + t <=> o < t
        BY <2>1, <2>2
      <3>7. q < b <=> 2 + q < x
        BY <3>2
      <3> QED
        BY <3>2, <3>3, <3>5, <3>6, <3>7
    <2>5. PICK ent \in Nat : ent = FirstCluster + (s - geom.data_start) \div geom.spc /\ ent = 2 + q
      BY <1>3, <2>2, <2>3 DEF FirstCluster
    <2>6. ent < ce
      BY <1>6, <2>1, <2>4, <2>5
    <2>7. PICK hits : hits = {i \in 1..n : s < ranges[i].sectend}
      OBVIOUS
    <2>8. \A i \in 1..n : s < ranges[i].sectend <=> ent < ranges[i].fatend
      BY <1>5, <2>4, <2>5
    <2>9. {i \in 1..n : ent < ranges[i].fatend} = hits
      BY <2>7, <2>8
    <2>10. PICK r : r = ScanResult(hits, n, cnt)
      OBVIOUS
    <2>11. find_file_sector(ranges, file_cnt, data_end, s) = r
      <3>1. ~(s >= data_end)
        BY <1>3, <2>1
      <3> QED
        BY <1>4, <2>7, <2>10, <3>1 DEF find_file_sector
    <2>12. find_file_fat_entry(ranges, file_cnt, data_cluster_end, ent) = r
      <3>1. ~(ent >= data_cluster_end)
        BY <1>3, <2>6
      <3> QED
        BY <1>4, <2>9, <2>10, <3>1 DEF find_file_fat_entry
    <2>13. hits \in SUBSET (1..n) /\ hits # {}
      <3>1. n > 0
        BY <1>6, <2>1
      <3>2. n \in 1..n /\ s < ranges[n].sectend
        BY <1>6, <2>1, <3>1
      <3> QED
        BY <2>7, <3>2
    <2>14. r \in hits /\ \A j \in hits : r <= j
      BY <1>4, <2>10, <2>13, FirstHit
    <2>15. r \in 1..n
      BY <2>13, <2>14
    <2>16. ranges[r].sectstart <= s
      <3>1. CASE r = 1
        BY <1>6, <2>1, <2>15, <3>1
      <3>2. CASE r # 1
        <4>1. r - 1 \in 1..(n - 1) /\ r - 1 \in 1..n /\ r - 1 + 1 = r /\ ~(r <= r - 1)
          BY <2>15, <3>2
        <4>2. ~(s < ranges[r - 1].sectend)
          BY <2>7, <2>14, <4>1
        <4>3. ranges[r - 1].sectend = ranges[r].sectstart /\ ranges[r - 1].sectend \in Nat
          BY <1>5, <1>6, <4>1
        <4> QED
          BY <2>1, <4>2, <4>3
      <3> QED
        BY <3>1, <3>2
    <2> QED
      BY <1>4, <2>5, <2>11, <2>12, <2>15, <2>16
  <1>8. /\ find_file_sector(ranges, file_cnt, data_end, data_end) = Miss
        /\ find_file_fat_entry(ranges, file_cnt, data_cluster_end, data_cluster_end) = Miss
    BY <1>2 DEF find_file_sector, find_file_fat_entry
  <1> QED
    BY <1>7, <1>8 DEF LookupSound

(* A new drive counts the root only where it is listed.                    *)
LEMMA CountInvInit == Init => CountInv
  <1>1. Len(<<Root>>) = 1 /\ Len(<<>>) = 0
    OBVIOUS
  <1> QED
    BY <1>1 DEF Init, TreeInit, CountInv

(* An operation that lists a file counts it, one that takes it off the     *)
(* list stops counting it, and a failed creation leaves the count high.    *)
LEMMA CountInvStep == TreeInv /\ CountInv /\ [Next]_vars => CountInv'
  <1> SUFFICES ASSUME TreeInv, CountInv, [Next]_vars PROVE CountInv'
    OBVIOUS
  <1>0. /\ all_files \in Seq(Handles) /\ Len(all_files) \in Nat /\ Distinct(all_files)
        /\ Range(all_files) = IF RootListed(geom) THEN DOMAIN file ELSE DOMAIN file \ {Root}
        /\ Root \in DOMAIN file /\ Root \in Handles
    BY HandlesAssumption DEF TreeInv, TreeTypes, ListMatches
  <1>1. ASSUME UNCHANGED <<all_files, file_cnt>> PROVE CountInv'
    BY <1>1 DEF CountInv
  <1>2. ASSUME NEW h, all_files' = Append(all_files, h), file_cnt' = file_cnt + 1 PROVE CountInv'
    <2>1. Len(all_files') = Len(all_files) + 1
      BY <1>0, <1>2
    <2> QED
      BY <1>0, <1>2, <2>1 DEF CountInv
  <1>3. ASSUME NEW h \in Range(all_files), all_files' = RemoveFirst(all_files, h),
               file_cnt' = file_cnt - 1
        PROVE  CountInv'
    <2>1. Len(all_files') = Len(all_files) - 1
      BY <1>0, <1>3, RemoveFirstLength
    <2>2. Len(all_files') \in Nat
      <3>1. all_files' \in Seq(Handles)
        BY <1>0, <1>3, RemoveFirstDistinct
      <3> QED
        BY <3>1
    <2> QED
      BY <1>0, <1>3, <2>1, <2>2 DEF CountInv
  <1>4. CASE FileNext
    <2>1. ASSUME NEW p, NEW h, NEW rec, NEW ext, create_file(geom, p, h, rec, ext) PROVE CountInv'
      BY <1>2, <2>1 DEF create_file
    <2>2. ASSUME NEW h, delete_file(h) PROVE CountInv'
      <3>1. h \in Range(all_files)
        BY <1>0, <2>2 DEF delete_file, HasParent
      <3> QED
        BY <1>3, <2>2, <3>1 DEF delete_file
    <2>3. ASSUME NEW p \in Handles, AddFails(p) PROVE CountInv'
      <3>1. file_cnt' = file_cnt + 1 /\ all_files' = all_files
        BY <2>3 DEF AddFails, create_file_fails
      <3> QED
        BY <1>0, <3>1 DEF CountInv
    <2>4. CASE \E p, h \in Handles, n \in LfnExtras : AddDir(p, h, n)
      BY <2>1, <2>4 DEF AddDir
    <2>5. CASE \E p, h \in Handles, n \in LfnExtras, s \in RealSizes : AddFileReal(p, h, n, s)
      BY <2>1, <2>5 DEF AddFileReal
    <2>6. CASE \E p, h \in Handles, n \in LfnExtras, s \in VirtSizes : AddFileVirt(p, h, n, s)
      BY <2>1, <2>6 DEF AddFileVirt
    <2>7. CASE \E h \in Handles : DeleteFile(h)
      BY <2>2, <2>7 DEF DeleteFile
    <2>8. CASE \E h, p \in Handles, n \in LfnExtras : MoveFile(h, p, n)
      <3>1. ASSUME NEW h, NEW p, NEW n, move_file(h, p, n) PROVE UNCHANGED <<all_files, file_cnt>>
        BY <3>1 DEF move_file
      <3>2. UNCHANGED <<all_files, file_cnt>>
        BY <2>8, <3>1 DEF MoveFile
      <3> QED
        BY <1>1, <3>2
    <2>9. CASE \E h \in Handles, n \in LfnExtras : SetFileName(h, n) \/ SetFileShortname(h, n)
      BY <1>1, <2>9 DEF SetFileName, SetFileShortname, set_name
    <2>10. CASE \E h \in Handles : SetFileMeta(h) \/ \E s \in VirtSizes : SetFileSize(h, s)
      BY <1>1, <2>10 DEF SetFileMeta, SetFileSize, treevars
    <2> QED
      BY <1>4, <2>3, <2>4, <2>5, <2>6, <2>7, <2>8, <2>9, <2>10 DEF FileNext
  <1>5. ASSUME vdf_drive_recalc PROVE CountInv'
    BY <1>1, <1>5 DEF vdf_drive_recalc, treevars
  <1>6. CASE Recalc \/ Lock \/ DumpDrive
    BY <1>1, <1>5, <1>6 DEF Recalc, Lock, DumpDrive, vdf_drive_lock, treevars
  <1>7. CASE \E g \in Geoms : Recreate(g)
    <2>1. PICK g \in Geoms : relist_root(geom, g)
      BY <1>7 DEF Recreate
    <2>2. CASE RootListed(geom) /\ ~RootListed(g)
      <3>1. all_files' = RemoveFirst(all_files, Root) /\ file_cnt' = file_cnt - 1
        BY <2>1, <2>2 DEF relist_root
      <3> QED
        BY <1>0, <1>3, <2>2, <3>1
    <2>3. CASE ~RootListed(geom) /\ RootListed(g)
      <3>1. all_files' = Append(all_files, Root) /\ file_cnt' = file_cnt + 1
        BY <2>1, <2>3 DEF relist_root
      <3> QED
        BY <1>2, <3>1
    <2>4. CASE RootListed(geom) <=> RootListed(g)
      <3>1. all_files' = all_files /\ file_cnt' = file_cnt
        BY <2>1, <2>4 DEF relist_root
      <3> QED
        BY <1>1, <3>1
    <2> QED
      BY <2>2, <2>3, <2>4
  <1>8. CASE Unlock \/ SetLabelFails \/ Free \/ UNCHANGED vars
    BY <1>1, <1>8 DEF Unlock, SetLabelFails, Free, vars, treevars
  <1>9. CASE (\E on \in Labels : SetLabel(on)) \/ (\E s \in Serials : SetSerial(s))
    BY <1>1, <1>9 DEF SetLabel, SetSerial, treevars
  <1> QED
    BY <1>4, <1>6, <1>7, <1>8, <1>9 DEF Next, DriveNext, DumpDriveFails

(* On a clean drive find_file_sector() and find_file_fat_entry() stay      *)
(* inside the array of ranges, although file_cnt bounds them and the array *)
(* has an element only for a file that is not empty, and they find the same *)
(* file for a sector and for the cluster that holds it.                    *)
THEOREM CleanDriveIsFound == Spec => []LookupSound
  <1>1. Init => CurrentInv /\ NumInv /\ CountInv
    BY CurrentInvInit, NumInvInit, CountInvInit
  <1>2. CurrentInv /\ NumInv /\ CountInv /\ [Next]_vars => (CurrentInv /\ NumInv /\ CountInv)'
    BY CurrentInvStep, NumInvStep, CountInvStep DEF CurrentInv
  <1> QED
    BY <1>1, <1>2, CurrentLookup, PTL DEF Spec

-----------------------------------------------------------------------------
(* The types of the fields.                                                *)

(* dir.cnt is not below the number of entries: a deletion does not lower   *)
(* it, and a move lowers it only where there was an entry to take away.    *)
Counted(r) == r.cnt \in Nat /\ Len(r.entries) <= r.cnt

DirCntInv == \A d \in DOMAIN file : Counted(file[d])

(* create_file() counts the entry that it makes.                           *)
LEMMA CreateCounts ==
    ASSUME TreeInv, DirCntInv, NEW p, NEW h, NEW rec, NEW ext, create_file(geom, p, h, rec, ext),
           Counted(rec)
    PROVE  DirCntInv'
  <1>1. h \in Handles /\ p \in DOMAIN file /\ file[p] \in NodeType /\ Counted(file[p])
    BY DEF create_file, IsDir, TreeInv, TreeTypes, DirCntInv
  <1>2. PICK r : r = [file[p] EXCEPT !.entries = Append(@, h), !.cnt = @ + 1]
    OBVIOUS
  <1>3. Counted(r)
    <2>1. PICK es \in Seq(Handles), n \in Nat : es = file[p].entries /\ n = file[p].cnt /\ Len(es) <= n
      BY <1>1 DEF NodeType, Counted
    <2>2. r.entries = Append(es, h) /\ r.cnt = n + 1
      BY <1>1, <1>2, <2>1 DEF NodeType
    <2>3. Len(Append(es, h)) = Len(es) + 1 /\ Len(es) \in Nat
      BY <1>1, <2>1
    <2> QED
      BY <2>1, <2>2, <2>3 DEF Counted
  <1>4. file' = [x \in DOMAIN file \cup {h} |-> IF x = h THEN rec ELSE IF x = p THEN r ELSE file[x]]
    BY <1>2 DEF create_file
  <1>5. ASSUME NEW d \in DOMAIN file' PROVE Counted(file'[d])
    <2>1. d \in DOMAIN file \cup {h} /\ file'[d] = IF d = h THEN rec ELSE IF d = p THEN r ELSE file[d]
      BY <1>4
    <2>2. d # h => Counted(file[d])
      BY <2>1 DEF DirCntInv
    <2> QED
      BY <1>3, <2>1, <2>2
  <1> QED
    BY <1>5 DEF DirCntInv

(* vdf_delete_file() takes an entry away and leaves the count.             *)
LEMMA DeleteCounts ==
    ASSUME TreeInv, DirCntInv, NEW h, delete_file(h)
    PROVE  DirCntInv'
  <1> DEFINE p == file[h].parent
  <1>1. h \in DOMAIN file /\ p \in DOMAIN file /\ file \in [DOMAIN file -> NodeType]
    BY DEF delete_file, HasParent, TreeInv, TreeTypes
  <1>2. PICK es \in Seq(Handles) : es = file[p].entries /\ Distinct(es) /\ h \in Range(es)
    <2>1. Range(file[p].entries) = Entries(p) /\ Distinct(file[p].entries) /\ h \in Entries(p)
      BY <1>1 DEF TreeInv, DirsMatch, Entries
    <2>2. file[p].entries \in Seq(Handles)
      BY <1>1 DEF NodeType
    <2> QED
      BY <2>1, <2>2
  <1>3. PICK rs \in Seq(Handles) : rs = RemoveFirst(es, h) /\ Len(rs) = Len(es) - 1
    BY <1>2, RemoveFirstDistinct, RemoveFirstLength
  <1>4. PICK r : r = [file[p] EXCEPT !.entries = rs]
    OBVIOUS
  <1>5. r \in NodeType /\ Counted(r)
    <2>1. file[p] \in NodeType /\ Counted(file[p])
      BY <1>1 DEF DirCntInv
    <2>2. r \in NodeType /\ r.entries = rs /\ r.cnt = file[p].cnt
      BY <1>4, <2>1 DEF NodeType
    <2>3. Len(es) \in Nat /\ Len(rs) \in Nat
      BY <1>2, <1>3
    <2> QED
      BY <1>2, <1>3, <2>1, <2>2, <2>3 DEF Counted
  <1>6. PICK u : u = [file EXCEPT ![p] = r]
    OBVIOUS
  <1>7. file' = [x \in DOMAIN file \ {h} |-> [u[x] EXCEPT !.parent = IF @ = h THEN FREED ELSE @]]
    BY <1>2, <1>3, <1>4, <1>6 DEF delete_file
  <1> HIDE DEF p
  <1>8. ASSUME NEW d \in DOMAIN file' PROVE Counted(file'[d])
    <2>1. d \in DOMAIN file /\ u[d] \in NodeType /\ Counted(u[d])
      <3>1. d \in DOMAIN file /\ u[d] = IF d = p THEN r ELSE file[d]
        BY <1>1, <1>6, <1>7
      <3>2. file[d] \in NodeType /\ Counted(file[d])
        BY <1>1, <3>1 DEF DirCntInv
      <3> QED
        BY <1>5, <3>1, <3>2
    <2>2. file'[d] = [u[d] EXCEPT !.parent = IF u[d].parent = h THEN FREED ELSE u[d].parent]
      BY <1>7
    <2>3. file'[d].entries = u[d].entries /\ file'[d].cnt = u[d].cnt
      BY <2>1, <2>2 DEF NodeType
    <2> QED
      BY <2>1, <2>3 DEF Counted
  <1> QED
    BY <1>8 DEF DirCntInv

(* RelistedNode by the names of its parts.                                 *)
NodesOn(D) == [D -> NodeType]

IsRelisted(D, f, d, es, c, r) ==
    /\ r \in NodesOn(D) /\ r[d].entries = es /\ r[d].cnt = c
    /\ \A x \in D : x # d => r[x] = f[x]

LEMMA RelistedIs ==
    ASSUME NEW D, NEW f \in NodesOn(D), NEW d \in D, NEW es \in Seq(Handles), NEW c \in Int
    PROVE  IsRelisted(D, f, d, es, c, Relisted(f, d, es, c))
  <1>1. f \in [D -> NodeType]
    BY DEF NodesOn
  <1> QED
    BY <1>1, RelistedNode DEF IsRelisted, NodesOn

(* vdf_move_file() counts down where the file was and up where it goes.    *)
LEMMA MoveCounts ==
    ASSUME TreeInv, DirCntInv, NEW h, NEW p, NEW n, move_file(h, p, n)
    PROVE  DirCntInv'
  <1> DEFINE old == file[h].parent
  <1>1. /\ h \in DOMAIN file /\ old \in DOMAIN file /\ p \in DOMAIN file /\ old # p
        /\ n \in MovedLfn(file[h].lfn)
    BY DEF move_file, HasParent, IsDir
  <1>2. /\ file \in [DOMAIN file -> NodeType] /\ h \in Handles /\ p \in Handles
    BY <1>1 DEF TreeInv, TreeTypes
  <1>3. n \in LfnExtras \cup {0}
    BY <1>1, <1>2 DEF MovedLfn, NodeType
  <1>4. PICK es \in Seq(Handles), fs \in Seq(Handles), lo \in Nat, hi \in Nat :
            /\ es = file[old].entries /\ fs = file[p].entries /\ lo = file[old].cnt /\ hi = file[p].cnt
            /\ Len(es) <= lo /\ Len(fs) <= hi
    <2>1. file[old].entries \in Seq(Handles) /\ file[p].entries \in Seq(Handles)
      BY <1>1, <1>2 DEF NodeType
    <2>2. Counted(file[old]) /\ Counted(file[p])
      BY <1>1 DEF DirCntInv
    <2> QED
      BY <2>1, <2>2 DEF Counted
  <1>5. Distinct(es) /\ h \in Range(es)
    BY <1>1, <1>4 DEF TreeInv, DirsMatch, Entries
  <1>6. PICK rs \in Seq(Handles) : rs = RemoveFirst(es, h) /\ Len(rs) = Len(es) - 1
    BY <1>5, RemoveFirstDistinct, RemoveFirstLength
  <1>7. PICK qs \in Seq(Handles) : qs = <<h>> \o fs /\ Len(qs) = Len(fs) + 1
    <2>1. <<h>> \in Seq(Handles) /\ Len(<<h>>) = 1
      BY <1>2, SingleList
    <2>2. <<h>> \o fs \in Seq(Handles) /\ Len(<<h>> \o fs) = Len(<<h>>) + Len(fs)
      BY <2>1, JoinedList
    <2>3. PICK m \in Nat : m = Len(fs)
      BY LenProperties
    <2>4. Len(<<h>> \o fs) = m + 1
      BY ONLY <2>1, <2>2, <2>3, SMT
    <2> QED
      BY <2>2, <2>3, <2>4, Zenon
  <1>8. PICK l1 \in Nat, h1 \in Nat : l1 = lo - 1 /\ h1 = hi + 1 /\ Len(rs) <= l1 /\ Len(qs) <= h1
    <2>2. PICK a \in Nat, b \in Nat, c \in Nat, k \in Nat :
              a = Len(es) /\ b = Len(rs) /\ c = Len(fs) /\ k = Len(qs)
      BY LenProperties
    <2>3. a <= lo /\ b = a - 1 /\ c <= hi /\ k = c + 1
      BY <1>4, <1>6, <1>7, <2>2, Zenon
    <2>4. lo - 1 \in Nat /\ hi + 1 \in Nat /\ b <= lo - 1 /\ k <= hi + 1
      BY ONLY <2>3, a \in Nat, b \in Nat, c \in Nat, k \in Nat, lo \in Nat, hi \in Nat, SMT
    <2> QED
      BY <2>2, <2>4, Zenon
  <1> HIDE DEF old
  <1>9. PICK f1 : f1 = Relisted(file, old, rs, l1)
    OBVIOUS
  <1>10. PICK f2 : f2 = Relisted(f1, p, qs, h1)
    OBVIOUS
  <1>11. /\ f1 \in [DOMAIN file -> NodeType] /\ f1[old].entries = rs /\ f1[old].cnt = l1
         /\ \A x \in DOMAIN file : x # old => f1[x] = file[x]
    <2>1. file \in NodesOn(DOMAIN file) /\ l1 \in Int
      BY <1>2 DEF NodesOn
    <2>2. IsRelisted(DOMAIN file, file, old, rs, l1, f1)
      BY <1>1, <1>9, <2>1, RelistedIs, Zenon
    <2> QED
      BY <2>2, Zenon DEF IsRelisted, NodesOn
  <1>12. /\ f2 \in [DOMAIN file -> NodeType] /\ f2[p].entries = qs /\ f2[p].cnt = h1
         /\ \A x \in DOMAIN file : x # p => f2[x] = f1[x]
    <2>1. f1 \in NodesOn(DOMAIN file) /\ h1 \in Int
      BY <1>11 DEF NodesOn
    <2>2. IsRelisted(DOMAIN file, f1, p, qs, h1, f2)
      BY <1>1, <1>10, <2>1, RelistedIs, Zenon
    <2> QED
      BY <2>2, Zenon DEF IsRelisted, NodesOn
  <1>13. file' = Rehomed(f2, h, p, n)
    <2>1. f1 = [file EXCEPT ![old].entries = RemoveFirst(@, h), ![old].cnt = @ - 1]
      BY <1>4, <1>6, <1>8, <1>9 DEF Relisted
    <2>2. f1[p].entries = fs /\ f1[p].cnt = hi
      BY <1>1, <1>4, <1>11
    <2>3. f2 = [f1 EXCEPT ![p].entries = <<h>> \o @, ![p].cnt = @ + 1]
      BY <1>7, <1>8, <1>10, <2>2 DEF Relisted
    <2> QED
      BY <2>1, <2>3 DEF move_file, old, Rehomed
  <1>14. /\ DOMAIN file' = DOMAIN file
         /\ \A x \in DOMAIN file : file'[x].entries = f2[x].entries /\ file'[x].cnt = f2[x].cnt
    <2>1. PICK m \in LfnExtras \cup {0} : m = n
      BY <1>3
    <2>2. /\ Rehomed(f2, h, p, n) \in [DOMAIN file -> NodeType]
          /\ Rehomed(f2, h, p, n)[h].entries = f2[h].entries
          /\ Rehomed(f2, h, p, n)[h].cnt = f2[h].cnt
          /\ \A x \in DOMAIN file : x # h => Rehomed(f2, h, p, n)[x] = f2[x]
      BY <1>1, <1>2, <1>12, <2>1, RehomedNode
    <2> QED
      BY <1>13, <2>2
  <1>15. ASSUME NEW d \in DOMAIN file PROVE Counted(f2[d])
    <2>1. CASE d = p
      BY <1>8, <1>12, <2>1 DEF Counted
    <2>2. CASE d = old
      BY <1>1, <1>8, <1>11, <1>12, <2>2 DEF Counted
    <2>3. CASE d # p /\ d # old
      BY <1>11, <1>12, <2>3 DEF DirCntInv
    <2> QED
      BY <2>1, <2>2, <2>3
  <1> QED
    BY <1>14, <1>15 DEF DirCntInv, Counted

(* The order of qsort().                                                   *)
Ahead(s, j, i) == s[j].sectstart < s[i].sectstart \/ (s[j].sectstart = s[i].sectstart /\ j < i)

(* Every range has a place of its own among n, so qsort() returns n ranges. *)
LEMMA PlacesDiffer ==
    ASSUME NEW s \in Seq(RangeType), NEW n \in Nat, n = Len(s)
    PROVE  /\ \A i \in 1..n : PlaceOf(s, i) \in 1..n
           /\ \A i, j \in 1..n : PlaceOf(s, i) = PlaceOf(s, j) => i = j
  <1> DEFINE Before(i) == {j \in 1..n : Ahead(s, j, i)}
  <1>1. DOMAIN s = 1..n /\ \A i \in 1..n : s[i].sectstart \in Nat
    <2>1. DOMAIN s = 1..n /\ \A i \in 1..n : s[i] \in RangeType
      BY ElementOfSeq, LenProperties
    <2> QED
      BY <2>1 DEF RangeType
  <1>2. ASSUME NEW i \in 1..n PROVE PlaceOf(s, i) = 1 + Cardinality(Before(i))
    <2>1. PlaceOf(s, i) = 1 + Cardinality({j \in DOMAIN s : Ahead(s, j, i)})
      BY Zenon DEF PlaceOf, Ahead
    <2> QED
      BY <1>1, <2>1
  <1>3. IsFiniteSet(1..n) /\ Cardinality(1..n) = n
    <2>1. IsFiniteSet(1..n)
      BY FS_Interval
    <2>2. 1 \in Int /\ n \in Int
      OBVIOUS
    <2>3. Cardinality(1..n) = IF 1 > n THEN 0 ELSE n - 1 + 1
      BY <2>2, FS_Interval, Zenon
    <2> QED
      BY <2>1, <2>3
  <1>4. ASSUME NEW i \in 1..n
        PROVE  /\ Before(i) \in SUBSET (1..n) /\ i \notin Before(i)
               /\ IsFiniteSet(Before(i)) /\ Cardinality(Before(i)) \in Nat
    <2>1. ~Ahead(s, i, i)
      BY <1>1 DEF Ahead
    <2>2. Before(i) \in SUBSET (1..n) /\ i \notin Before(i)
      BY <2>1
    <2> HIDE DEF Before
    <2>3. IsFiniteSet(Before(i))
      BY <1>3, <2>2, FS_Subset
    <2> QED
      BY <2>2, <2>3, FS_CardinalityType
  <1>5. ASSUME NEW i \in 1..n, NEW T \in SUBSET (1..n), i \in T, Before(i) \subseteq T
        PROVE  Cardinality(Before(i)) + 1 <= Cardinality(T)
    <2> HIDE DEF Before
    <2>1. IsFiniteSet(T)
      BY <1>3, FS_Subset
    <2>2. IsFiniteSet(Before(i) \cup {i}) /\ Cardinality(Before(i) \cup {i}) = Cardinality(Before(i)) + 1
      BY <1>4, FS_AddElement
    <2>3. Before(i) \cup {i} \in SUBSET T
      BY <1>5
    <2>4. Cardinality(Before(i) \cup {i}) <= Cardinality(T)
      BY <2>1, <2>3, FS_Subset
    <2> QED
      BY <2>2, <2>4
  <1>6. ASSUME NEW i \in 1..n, NEW j \in 1..n, i \in Before(j) PROVE PlaceOf(s, i) # PlaceOf(s, j)
    <2>1. Before(i) \subseteq Before(j)
      <3> SUFFICES ASSUME NEW k \in Before(i) PROVE k \in Before(j)
        OBVIOUS
      <3>1. PICK a \in Nat, b \in Nat, c \in Nat :
                a = s[k].sectstart /\ b = s[i].sectstart /\ c = s[j].sectstart
        BY <1>1
      <3>2. a < b \/ (a = b /\ k < i)
        BY <3>1 DEF Ahead
      <3>3. b < c \/ (b = c /\ i < j)
        BY <1>6, <3>1 DEF Ahead
      <3>4. a < c \/ (a = c /\ k < j)
        BY ONLY <3>2, <3>3, a \in Nat, b \in Nat, c \in Nat, i \in 1..n, j \in 1..n, k \in 1..n, n \in Nat, SMT
      <3>5. Ahead(s, k, j)
        BY <3>1, <3>4, Zenon DEF Ahead
      <3> QED
        BY <3>5
    <2> HIDE DEF Before
    <2>2. Cardinality(Before(i)) + 1 <= Cardinality(Before(j))
      BY <1>4, <1>5, <1>6, <2>1
    <2>3. PICK x \in Nat, y \in Nat : x = Cardinality(Before(i)) /\ y = Cardinality(Before(j))
      BY <1>4
    <2> QED
      BY <1>2, <2>2, <2>3
  <1>7. ASSUME NEW i \in 1..n PROVE PlaceOf(s, i) \in 1..n
    <2> HIDE DEF Before
    <2>1. Cardinality(Before(i)) + 1 <= n
      BY <1>3, <1>4, <1>5
    <2>2. PICK x \in Nat : x = Cardinality(Before(i))
      BY <1>4
    <2> QED
      BY <1>2, <2>1, <2>2
  <1>8. ASSUME NEW i \in 1..n, NEW j \in 1..n, i # j PROVE i \in Before(j) \/ j \in Before(i)
    <2>1. PICK b \in Nat, c \in Nat : b = s[i].sectstart /\ c = s[j].sectstart
      BY <1>1
    <2>2. b < c \/ c < b \/ (b = c /\ (i < j \/ j < i))
      BY <1>8
    <2>3. Ahead(s, i, j) \/ Ahead(s, j, i)
      BY <2>1, <2>2 DEF Ahead
    <2> QED
      BY <2>3
  <1> HIDE DEF Before
  <1> QED
    BY <1>6, <1>7, <1>8, Zenon

(* qsort() returns ranges.                                                 *)
LEMMA SortedType ==
    ASSUME NEW s \in Seq(RangeType)
    PROVE  Sorted(s) \in Seq(RangeType)
  <1>1. PICK n \in Nat : n = Len(s)
    BY LenProperties
  <1>2. DOMAIN s = 1..n /\ \A i \in 1..n : s[i] \in RangeType
    BY <1>1, ElementOfSeq, LenProperties
  <1>3. PICK f : f = [i \in 1..n |-> PlaceOf(s, i)]
    OBVIOUS
  <1>4. f \in Injection(1..n, 1..n)
    <2>1. /\ \A i \in 1..n : PlaceOf(s, i) \in 1..n
          /\ \A i, j \in 1..n : PlaceOf(s, i) = PlaceOf(s, j) => i = j
      BY <1>1, PlacesDiffer
    <2> QED
      BY <1>3, <2>1 DEF Injection, IsInjective
  <1>5. f \in Surjection(1..n, 1..n)
    <2>1. IsFiniteSet(1..n)
      BY FS_Interval
    <2> QED
      BY <1>4, <2>1, FS_Injection
  <1>6. ASSUME NEW k \in 1..n PROVE (CHOOSE i \in DOMAIN s : PlaceOf(s, i) = k) \in 1..n
    <2>1. \E i \in 1..n : f[i] = k
      BY <1>5 DEF Surjection
    <2>2. \E i \in 1..n : PlaceOf(s, i) = k
      BY <1>3, <2>1
    <2> QED
      BY <1>2, <2>2
  <1>7. Sorted(s) = [k \in 1..n |-> s[CHOOSE i \in DOMAIN s : PlaceOf(s, i) = k]]
    BY <1>2, Zenon DEF Sorted
  <1>8. Sorted(s) \in [1..n -> RangeType]
    BY <1>2, <1>6, <1>7
  <1> QED
    BY <1>8, Listing

(* The range that is written for a file.                                   *)
LEMMA RangeIs ==
    ASSUME NEW g, GeomOK(g), NEW h \in Handles, NEW x \in ExtentType
    PROVE  RangeOf(g, h, x) \in RangeType
  <1>1. x.clusters * g.spc \in Nat
    BY DEF ExtentType, GeomOK
  <1>2. PICK m \in Nat : m = x.clusters * g.spc
    BY <1>1
  <1>3. x.startsect + m \in Nat /\ x.startsect \in Nat /\ x.start \in Nat /\ x.end \in Nat
    BY DEF ExtentType
  <1> QED
    BY <1>2, <1>3 DEF RangeOf, RangeType

(* The second loop of vdf_drive_recalc() writes ranges, and not fewer of   *)
(* them than the first has counted.                                        *)
LEMMA WrittenType ==
    ASSUME NEW g, GeomOK(g), NEW D, D \subseteq Handles, NEW E \in [D -> ExtentType],
           NEW a \in Seq(D), Distinct(a), NEW p, p = PlacedFrom(g, E, a), NEW f
    PROVE  RangesFor(f, a, g, p.d, p.e) \in Seq(RangeType)
  <1>0. PICK n \in Nat : n = Len(a)
    BY LenProperties
  <1>1. Extents(E) /\ DOMAIN E = D
    BY NumbersAreExtents
  <1>2. PICK P : Places(P, g, E, a)
    BY <1>0, PlacedFromIs, Zenon
  <1>3. \A k \in 0..n : LoopOK(P, E, a, k)
    BY <1>0, <1>1, <1>2, PlacesAre
  <1>4. \A k \in 0..n : IsCount(P[k].d)
    BY <1>0, <1>2, PlacesNumbers
  <1>5. PICK e : e = p.e
    OBVIOUS
  <1>6. PICK W : Writes(W, f, a, g, e)
    BY <1>0, WrittenIs, Zenon
  <1>7. /\ P[0] = [d |-> LayoutStart(g), e |-> E] /\ p = P[n]
        /\ \A k \in 1..n : P[k] = PlaceNext(g, P[k - 1], a[k])
    BY <1>0, <1>2, Zenon DEF Places
  <1>8. /\ W[0] = <<>> /\ WrittenOf(f, a, g, e) = W[n]
        /\ \A k \in 1..n : W[k] = WriteNext(W[k - 1], f, a, g, e, k)
    BY <1>0, <1>5, <1>6, Zenon DEF Writes
  <1>9. \A k \in 1..n : a[k] \in D
    BY <1>0, ElementOfSeq
  <1>10. e \in [D -> ExtentType] /\ IsPlacing(p, E)
    <2>1. e \in [D -> ExtentType]
      BY <1>5, PlacedNumbers
    <2>2. n \in 0..n
      OBVIOUS
    <2> QED
      BY <1>3, <1>7, <2>1, <2>2 DEF LoopOK
  <1> DEFINE Good(k) == W[k] \in Seq(RangeType) /\ P[k].d.nonempty <= Len(W[k])
             S == {k \in Nat : k <= n => Good(k)}
  <1>11. 0 \in S
    <2>1. P[0].d = LayoutStart(g)
      BY <1>7
    <2>2. P[0].d.nonempty = 0
      BY <2>1 DEF LayoutStart
    <2>3. <<>> \in Seq(RangeType) /\ 0 <= Len(<<>>)
      OBVIOUS
    <2> QED
      BY <1>8, <2>2, <2>3
  <1>12. ASSUME NEW k \in Nat, k \in S PROVE k + 1 \in S
    <2>1. SUFFICES ASSUME k + 1 <= n PROVE Good(k + 1)
      OBVIOUS
    <2>2. k + 1 \in 1..n /\ k + 1 - 1 = k /\ k \in 0..n
      BY <2>1
    <2>3. PICK acc, nxt, h, x : acc = P[k] /\ nxt = P[k + 1] /\ h = a[k + 1] /\ x = e[h]
      OBVIOUS
    <2>4. PICK u, c : u = W[k] /\ c = acc.d.nonempty
      OBVIOUS
    <2>5. u \in Seq(RangeType) /\ c <= Len(u) /\ Len(u) \in Nat
      BY <1>12, <2>1, <2>3, <2>4, LenProperties
    <2>6. c \in Nat
      BY <1>4, <2>2, <2>3, <2>4 DEF IsCount
    <2>7. IsTurn(g, E, acc, h, nxt)
      <3>1. IsPlacing(acc, E)
        BY <1>3, <2>2, <2>3 DEF LoopOK
      <3>2. nxt = PlaceNext(g, acc, h) /\ h \in DOMAIN E
        BY <1>1, <1>7, <1>9, <2>2, <2>3
      <3> QED
        BY <3>1, <3>2 DEF IsTurn
    <2>8. nxt.d = IF acc.d.ok THEN OffsizeDrive(g, acc.d, acc.e[h]) ELSE acc.d
      BY ONLY <2>7, PlaceNextIs
    <2>9. h \in D /\ x \in ExtentType /\ acc.e[h].size = x.size
      <3>1. h \in D /\ SameSize(acc.e[h], E[h])
        BY <1>1, <2>7 DEF IsTurn, IsPlacing
      <3>2. SameSize(x, E[h])
        BY <1>1, <1>5, <1>10, <2>3, <3>1 DEF IsPlacing
      <3> QED
        BY <1>10, <2>3, <3>1, <3>2 DEF SameSize
    <2>10. nxt.d.nonempty = c \/ (nxt.d.nonempty = c + 1 /\ x.size # 0)
      <3>1. CASE acc.d.ok /\ x.size # 0
        <4>1. OffsizeDrive(g, acc.d, acc.e[h]).nonempty = acc.d.nonempty + 1
          BY <2>9, <3>1 DEF OffsizeDrive
        <4> QED
          BY <2>4, <2>8, <3>1, <4>1
      <3>2. CASE ~(acc.d.ok /\ x.size # 0)
        <4>1. nxt.d = acc.d
          BY <2>8, <2>9, <3>2 DEF OffsizeDrive
        <4> QED
          BY <2>4, <4>1
      <3> QED
        BY <3>1, <3>2
    <2>11. PICK r \in RangeType : r = RangeOf(g, h, x)
      BY <2>9, RangeIs
    <2>12. Append(u, r) \in Seq(RangeType) /\ Len(Append(u, r)) = Len(u) + 1
      BY <2>5, AppendProperties
    <2>13. W[k + 1] = IF HasRange(f[h].dir, x) THEN Append(u, r) ELSE u
      BY <1>8, <2>2, <2>3, <2>4, <2>11 DEF WriteNext
    <2>14. CASE HasRange(f[h].dir, x)
      <3>1. nxt.d.nonempty <= Len(u) + 1
        BY <2>5, <2>6, <2>10
      <3> QED
        BY <2>3, <2>12, <2>13, <2>14, <3>1
    <2>15. CASE ~HasRange(f[h].dir, x)
      <3>1. nxt.d.nonempty = c
        BY <2>10, <2>15 DEF HasRange
      <3> QED
        BY <2>3, <2>5, <2>13, <2>15, <3>1
    <2> QED
      BY <2>14, <2>15
  <1>13. n \in S
    <2> HIDE DEF S
    <2> QED
      BY <1>11, <1>12, SetInduction
  <1>14. PICK w \in Seq(RangeType), c \in Nat, m \in Nat :
             w = WrittenOf(f, a, g, e) /\ c = p.d.nonempty /\ m = Len(w) /\ c <= m
    <2>1. W[n] \in Seq(RangeType) /\ P[n].d.nonempty <= Len(W[n])
      BY <1>13
    <2>2. n \in 0..n
      OBVIOUS
    <2>3. P[n].d.nonempty \in Nat
      BY <1>4, <2>2 DEF IsCount
    <2>4. Len(W[n]) \in Nat
      BY <2>1, LenProperties
    <2> QED
      BY <1>7, <1>8, <2>1, <2>3, <2>4
  <1>15. PICK s \in Seq(RangeType), t \in Seq(RangeType) : s = SubSeq(w, 1, c) /\ t = SubSeq(w, c + 1, m)
    <2>1. \A i \in 1..m : w[i] \in RangeType
      BY <1>14, ElementOfSeq
    <2>2. SubSeq(w, 1, c) \in Seq(RangeType) /\ SubSeq(w, c + 1, m) \in Seq(RangeType)
      BY <1>14, <2>1, SubSeqProperties
    <2> QED
      BY <2>2
  <1>16. RangesFor(f, a, g, p.d, p.e) = Sorted(s) \o t
    BY <1>5, <1>14, <1>15 DEF RangesFor
  <1>17. Sorted(s) \in Seq(RangeType)
    BY SortedType
  <1> QED
    BY <1>16, <1>17, JoinedList

(* DirCntInv holds of a new drive and after every step.                    *)
LEMMA DirCntInit == Init => DirCntInv
  <1> SUFFICES ASSUME Init PROVE DirCntInv
    OBVIOUS
  <1>1. file = [x \in {Root} |-> NewFile(NULL, TRUE, FALSE, 0)]
    BY DEF Init, TreeInit
  <1>2. Counted(NewFile(NULL, TRUE, FALSE, 0))
    BY DEF NewFile, Counted
  <1> QED
    BY <1>1, <1>2 DEF DirCntInv

LEMMA FileNextCounts ==
    ASSUME TreeInv, DirCntInv, FileNext
    PROVE  DirCntInv'
  <1>0. file \in [DOMAIN file -> NodeType]
    BY DEF TreeInv, TreeTypes
  <1>1. ASSUME UNCHANGED file PROVE DirCntInv'
    BY <1>1 DEF DirCntInv
  <1>2. ASSUME NEW p, NEW h, NEW n, NEW dir, NEW virt, NEW ext,
               create_file(geom, p, h, NewFile(p, dir, virt, n), ext)
        PROVE  DirCntInv'
    <2>1. Counted(NewFile(p, dir, virt, n))
      BY DEF NewFile, Counted
    <2> QED
      BY <1>2, <2>1, CreateCounts
  <1>3. ASSUME NEW p \in Handles, AddFails(p) PROVE DirCntInv'
    <2>1. p \in DOMAIN file /\ file' = [file EXCEPT ![p].cnt = @ + 1]
      BY <1>3 DEF AddFails, create_file_fails, IsDir
    <2>2. file[p] \in NodeType /\ Counted(file[p])
      BY <1>0, <2>1 DEF DirCntInv
    <2>3. PICK es \in Seq(Handles), c \in Nat : es = file[p].entries /\ c = file[p].cnt /\ Len(es) <= c
      BY <2>2 DEF NodeType, Counted
    <2>4. PICK r : r = [file[p] EXCEPT !.cnt = c + 1]
      OBVIOUS
    <2>5. r.cnt = c + 1 /\ r.entries = es
      BY <2>2, <2>3, <2>4 DEF NodeType
    <2>6. Counted(r)
      <3>1. PICK m \in Nat : m = Len(es)
        BY LenProperties
      <3> QED
        BY <2>3, <2>5, <3>1 DEF Counted
    <2>7. file' = [file EXCEPT ![p] = r]
      BY <2>1, <2>3, <2>4
    <2>8. DOMAIN file' = DOMAIN file /\ \A d \in DOMAIN file : file'[d] = IF d = p THEN r ELSE file[d]
      BY <1>0, <2>1, <2>7
    <2> QED
      BY <2>6, <2>8 DEF DirCntInv
  <1>4. ASSUME NEW h, NEW n, set_name(h, n) PROVE DirCntInv'
    <2>1. h \in DOMAIN file /\ file' = [file EXCEPT ![h].lfn = n]
      BY <1>4 DEF set_name, HasParent
    <2>2. PICK r : r = [file[h] EXCEPT !.lfn = n]
      OBVIOUS
    <2>3. file[h] \in NodeType /\ Counted(file[h])
      BY <1>0, <2>1 DEF DirCntInv
    <2>4. r.cnt = file[h].cnt /\ r.entries = file[h].entries
      BY <2>2, <2>3 DEF NodeType
    <2>5. DOMAIN file' = DOMAIN file /\ \A d \in DOMAIN file : file'[d] = IF d = h THEN r ELSE file[d]
      BY <1>0, <2>1, <2>2
    <2> QED
      BY <2>3, <2>4, <2>5 DEF DirCntInv, Counted
  <1>5. CASE \E p, h \in Handles, n \in LfnExtras : AddDir(p, h, n)
    BY <1>2, <1>5 DEF AddDir
  <1>6. CASE \E p, h \in Handles, n \in LfnExtras, s \in RealSizes : AddFileReal(p, h, n, s)
    BY <1>2, <1>6 DEF AddFileReal
  <1>7. CASE \E p, h \in Handles, n \in LfnExtras, s \in VirtSizes : AddFileVirt(p, h, n, s)
    BY <1>2, <1>7 DEF AddFileVirt
  <1>8. CASE \E h \in Handles : DeleteFile(h)
    BY <1>8, DeleteCounts DEF DeleteFile
  <1>9. CASE \E h, p \in Handles, n \in LfnExtras : MoveFile(h, p, n)
    BY <1>9, MoveCounts DEF MoveFile
  <1>10. CASE \E h \in Handles, n \in LfnExtras : SetFileName(h, n) \/ SetFileShortname(h, n)
    BY <1>4, <1>10 DEF SetFileName, SetFileShortname
  <1>11. CASE \E h \in Handles : SetFileMeta(h) \/ \E s \in VirtSizes : SetFileSize(h, s)
    BY <1>1, <1>11 DEF SetFileMeta, SetFileSize, treevars
  <1> QED
    BY <1>3, <1>5, <1>6, <1>7, <1>8, <1>9, <1>10, <1>11 DEF FileNext

LEMMA DirCntStep == TreeInv /\ DirCntInv /\ [Next]_vars => DirCntInv'
  <1> SUFFICES ASSUME TreeInv, DirCntInv, [Next]_vars PROVE DirCntInv'
    OBVIOUS
  <1>1. ASSUME UNCHANGED file PROVE DirCntInv'
    BY <1>1 DEF DirCntInv
  <1>2. CASE FileNext
    BY <1>2, FileNextCounts
  <1>3. ASSUME vdf_drive_recalc PROVE file' = file
    BY <1>3 DEF vdf_drive_recalc, treevars
  <1>4. CASE Recalc \/ Lock \/ DumpDrive
    BY <1>1, <1>3, <1>4 DEF Recalc, Lock, DumpDrive, vdf_drive_lock, treevars
  <1>5. CASE \E g \in Geoms : Recreate(g)
    BY <1>1, <1>5 DEF Recreate, relist_root
  <1>6. CASE Unlock \/ SetLabelFails \/ Free \/ UNCHANGED vars
    BY <1>1, <1>6 DEF Unlock, SetLabelFails, Free, vars, treevars
  <1>7. CASE (\E on \in Labels : SetLabel(on)) \/ (\E s \in Serials : SetSerial(s))
    BY <1>1, <1>7 DEF SetLabel, SetSerial, treevars
  <1> QED
    BY <1>2, <1>4, <1>5, <1>6, <1>7 DEF Next, DriveNext, DumpDriveFails

(* The fields of the drive beside the tree and the dirty flag.             *)
FieldsInv ==
    /\ serial \in Serials /\ alive \in BOOLEAN /\ have_ranges \in BOOLEAN
    /\ lockcnt \in 0..MaxLock
    /\ ranges \in Seq(RangeType)
    /\ nonempty_file_cnt \in Nat /\ data_end \in Nat /\ data_cluster_end \in Nat

LEMMA FieldsInit == Init => FieldsInv
  <1> SUFFICES ASSUME Init PROVE FieldsInv
    OBVIOUS
  <1>1. 0 \in 0..MaxLock
    BY DriveAssumption
  <1>2. geom.data_start \in Nat
    BY GeomsOK DEF Init, GeomOK
  <1>3. <<>> \in Seq(RangeType)
    OBVIOUS
  <1>4. /\ serial \in Serials /\ alive = TRUE /\ have_ranges = FALSE /\ lockcnt = 0 /\ ranges = <<>>
        /\ nonempty_file_cnt = 0 /\ data_end = geom.data_start /\ data_cluster_end = 0
    BY DEF Init
  <1> QED
    BY <1>1, <1>2, <1>3, <1>4 DEF FieldsInv

(* vdf_drive_recalc() writes what these fields are declared to hold.       *)
LEMMA RecalcFields ==
    ASSUME CurrentInv, NumInv, FieldsInv, vdf_drive_recalc
    PROVE  /\ ranges' \in Seq(RangeType) /\ have_ranges' \in BOOLEAN
           /\ nonempty_file_cnt' \in Nat /\ data_end' \in Nat /\ data_cluster_end' \in Nat
  <1>1. CASE ~dirty /\ UNCHANGED <<treevars, layoutvars>>
    BY <1>1 DEF layoutvars, FieldsInv
  <1>2. CASE dirty
    <2>0. TreeInv /\ DOMAIN extent = DOMAIN file /\ GeomOK(geom)
      BY GeomsOK DEF CurrentInv, ExtentInv, NumInv
    <2>1. PICK p : p = PlacedWith(label)
      OBVIOUS
    <2>2. /\ nonempty_file_cnt' = p.d.nonempty /\ data_end' = p.d.dend /\ data_cluster_end' = p.d.cend
          /\ \/ have_ranges' = TRUE /\ ranges' = RangesOf(p.d, p.e)
             \/ have_ranges' = have_ranges /\ ranges' = ranges
      BY <1>2, <2>1 DEF vdf_drive_recalc, Placed
    <2>3. PICK E, D : /\ E = Resized(extent, VisitedOf(file), DirSizes(file, geom, label),
                                     DirClusters(file, geom, label))
                      /\ D = DOMAIN file
      OBVIOUS
    <2>4. p = PlacedFrom(geom, E, all_files)
      BY <2>0, <2>1, <2>3, LayoutIs DEF LayoutOf
    <2>5. E \in [D -> ExtentType]
      BY <2>0, <2>3, SizedNumbers
    <2>6. all_files \in Seq(D) /\ Distinct(all_files) /\ D \subseteq Handles
      BY <2>0, <2>3, FlatListIs DEF TreeInv, TreeTypes
    <2>7. IsCount(p.d)
      BY <2>0, <2>4, <2>5, <2>6, PlacedNumbers
    <2>8. RangesFor(file, all_files, geom, p.d, p.e) \in Seq(RangeType)
      BY <2>0, <2>4, <2>5, <2>6, WrittenType
    <2>9. RangesOf(p.d, p.e) \in Seq(RangeType)
      <3>1. PICK d, e : d = p.d /\ e = p.e
        OBVIOUS
      <3>2. RangesOf(d, e) = RangesFor(file, all_files, geom, d, e)
        BY RangesForIs
      <3> QED
        BY <2>8, <3>1, <3>2
    <2> QED
      BY <2>2, <2>7, <2>9 DEF IsCount, FieldsInv
  <1> QED
    BY <1>1, <1>2 DEF vdf_drive_recalc

LEMMA FieldsStep == CurrentInv /\ NumInv /\ FieldsInv /\ [Next]_vars => FieldsInv'
  <1> SUFFICES ASSUME CurrentInv, NumInv, FieldsInv, [Next]_vars PROVE FieldsInv'
    OBVIOUS
  <1>0. dirty \in BOOLEAN /\ MaxLock \in Nat
    BY DriveAssumption DEF CurrentInv, ExtentInv
  <1>1. ASSUME UNCHANGED <<serial, alive, lockcnt>>, set_drive_dirty PROVE FieldsInv'
    <2>1. <<>> \in Seq(RangeType)
      OBVIOUS
    <2>2. ranges' \in Seq(RangeType) /\ have_ranges' \in BOOLEAN
      BY <1>0, <1>1, <2>1 DEF set_drive_dirty, FieldsInv
    <2> QED
      BY <1>1, <2>2 DEF set_drive_dirty, FieldsInv
  <1>2. ASSUME UNCHANGED layoutvars, serial' \in Serials, alive' \in BOOLEAN, lockcnt' \in 0..MaxLock
        PROVE  FieldsInv'
    BY <1>2 DEF layoutvars, FieldsInv
  <1>3. ASSUME vdf_drive_recalc, UNCHANGED <<serial, alive>>, lockcnt' \in 0..MaxLock
        PROVE  FieldsInv'
    BY <1>3, RecalcFields DEF FieldsInv
  <1>4. serial \in Serials /\ alive \in BOOLEAN /\ lockcnt \in 0..MaxLock
    BY DEF FieldsInv
  <1>5. CASE FileNext
    BY <1>1, <1>5, FileNextChangesTree DEF ChangesTree, setupvars
  <1>6. CASE Recalc \/ DumpDrive
    BY <1>2, <1>3, <1>4, <1>6 DEF Recalc, DumpDrive, setupvars
  <1>7. CASE Lock
    <2>1. UNCHANGED <<serial, alive>> /\ vdf_drive_lock /\ lockcnt < MaxLock
      BY <1>7 DEF Lock
    <2>2. CASE lockcnt = 0 /\ vdf_drive_recalc /\ lockcnt' = IF dirty' THEN 0 ELSE 1
      <3>1. lockcnt' \in 0..MaxLock
        BY <1>0, <2>1, <2>2
      <3> QED
        BY <1>3, <2>1, <2>2, <3>1
    <2>3. CASE lockcnt' = lockcnt + 1 /\ UNCHANGED layoutvars
      <3>1. lockcnt' \in 0..MaxLock
        BY <1>0, <1>4, <2>1, <2>3
      <3> QED
        BY <1>2, <1>4, <2>1, <2>3, <3>1
    <2> QED
      BY <2>1, <2>2, <2>3 DEF vdf_drive_lock
  <1>8. CASE Unlock
    <2>1. lockcnt' \in 0..MaxLock
      BY <1>0, <1>4, <1>8 DEF Unlock
    <2> QED
      BY <1>2, <1>4, <1>8, <2>1 DEF Unlock
  <1>9. CASE SetLabelFails \/ Free \/ UNCHANGED vars
    BY <1>2, <1>4, <1>9 DEF SetLabelFails, Free, vars, setupvars
  <1>10. CASE \E on \in Labels : SetLabel(on)
    BY <1>1, <1>10 DEF SetLabel
  <1>11. CASE \E s \in Serials : SetSerial(s)
    BY <1>2, <1>4, <1>11 DEF SetSerial
  <1>12. CASE \E g \in Geoms : Recreate(g)
    <2>1. PICK g \in Geoms : data_end' = g.data_start
      BY <1>12 DEF Recreate
    <2>2. data_end' \in Nat
      BY <2>1, GeomsOK DEF GeomOK
    <2>3. UNCHANGED <<serial, alive, lockcnt, have_ranges, ranges, nonempty_file_cnt, data_cluster_end>>
      BY <1>12 DEF Recreate
    <2> QED
      BY <2>2, <2>3 DEF FieldsInv
  <1> QED
    BY <1>5, <1>6, <1>7, <1>8, <1>9, <1>10, <1>11, <1>12 DEF Next, DriveNext, DumpDriveFails

(* What the parts of the invariant say about types.                        *)
LEMMA TypesFromParts ==
    CurrentInv /\ NumInv /\ CountInv /\ DirCntInv /\ FieldsInv => TypeOK
  <1> SUFFICES ASSUME CurrentInv, NumInv, CountInv, DirCntInv, FieldsInv PROVE TypeOK
    OBVIOUS
  <1>1. /\ DOMAIN file \subseteq Handles /\ Root \in DOMAIN file /\ all_files \in Seq(Handles)
        /\ file \in [DOMAIN file -> NodeType]
    BY DEF CurrentInv, TreeInv, TreeTypes
  <1>2. DOMAIN extent = DOMAIN file /\ label \in BOOLEAN /\ dirty \in BOOLEAN
    BY DEF CurrentInv, ExtentInv
  <1>3. ASSUME NEW h \in DOMAIN file PROVE file[h] \in FileType /\ extent[h] \in ExtentType
    <2>1. LfnExtras \cup {0} = LfnExtras
      BY SizesAssumption
    <2>2. file[h] \in NodeType /\ file[h].cnt \in Nat
      BY <1>1 DEF DirCntInv, Counted
    <2>3. file[h] \in FileType
      BY <2>1, <2>2 DEF NodeType, FileType
    <2> QED
      BY <2>3 DEF NumInv
  <1>4. file_cnt \in Nat /\ geom \in Geoms
    BY DEF CountInv, NumInv
  <1>5. /\ serial \in Serials /\ alive \in BOOLEAN /\ have_ranges \in BOOLEAN
        /\ lockcnt \in 0..MaxLock /\ ranges \in Seq(RangeType)
        /\ nonempty_file_cnt \in Nat /\ data_end \in Nat /\ data_cluster_end \in Nat
    BY DEF FieldsInv
  <1> QED
    BY ONLY <1>1, <1>2, <1>3, <1>4, <1>5, Zenon DEF TypeOK

(* The fields of the two structs hold what they are declared to hold.  The *)
(* counters, which are unsigned in the code, are the hard part: dir.cnt    *)
(* and file_cnt are counted down by operations that do not look at them,   *)
(* and stay above the lengths of their lists; nonempty_file_cnt, for which *)
(* the array of ranges is sorted, never exceeds what is written there.     *)
THEOREM DriveTypeOK == Spec => []TypeOK
  <1> DEFINE Inv == CurrentInv /\ NumInv /\ CountInv /\ DirCntInv /\ FieldsInv
  <1>1. Init => Inv
    BY CurrentInvInit, NumInvInit, CountInvInit, DirCntInit, FieldsInit
  <1>2. Inv /\ [Next]_vars => Inv'
    BY CurrentInvStep, NumInvStep, CountInvStep, DirCntStep, FieldsStep DEF CurrentInv
  <1>3. Inv => TypeOK
    BY TypesFromParts
  <1> QED
    BY <1>1, <1>2, <1>3, PTL DEF Spec
=============================================================================
