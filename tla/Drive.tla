------------------------------- MODULE Drive --------------------------------
(***************************************************************************)
(* A vdf_drive (libvdf/drive.c) with its files (FileTree): the lock, the   *)
(* dirty flag, the recalculation that turns the file tree into a layout,   *)
(* and every call of the API that changes the drive.                       *)
(*                                                                         *)
(* The geometry that createdrive_ext() works out from the drive's size is  *)
(* one of the records in Geoms.  Calls that the code refuses (EINVAL,      *)
(* EPERM, EEXIST, ENOSPC) change nothing and are the guards of the         *)
(* actions.  The API is not thread safe; an action is a whole call.        *)
(***************************************************************************)
EXTENDS FileTree

CONSTANTS
    Geoms,          \* what createdrive_ext() may compute
    Bps,            \* drv->bps
    DirentSize,     \* the 32 bytes of a directory entry
    SizeMod,        \* 2^32, where filesz_t wraps
    RealSizes,      \* st_size of the files on disk, may exceed filesz_t
    VirtSizes,      \* sizes passed to vdf_set_file_size()
    Labels,         \* what vdf_set_drive_label() is asked for: a label or none
    Serials,
    AllocMayFail,   \* whether malloc() and strdup() may return NULL
    AppMayFree,     \* whether the application may call vdf_drive_free()
    MaxLock,        \* bound on nested locks
    MaxCnt,         \* bound on dir.cnt, which grows with every deletion
    MaxFileCnt      \* bound on file_cnt, which grows with every failure

ASSUME DriveAssumption ==
    /\ MaxLock \in Nat
    /\ AllocMayFail \in BOOLEAN
    /\ AppMayFree \in BOOLEAN
    /\ Labels \subseteq BOOLEAN

ASSUME SizesAssumption ==
    /\ Bps \in Nat \ {0} /\ DirentSize \in Nat /\ SizeMod \in Nat \ {0}
    /\ RealSizes \subseteq Nat /\ VirtSizes \subseteq Nat
    /\ LfnExtras \subseteq Nat /\ 0 \in LfnExtras
    /\ \A g \in Geoms : g.spc \in Nat \ {0} /\ g.sectors \in Nat /\ g.data_start \in Nat

VARIABLES
    geom,               \* filesys, spc, sectors, data_start, root_dir_cnt, vfat
    label,              \* drv->label != NULL
    serial,
    lockcnt,
    dirty,              \* VDF_DIRTY
    have_ranges,        \* drv->ranges != NULL
    ranges,             \* the array, <<>> when there is none
    nonempty_file_cnt,
    data_end,
    data_cluster_end,
    alive               \* ~VDF_DELETED

layoutvars == <<dirty, have_ranges, ranges, nonempty_file_cnt, data_end, data_cluster_end>>
setupvars  == <<geom, label, serial, lockcnt, alive>>
vars       == <<treevars, layoutvars, setupvars>>

Bpc(g) == Bps * g.spc

Init ==
    /\ geom \in Geoms
    /\ TreeInit(geom)
    /\ label = FALSE
    /\ serial \in Serials
    /\ lockcnt = 0
    /\ dirty = TRUE
    /\ have_ranges = FALSE
    /\ ranges = <<>>
    /\ nonempty_file_cnt = 0
    /\ data_end = geom.data_start
    /\ data_cluster_end = 0
    /\ alive = TRUE

(* Mistake: the calls do not ask for the lock.                             *)
Unlocked_NotAsked == alive

Unlocked == alive /\ lockcnt = 0

-----------------------------------------------------------------------------
(* set_drive_dirty(): a drive that is dirty already keeps its old ranges.  *)
set_drive_dirty ==
    /\ dirty' = TRUE
    /\ have_ranges' = (have_ranges /\ dirty)
    /\ ranges' = IF dirty THEN ranges ELSE <<>>
    /\ UNCHANGED <<nonempty_file_cnt, data_end, data_cluster_end>>

(* The first loop of vdf_drive_recalc(): file_recalc_offsize() for every   *)
(* file of all_files until one of them does not fit.  labelled tells that  *)
(* the root directory has an entry for the label.                          *)
PlaceOne(acc, h) ==
    IF ~acc.d.ok THEN acc
    ELSE [d |-> OffsizeDrive(geom, acc.d, acc.e[h]),
          e |-> [acc.e EXCEPT ![h] = OffsizeFile(geom, acc.d, @)]]

PlacedWith(labelled) ==
    LET Upto[k \in 0..Len(all_files)] ==
            IF k = 0 THEN [d |-> LayoutStart(geom),
                           e |-> dir_recalc(geom, labelled, Bpc(geom), DirentSize)]
            ELSE PlaceOne(Upto[k - 1], all_files[k])
    IN  Upto[Len(all_files)]

Placed == PlacedWith(label)

(* The second loop: every directory and every non-empty file gets a range. *)
Written(e) ==
    LET Upto[k \in 0..Len(all_files)] ==
            IF k = 0 THEN <<>>
            ELSE IF HasRange(file[all_files[k]].dir, e[all_files[k]])
                 THEN Append(Upto[k - 1], RangeOf(geom, all_files[k], e[all_files[k]]))
                 ELSE Upto[k - 1]
    IN  Upto[Len(all_files)]

(* qsort() with cmp_filerange(): a range goes behind those that begin at   *)
(* an earlier sector.  Ranges that begin at the same one stay as they were *)
(* written, as in a merge sort.                                            *)
PlaceOf(s, i) ==
    1 + Cardinality({j \in DOMAIN s : \/ s[j].sectstart < s[i].sectstart
                                      \/ s[j].sectstart = s[i].sectstart /\ j < i})

Sorted(s) == [k \in DOMAIN s |-> s[CHOOSE i \in DOMAIN s : PlaceOf(s, i) = k]]

(* The array is allocated, and sorted, for nonempty_file_cnt ranges.  What *)
(* is written behind the end stays where it was written.                   *)
RangesOf(d, e) ==
    LET written == Written(e)
    IN  Sorted(SubSeq(written, 1, d.nonempty))
        \o SubSeq(written, d.nonempty + 1, Len(written))

(* vdf_drive_recalc(), called without the lock.  A failure leaves the      *)
(* drive dirty with some of the files moved and with the old ranges.       *)
vdf_drive_recalc ==
    \/ ~dirty /\ UNCHANGED <<treevars, layoutvars>>
    \/ LET p == Placed
       IN  /\ dirty
           /\ extent' = p.e
           /\ nonempty_file_cnt' = p.d.nonempty
           /\ data_end' = p.d.dend
           /\ data_cluster_end' = p.d.cend
           /\ UNCHANGED <<file, all_files, file_cnt>>
           /\ \/ /\ p.d.ok
                 /\ dirty' = FALSE
                 /\ have_ranges' = TRUE
                 /\ ranges' = RangesOf(p.d, p.e)
              \/ /\ ~p.d.ok
                 /\ UNCHANGED <<dirty, have_ranges, ranges>>

(* Mistake: the result of the recalculation is ignored.                    *)
vdf_drive_lock_ResultIgnored ==
    /\ lockcnt' = lockcnt + 1
    /\ \/ lockcnt = 0 /\ vdf_drive_recalc
       \/ lockcnt # 0 /\ UNCHANGED <<treevars, layoutvars>>

(* vdf_drive_lock(): only the first lock recalculates.                     *)
vdf_drive_lock ==
    \/ /\ lockcnt = 0
       /\ vdf_drive_recalc
       /\ lockcnt' = IF dirty' THEN 0 ELSE 1
    \/ /\ lockcnt # 0
       /\ lockcnt' = lockcnt + 1
       /\ UNCHANGED <<treevars, layoutvars>>

-----------------------------------------------------------------------------
Recalc ==
    /\ Unlocked
    /\ vdf_drive_recalc
    /\ UNCHANGED setupvars

Lock ==
    /\ alive
    /\ lockcnt < MaxLock
    /\ vdf_drive_lock
    /\ UNCHANGED <<geom, label, serial, alive>>

(* Mistake: no test for a lock that is not held.                           *)
Unlock_NotHeld ==
    /\ alive
    /\ lockcnt' = lockcnt - 1
    /\ UNCHANGED <<treevars, layoutvars, geom, label, serial, alive>>

Unlock ==
    /\ alive
    /\ lockcnt # 0
    /\ lockcnt' = lockcnt - 1
    /\ UNCHANGED <<treevars, layoutvars, geom, label, serial, alive>>

(* vdf_dump_drive() and vdf_dump_drive_info() lock, read and unlock.  When *)
(* malloc() fails, vdf_dump_drive() returns with the lock still held.      *)
DumpDrive ==
    /\ alive
    /\ IF lockcnt = 0 THEN vdf_drive_recalc ELSE UNCHANGED <<treevars, layoutvars>>
    /\ UNCHANGED setupvars

DumpDriveFails ==
    /\ AllocMayFail
    /\ Lock

(* Mistake: the lock is not asked for.                                     *)
SetLabel_WhileLocked(on) ==
    /\ alive
    /\ label' = on
    /\ set_drive_dirty
    /\ UNCHANGED <<treevars, geom, serial, lockcnt, alive>>

(* vdf_set_drive_label(): when strdup() fails the old label is gone and    *)
(* the drive is not marked dirty.                                          *)
SetLabel(on) ==
    /\ Unlocked
    /\ label' = on
    /\ set_drive_dirty
    /\ UNCHANGED <<treevars, geom, serial, lockcnt, alive>>

SetLabelFails ==
    /\ AllocMayFail
    /\ Unlocked
    /\ label' = FALSE
    /\ UNCHANGED <<treevars, layoutvars, geom, serial, lockcnt, alive>>

(* vdf_set_drive_serial() asks neither for the lock nor for the flag.      *)
SetSerial(s) ==
    /\ alive
    /\ serial' = s
    /\ UNCHANGED <<treevars, layoutvars, geom, label, lockcnt, alive>>

(* Mistake: VDF_DIRTY is lost when the flags are replaced.                 *)
Recreate_FlagsLost(g) ==
    /\ Unlocked
    /\ geom' = g
    /\ relist_root(geom, g)
    /\ data_end' = g.data_start
    /\ UNCHANGED <<dirty, have_ranges, ranges, nonempty_file_cnt, data_cluster_end>>
    /\ UNCHANGED <<label, serial, lockcnt, alive>>

(* vdf_drive_recreate_ext(): a new geometry for the same files.  The dirty *)
(* flag is set directly, so the ranges of the old geometry are not freed,  *)
(* and the files keep the clusters they had with the old cluster size.     *)
Recreate(g) ==
    /\ Unlocked
    /\ geom' = g
    /\ dirty' = TRUE
    /\ data_end' = g.data_start
    /\ relist_root(geom, g)
    /\ UNCHANGED <<have_ranges, ranges, nonempty_file_cnt, data_cluster_end>>
    /\ UNCHANGED <<label, serial, lockcnt, alive>>

(* vdf_drive_free() does not ask for the lock.                             *)
Free ==
    /\ AppMayFree
    /\ alive
    /\ alive' = FALSE
    /\ UNCHANGED <<treevars, layoutvars, geom, label, serial, lockcnt>>

-----------------------------------------------------------------------------
(* The calls of file.c that need the drive unlocked and leave it dirty.    *)
ChangesTree ==
    /\ Unlocked
    /\ set_drive_dirty
    /\ UNCHANGED setupvars

BelowBound(p) == p \in DOMAIN file /\ file[p].cnt < MaxCnt /\ file_cnt < MaxFileCnt

AddDir(p, h, n) ==
    /\ BelowBound(p)
    /\ create_file(geom, p, h, NewFile(p, TRUE, FALSE, n), NewExtent(0, 0))
    /\ ChangesTree

(* vdf_add_file_real(): the clusters are computed in a size_t, the size is *)
(* cut to a filesz_t.                                                      *)
AddFileReal(p, h, n, s) ==
    /\ BelowBound(p)
    /\ create_file(geom, p, h, NewFile(p, FALSE, FALSE, n),
                   NewExtent(s % SizeMod, (s + Bpc(geom) - 1) \div Bpc(geom)))
    /\ ChangesTree

AddFileVirt(p, h, n, s) ==
    /\ BelowBound(p)
    /\ create_file(geom, p, h, NewFile(p, FALSE, TRUE, n),
                   NewExtent(s, ClustersFor(s, Bpc(geom), SizeMod)))
    /\ ChangesTree

AddFails(p) ==
    /\ AllocMayFail
    /\ BelowBound(p)
    /\ create_file_fails(geom, p)
    /\ ChangesTree

DeleteFile(h) ==
    /\ delete_file(h)
    /\ ChangesTree

MoveFile(h, p, n) ==
    /\ p \in DOMAIN file /\ file[p].cnt < MaxCnt
    /\ move_file(h, p, n)
    /\ ChangesTree

(* Mistake: the drive is not marked dirty.                                 *)
SetFileName_NotDirty(h, n) ==
    /\ Unlocked
    /\ set_name(h, n)
    /\ UNCHANGED <<layoutvars, setupvars>>

SetFileName(h, n) ==
    /\ set_name(h, n)
    /\ ChangesTree

SetFileShortname(h, n) ==
    /\ set_name(h, n)
    /\ n \in {file[h].lfn, 0}
    /\ ChangesTree

(* vdf_set_file_size(): virtual files only.                                *)
SetFileSize(h, s) ==
    /\ h \in DOMAIN file
    /\ file[h].virt
    /\ extent' = [extent EXCEPT ![h].size = s,
                                ![h].clusters = ClustersFor(s, Bpc(geom), SizeMod)]
    /\ UNCHANGED <<file, all_files, file_cnt>>
    /\ ChangesTree

(* vdf_set_file_date(), vdf_set_fat_file_size() and vdf_set_file_attr()    *)
(* change fields that the layout does not depend on.  The attributes are   *)
(* those that vdf.h lets an application set: with VFA_DIR in its mask, of  *)
(* which vdf.h says that it cannot be changed, vdf_set_file_attr() would   *)
(* take a file's path for the list of a directory (file.c:816).            *)
SetFileMeta(h) ==
    /\ h \in DOMAIN file
    /\ UNCHANGED treevars
    /\ ChangesTree

-----------------------------------------------------------------------------
FileNext ==
    \/ \E p, h \in Handles, n \in LfnExtras : AddDir(p, h, n)
    \/ \E p, h \in Handles, n \in LfnExtras, s \in RealSizes : AddFileReal(p, h, n, s)
    \/ \E p, h \in Handles, n \in LfnExtras, s \in VirtSizes : AddFileVirt(p, h, n, s)
    \/ \E p \in Handles : AddFails(p)
    \/ \E h \in Handles : DeleteFile(h)
    \/ \E h, p \in Handles, n \in LfnExtras : MoveFile(h, p, n)
    \/ \E h \in Handles, n \in LfnExtras : SetFileName(h, n)
    \/ \E h \in Handles, n \in LfnExtras : SetFileShortname(h, n)
    \/ \E h \in Handles, s \in VirtSizes : SetFileSize(h, s)
    \/ \E h \in Handles : SetFileMeta(h)

DriveNext ==
    \/ Recalc
    \/ Lock
    \/ Unlock
    \/ DumpDrive
    \/ DumpDriveFails
    \/ \E on \in Labels : SetLabel(on)
    \/ SetLabelFails
    \/ \E s \in Serials : SetSerial(s)
    \/ \E g \in Geoms : Recreate(g)
    \/ Free

Next == FileNext \/ DriveNext

Spec == Init /\ [][Next]_vars

-----------------------------------------------------------------------------
FileType ==
    [parent : Handles \cup {NULL, FREED}, dir : BOOLEAN, virt : BOOLEAN,
     lfn : LfnExtras, entries : Seq(Handles), cnt : Nat]

ExtentType ==
    [size : Nat, clusters : Nat, start : Nat, end : Nat, startsect : Nat, endsect : Nat]

RangeType ==
    [file : Handles, sectstart : Nat, sectend : Nat, fatstart : Nat, fatend : Nat]

(* The fields of the two structs keep their types; in particular lockcnt   *)
(* never goes below zero (vdf_drive_unlock() refuses).                     *)
TypeOK ==
    /\ DOMAIN file \subseteq Handles /\ Root \in DOMAIN file
    /\ DOMAIN extent = DOMAIN file
    /\ \A h \in DOMAIN file : file[h] \in FileType /\ extent[h] \in ExtentType
    /\ all_files \in Seq(Handles)
    /\ file_cnt \in Nat
    /\ geom \in Geoms /\ label \in BOOLEAN /\ serial \in Serials
    /\ lockcnt \in 0..MaxLock
    /\ dirty \in BOOLEAN /\ have_ranges \in BOOLEAN /\ alive \in BOOLEAN
    /\ ranges \in Seq(RangeType)
    /\ nonempty_file_cnt \in Nat /\ data_end \in Nat /\ data_cluster_end \in Nat

(* Whoever holds the lock (a transport, a dump) reads drv->ranges without  *)
(* asking for VDF_DIRTY or for NULL: under the lock the drive is clean and *)
(* the array exists, however the lock was reached.                         *)
LockedIsClean == lockcnt # 0 => ~dirty /\ have_ranges

(* While the drive is locked, no call changes what its image is computed   *)
(* from: the geometry, the label, the files, their positions, the ranges.  *)
(* (The serial number is not on this list: see SetSerial.)                 *)
FrozenWhileLocked ==
    [][lockcnt # 0 => UNCHANGED <<treevars, layoutvars, geom, label>>]_vars

(* Directories of which dir_recalc() has never computed a positive size:   *)
(* the root directory of an empty FAT32 drive without a label, and a new   *)
(* directory that cannot be reached from the root.                         *)
EmptyDirListed ==
    \E h \in Range(all_files) : file[h].dir /\ extent[h].size = 0

(* A clean drive has one range for each non-empty listed file; in order    *)
(* they fill the data area from its first sector to data_end and from      *)
(* cluster 2 to data_cluster_end with neither gap nor overlap, sectors and *)
(* clusters in step, and something is left of the drive behind them.       *)
(* vdf_drive_recalc() must get there from whatever the calls before it     *)
(* (moves, deletions, a new geometry, a recalculation that failed          *)
(* half-way) have left in the files.  The readers take the start of a file *)
(* from its range and its end from file->endsect: the two agree.           *)
TilesDataArea ==
    ~dirty /\ ~EmptyDirListed =>
        LET n == Len(ranges)
        IN  /\ n = nonempty_file_cnt
            /\ IsInjective([i \in 1..n |-> ranges[i].file])
            /\ {ranges[i].file : i \in 1..n} = {h \in Range(all_files) : extent[h].size # 0}
            /\ n = 0 => data_end = geom.data_start /\ data_cluster_end = FirstCluster
            /\ n > 0 => /\ ranges[1].sectstart = geom.data_start
                        /\ ranges[1].fatstart = FirstCluster
                        /\ ranges[n].sectend = data_end
                        /\ ranges[n].fatend = data_cluster_end
                        /\ data_end < geom.sectors
            /\ \A i \in 1..n-1 : /\ ranges[i].sectend = ranges[i+1].sectstart
                                 /\ ranges[i].fatend = ranges[i+1].fatstart
            /\ \A i \in 1..n : /\ ranges[i].sectend - ranges[i].sectstart
                                  = (ranges[i].fatend - ranges[i].fatstart) * geom.spc
                               /\ extent[ranges[i].file].endsect = ranges[i].sectend

(* The readers find the file that owns a sector (find_file_sector()) and   *)
(* the file that owns a FAT entry (find_file_fat_entry()) by two separate  *)
(* searches bounded by file_cnt, which is not the length of the array.  On *)
(* a clean drive each search stays inside the array, the range it stops at *)
(* contains what was looked for, and the two agree: the FAT entry of the   *)
(* cluster that holds a data sector belongs to the file of that sector.    *)
LookupSound ==
    ~dirty /\ ~EmptyDirListed =>
        /\ \A s \in geom.data_start .. data_end - 1 :
             LET i == find_file_sector(ranges, file_cnt, data_end, s)
                 j == find_file_fat_entry(ranges, file_cnt, data_cluster_end,
                          FirstCluster + (s - geom.data_start) \div geom.spc)
             IN  /\ i \in 1..Len(ranges) /\ i = j
                 /\ ranges[i].sectstart <= s
        /\ find_file_sector(ranges, file_cnt, data_end, data_end) = Miss
        /\ find_file_fat_entry(ranges, file_cnt, data_cluster_end, data_cluster_end) = Miss

(* VDF_DIRTY tells the truth: when it is clear, a recalculation from       *)
(* scratch would compute the very layout that the drive has, so no call    *)
(* has changed an input of the layout without setting the flag.  A         *)
(* strdup() that fails in vdf_set_drive_label() is the one exception: the  *)
(* layout may then have the entry of the label that the drive has lost.    *)
CleanIsCurrent ==
    ~dirty =>
        \E labelled \in {label} \cup (IF AllocMayFail THEN {TRUE} ELSE {}) :
        LET p == PlacedWith(labelled)
        IN  /\ p.d.ok /\ p.e = extent
            /\ RangesOf(p.d, p.e) = ranges
            /\ <<p.d.nonempty, p.d.dend, p.d.cend>>
                 = <<nonempty_file_cnt, data_end, data_cluster_end>>

(* The directory lists, the parents and all_files agree (see FileTree).    *)
TreeConsistent == ListMatchesTree(geom)

(* The drive keeps the promise of DriveLock, with the layout as the view.  *)
view ==
    IF dirty THEN {}
    ELSE {<<geom, file, extent, all_files, ranges, data_end, data_cluster_end>>}

DL == INSTANCE DriveLock

ImplementsDriveLock == DL!LockSpec
=============================================================================
