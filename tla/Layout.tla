------------------------------- MODULE Layout -------------------------------
(***************************************************************************)
(* The arithmetic of a VDF layout: how many clusters a size takes, where   *)
(* file_recalc_offsize() (libvdf/file.c) puts a file, what a vdf_filerange *)
(* (libvdf/vdf_drive.h) says about it, and how the readers scan the ranges *)
(* (libvdf/read_data.c, libvdf/fat.c).  Everything here is a pure operator *)
(* shared by the drive (Drive), by the readers (FatTable, Read) and by the *)
(* FAT12 table (Fat12).  A layout position is counted in sectors and in    *)
(* clusters; the first data cluster has number 2, as on every FAT volume.  *)
(***************************************************************************)
EXTENDS Integers, Sequences

FirstCluster == 2

(* The clusters that a size takes: size += bpc - 1; size /= bpc, computed  *)
(* in an unsigned integer that wraps at mod (filesz_t is 32 bits wide, so  *)
(* a size close to 2^32 wraps to 0 clusters).                              *)
ClustersFor(size, bpc, mod) == ((size + bpc - 1) % mod) \div bpc

(* d is what the loop of vdf_drive_recalc() accumulates: cend is           *)
(* drv->data_cluster_end, dend is drv->data_end, nonempty is               *)
(* drv->nonempty_file_cnt, and ok tells that no call has returned -1.      *)
LayoutStart(g) ==
    [cend |-> FirstCluster, dend |-> g.data_start, nonempty |-> 0, ok |-> TRUE]

(* file_recalc_offsize(): the new accumulator and the new fields of file f *)
(* on a drive with geometry g.  An empty file only gets start = 0: its     *)
(* other positions keep what they were.  The code tests data_end against   *)
(* sectors twice and returns -1 between the assignments it has made so far *)
(* and those it has not.                                                   *)
OffsizeDrive(g, d, f) ==
    IF f.size = 0 THEN d
    ELSE LET full  == d.dend >= g.sectors
             dend2 == IF full THEN d.dend ELSE d.dend + f.clusters * g.spc
         IN  [cend     |-> d.cend + f.clusters,
              dend     |-> dend2,
              nonempty |-> d.nonempty + 1,
              ok       |-> dend2 < g.sectors]

(* Mistake: endsect is taken before data_end is advanced.                  *)
OffsizeFile_EndTooEarly(g, d, f) ==
    IF f.size = 0 THEN [f EXCEPT !.start = 0]
    ELSE [f EXCEPT !.start     = d.cend,
                   !.end       = d.cend + f.clusters,
                   !.startsect = d.dend,
                   !.endsect   = d.dend]

OffsizeFile(g, d, f) ==
    IF f.size = 0 THEN [f EXCEPT !.start = 0]
    ELSE LET after == OffsizeDrive(g, d, f)
         IN  [f EXCEPT !.start     = d.cend,
                       !.end       = after.cend,
                       !.startsect = IF d.dend < g.sectors THEN d.dend ELSE @,
                       !.endsect   = IF after.ok THEN after.dend ELSE @]

(* The vdf_filerange that vdf_drive_recalc() writes for the file h, whose  *)
(* fields are f: note that sectend is computed from startsect, not copied. *)
RangeOf(g, h, f) ==
    [file      |-> h,
     sectstart |-> f.startsect,
     sectend   |-> f.startsect + f.clusters * g.spc,
     fatstart  |-> f.start,
     fatend    |-> f.end]

(* Which files get a range: every directory and every non-empty file.      *)
HasRange(isdir, f) == isdir \/ f.size # 0

-----------------------------------------------------------------------------
(* The two linear searches.  They walk ranges[0], ranges[1], ... while the *)
(* index is below file_cnt, which may exceed the length of the array, and  *)
(* stop at the first range that ends beyond the sector (the cluster).  The *)
(* result is the (1-based) index found, Miss, or Wild when the walk leaves *)
(* the array before it finds anything.                                     *)
Miss == 0
Wild == -1

ScanResult(hits, len, file_cnt) ==
    IF \E i \in hits : i <= file_cnt
    THEN CHOOSE i \in hits : \A j \in hits : i <= j
    ELSE IF file_cnt > len THEN Wild ELSE Miss

(* Mistakes: <= where the end of a range is exclusive.                     *)
find_file_sector_EndIncluded(ranges, file_cnt, data_end, sector) ==
    IF sector >= data_end THEN Miss
    ELSE ScanResult({i \in 1..Len(ranges) : sector <= ranges[i].sectend},
                    Len(ranges), file_cnt)

find_file_fat_entry_EndIncluded(ranges, file_cnt, data_cluster_end, ent) ==
    IF ent >= data_cluster_end THEN Miss
    ELSE ScanResult({i \in 1..Len(ranges) : ent <= ranges[i].fatend},
                    Len(ranges), file_cnt)

find_file_sector(ranges, file_cnt, data_end, sector) ==
    IF sector >= data_end THEN Miss
    ELSE ScanResult({i \in 1..Len(ranges) : sector < ranges[i].sectend},
                    Len(ranges), file_cnt)

find_file_fat_entry(ranges, file_cnt, data_cluster_end, ent) ==
    IF ent >= data_cluster_end THEN Miss
    ELSE ScanResult({i \in 1..Len(ranges) : ent < ranges[i].fatend},
                    Len(ranges), file_cnt)

(* fat_next_file(): the range after range_ind, compared with file_cnt and  *)
(* not with the length of the array.                                       *)
fat_next_file(ranges, file_cnt, range_ind) ==
    IF range_ind = file_cnt THEN Miss
    ELSE IF range_ind + 1 > Len(ranges) THEN Wild ELSE range_ind + 1
=============================================================================
