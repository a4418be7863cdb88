------------------------------ MODULE Geometry ------------------------------
(***************************************************************************)
(* The geometry of a drive: createdrive_ext() (libvdf/drive.c) chooses the *)
(* file system and the cluster size, sizes the FATs before it knows how    *)
(* many clusters they leave, tests the result and installs it in the       *)
(* drive; read_sector_boot() (libvdf/bootblock.c) tells the host about it  *)
(* in fields of 8, 16 and 32 bits.  Drive takes the result as a record of  *)
(* its constant Geoms; here it is computed, in the widths of the code.     *)
(*                                                                         *)
(* A drive size is given in units of 512 bytes, rounded up.  The code      *)
(* rounds it up to sectors of 512, 1024, 2048 or 4096 bytes, so a rest     *)
(* below 512 bytes makes no difference.  Sizes whose rounding overflows 64 *)
(* bits are left out, and so is the lock, which Drive has: the drive here  *)
(* is unlocked.                                                            *)
(***************************************************************************)
EXTENDS Word32, Sequences

CONSTANTS
    NULL,           \* no drive
    Sizes,          \* the drive sizes an application asks for
    FsFlags,        \* the part VDF_FS_MASK of flags, one of those in vdf.h
    SectorSizes,    \* ext->bytes_per_sector
    ClusterSizes,   \* ext->sectors_per_cluster
    RootCounts,     \* ext->root_dir_cnt
    AUTO,           \* an ext field whose VDE_AUTO_* flag is set
    EINVAL,         \* the geometry that is refused
    FlagSets        \* the flags that matter here: align, warn and mbr

VARIABLES
    drv,            \* the fields of the vdf_drive that hold its geometry
    answer          \* what the last call returned: "ok" or its errno

vars == <<drv, answer>>

FileSystems == {"FAT12", "FAT16", "FAT32"}

Flags == [align : BOOLEAN, warn : BOOLEAN, mbr : {"none", "plain", "pad"}]

(* root_dir_cnt is an int and is multiplied by 32, so it is below 2^26.    *)
MaxRootCount == 67108863

ASSUME GeometryAssumption ==
    /\ \A s \in Sizes : s[1] \in Nat /\ s[2] \in 0 .. Half - 1
    /\ FsFlags \subseteq FileSystems \cup {"AUTO", "AUTO_NO32"}
    /\ \A n \in (ClusterSizes \cup SectorSizes) \ {AUTO} : n \in Nat
    /\ \A n \in RootCounts \ {AUTO} : n \in 0 .. MaxRootCount
    /\ FlagSets \subseteq Flags
    /\ AUTO \notin Nat /\ EINVAL \notin FileSystems

-----------------------------------------------------------------------------
(* The tables of cluster sizes, in units of 512 bytes: a cluster has the   *)
(* size of the first row whose limit is above the drive's size, or of the  *)
(* last row.                                                               *)
MiB(n) == W(n * 2048)
GiB(n) == <<32 * n, 0>>
TiB(n) == <<32768 * n, 0>>

cluster_ranges(fsys) ==
    CASE fsys = "FAT12" -> << <<MiB(15), 16>>, <<NULL, 8>> >>
      [] fsys = "FAT16" ->
            << <<MiB(16), 8>>, <<MiB(128), 4>>, <<MiB(256), 8>>, <<MiB(512), 16>>,
               <<GiB(1), 32>>, <<GiB(2), 64>>, <<GiB(4), 128>>, <<GiB(8), 256>>,
               <<NULL, 512>> >>
      [] fsys = "FAT32" ->
            << <<MiB(260), 1>>, <<GiB(8), 8>>, <<GiB(16), 16>>, <<GiB(32), 32>>,
               <<NULL, 64>> >>

find_spc(ranges, size, bps) ==
    LET fits == {i \in DOMAIN ranges : i = Len(ranges) \/ Below(size, ranges[i][1])}
        row  == CHOOSE i \in fits : \A j \in fits : i <= j
        cluster_size == ranges[row][2] * 512
    IN  IF cluster_size <= bps THEN 1 ELSE cluster_size \div bps

(* The file system chosen by size, when the cluster size is free too.      *)
AutoBySize(size, fsys_flag) ==
    CASE Below(size, MiB(16)) -> "FAT12"
      [] ~Below(size, MiB(260)) /\ Below(size, TiB(2)) /\ fsys_flag # "AUTO_NO32" -> "FAT32"
      [] OTHER -> IF Below(size, GiB(16)) THEN "FAT16" ELSE EINVAL

(* The file system chosen by the number of clusters, when the application  *)
(* has chosen the cluster size.                                            *)
AutoByClusters(clusters, fsys_flag) ==
    CASE Below(clusters, W(4085)) -> "FAT12"
      [] ~Below(clusters, W(4085))
         /\ (Below(clusters, W(65525)) \/ fsys_flag = "AUTO_NO32") -> "FAT16"
      [] OTHER -> "FAT32"

IsAuto(fsys_flag) == fsys_flag \in {"AUTO", "AUTO_NO32"}

(* Mistake: the case 128 is missing from the switch.                       *)
ValidSpc_No128 == {1, 2, 4, 8, 16, 32, 64}

ValidSpc == {1, 2, 4, 8, 16, 32, 64, 128}

(* Mistake: any multiple of 512 bytes is taken for a sector size.          *)
ValidBps_Multiples == {512, 1024, 1536, 2048, 4096}

ValidBps == {512, 1024, 2048, 4096}

-----------------------------------------------------------------------------
(* The layout.  b holds what has been decided: filesys, bps, spc, sectors, *)
(* root_dir_cnt and the flags.                                             *)
Aligned(b, n) == IF b.flags.align THEN RoundUp(n, b.spc) ELSE n

(* Mistake: an aligned FAT32 drive keeps its 32 reserved sectors.          *)
fat1_start_Always32(b) ==
    IF b.filesys = "FAT32" THEN W(32)
    ELSE IF b.flags.align THEN W(b.spc) ELSE W(1)

(* fat1_start += spc; fat1_start &= ~(spc - 1): 32 itself is not kept even *)
(* when it is aligned.                                                     *)
fat1_start(b) ==
    IF b.filesys = "FAT32"
    THEN IF b.flags.align THEN Times(Over(W(32 + b.spc), b.spc), b.spc) ELSE W(32)
    ELSE IF b.flags.align THEN W(b.spc) ELSE W(1)

root_sectors(b) ==
    IF b.filesys = "FAT32" THEN W(0)
    ELSE Aligned(b, CeilOver(W(b.root_dir_cnt * 32), b.bps))

(* Mistake: twelve bits are taken for a byte.                              *)
FatBytes_OneByte(filesys, clusters) ==
    CASE filesys = "FAT12" -> Plus(clusters, W(1))
      [] filesys = "FAT16" -> Times(clusters, 2)
      [] filesys = "FAT32" -> Times(clusters, 4)

FatBytes(filesys, clusters) ==
    CASE filesys = "FAT12" -> Plus(Over(Times(clusters, 3), 2), W(1))
      [] filesys = "FAT16" -> Times(clusters, 2)
      [] filesys = "FAT32" -> Times(clusters, 4)

(* The clusters that start at a sector: an unsigned difference.            *)
ClustersFrom(b, start) == Over(Minus(b.sectors, start), b.spc)

(* Mistake: one FAT is counted and not two.                                *)
LayoutOf_OneFat(b) ==
    LET before      == Plus(fat1_start(b), root_sectors(b))
        fat_sectors == Aligned(b, CeilOver(FatBytes(b.filesys, ClustersFrom(b, before)), b.bps))
        data_start  == Plus(before, fat_sectors)
    IN  [fat_sectors |-> fat_sectors, data_start |-> data_start,
         clusters |-> ClustersFrom(b, data_start)]

LayoutOf(b) ==
    LET before      == Plus(fat1_start(b), root_sectors(b))
        fat_sectors == Aligned(b, CeilOver(FatBytes(b.filesys, ClustersFrom(b, before)), b.bps))
        data_start  == Plus(before, Times(fat_sectors, 2))
    IN  [fat_sectors |-> fat_sectors, data_start |-> data_start,
         clusters |-> ClustersFrom(b, data_start)]

Above(a, n) == Below(W(n), a)

(* Mistake: FAT16 drives are not tested against their upper limit.         *)
Refused_NoUpperLimit(b, clusters) ==
    CASE b.filesys = "FAT12" -> Above(clusters, 4084)
      [] b.filesys = "FAT16" -> Below(clusters, W(4085))
      [] b.filesys = "FAT32" ->
            \/ Below(clusters, W(IF b.flags.warn THEN 65526 ELSE 65525))
            \/ Above(clusters, 268435437)

(* The tests on the number of clusters; 268435437 is 0xfffffef - 2.        *)
Refused(b, clusters) ==
    CASE b.filesys = "FAT12" -> Above(clusters, 4084)
      [] b.filesys = "FAT16" -> Below(clusters, W(4085)) \/ Above(clusters, 65524)
      [] b.filesys = "FAT32" ->
            \/ Below(clusters, W(IF b.flags.warn THEN 65526 ELSE 65525))
            \/ Above(clusters, 268435437)

mbr_sectors(b) ==
    CASE b.flags.mbr = "none" -> 0
      [] b.flags.mbr = "plain" -> 1
      [] b.flags.mbr = "pad" -> b.spc

Installed(b) ==
    LET layout     == LayoutOf(b)
        fat2_start == Plus(fat1_start(b), layout.fat_sectors)
    IN  [filesys |-> b.filesys, bps |-> b.bps, spc |-> b.spc, sectors |-> b.sectors,
         root_dir_cnt |-> b.root_dir_cnt, flags |-> b.flags,
         clusters |-> layout.clusters, fat_sectors |-> layout.fat_sectors,
         fat1_start |-> fat1_start(b), fat2_start |-> fat2_start,
         root_start |-> Plus(fat2_start, layout.fat_sectors),
         root_sectors |-> root_sectors(b), data_start |-> layout.data_start,
         mbr_sectors |-> mbr_sectors(b)]

(* createdrive_ext() up to its installation: the geometry or EINVAL.       *)
createdrive_ext(size_asked, fsys_flag, flags, ext) ==
    LET bps     == IF ext.bps = AUTO THEN 512 ELSE ext.bps
        unit    == bps \div 512
        sectors == Over(WidePlus(size_asked, unit - 1), unit)
        size    == WideTimes(sectors, unit)
        filesys == IF ~IsAuto(fsys_flag) THEN fsys_flag
                   ELSE IF ext.spc = AUTO THEN AutoBySize(size, fsys_flag)
                   ELSE AutoByClusters(Truncated(Over(size, ext.spc * unit)), fsys_flag)
        spc     == IF ext.spc = AUTO THEN find_spc(cluster_ranges(filesys), size, bps)
                   ELSE ext.spc
        b       == [filesys |-> filesys, bps |-> bps, spc |-> spc,
                    sectors |-> Truncated(sectors), flags |-> flags,
                    root_dir_cnt |-> IF ext.root = AUTO THEN 512 ELSE ext.root]
    IN  IF \/ bps \notin ValidBps
           \/ ext.spc # AUTO /\ ext.spc \notin ValidSpc
           \/ filesys = EINVAL
           \/ Refused(b, LayoutOf(b).clusters)
        THEN EINVAL ELSE Installed(b)

-----------------------------------------------------------------------------
Ext == [bps : SectorSizes, spc : ClusterSizes, root : RootCounts]

driveext_auto == [bps |-> AUTO, spc |-> AUTO, root |-> AUTO]

(* vdf_drive_recreate_extsame(): the fields of the drive, unless a         *)
(* VDE_AUTO_* flag is in autos.                                            *)
SameExt(d, autos) ==
    [bps  |-> IF "bps" \in autos THEN AUTO ELSE d.bps,
     spc  |-> IF "spc" \in autos THEN AUTO ELSE d.spc,
     root |-> IF "root" \in autos THEN AUTO ELSE d.root_dir_cnt]

Init == drv = NULL /\ answer = "none"

(* A call that has the geometry g: it installs it or leaves all alone.     *)
Result(g) ==
    IF g = EINVAL THEN answer' = "EINVAL" /\ UNCHANGED drv
    ELSE answer' = "ok" /\ drv' = g

(* vdf_drive_create() and vdf_drive_create_ext().                          *)
Create ==
    /\ drv = NULL
    /\ \E size \in Sizes, fs \in FsFlags, flags \in FlagSets, ext \in Ext \cup {driveext_auto} :
          Result(createdrive_ext(size, fs, flags, ext))

(* The geometry is right and malloc() or create_root_dir() fails.          *)
CreateNoMemory ==
    /\ drv = NULL
    /\ \E size \in Sizes, fs \in FsFlags, flags \in FlagSets, ext \in Ext \cup {driveext_auto} :
          createdrive_ext(size, fs, flags, ext) # EINVAL
    /\ answer' = "ENOMEM"
    /\ UNCHANGED drv

(* vdf_drive_recreate() and vdf_drive_recreate_extsame(), with             *)
(* VDF_FAT_SAME or with one of FsFlags.                                    *)
Recreate ==
    /\ drv # NULL
    /\ \E size \in Sizes, fs \in FsFlags \cup {"SAME"}, flags \in FlagSets,
          autos \in {{}, {"spc"}, {"bps", "spc", "root"}} :
          Result(createdrive_ext(size, IF fs = "SAME" THEN drv.filesys ELSE fs,
                                 flags, SameExt(drv, autos)))

(* vdf_drive_free(), as far as the geometry goes.                          *)
Free ==
    /\ drv # NULL
    /\ drv' = NULL
    /\ UNCHANGED answer

Next == Create \/ CreateNoMemory \/ Recreate \/ Free

Spec == Init /\ [][Next]_vars

-----------------------------------------------------------------------------
(* What read_sector_boot() tells the host: the fields that describe the    *)
(* geometry, in their widths.  A FAT12 boot sector has no 32-bit count of  *)
(* sectors: the bytes belong to its (empty) bootstrap.                     *)
BootSector(d) ==
    LET fat32 == d.filesys = "FAT32"
        short == ~fat32 /\ Below(d.sectors, W(Half))
    IN  [bps             |-> d.bps,
         spc             |-> d.spc % 256,
         reserved        |-> d.fat1_start[2],
         root_dir_cnt    |-> IF fat32 THEN 0 ELSE d.root_dir_cnt % Half,
         sector_cnt      |-> IF short THEN d.sectors[2] ELSE 0,
         sector_cnt32    |-> IF short \/ d.filesys = "FAT12" THEN W(0) ELSE d.sectors,
         sectors_per_fat |-> IF fat32 THEN d.fat_sectors ELSE <<0, d.fat_sectors[2]>>]

(* How a host reads these fields (it is not part of the library): where    *)
(* the data area starts, how many clusters it has and, from their number   *)
(* alone, which file system this is.                                       *)
HostView(boot) ==
    LET sectors    == IF boot.sector_cnt # 0 THEN W(boot.sector_cnt) ELSE boot.sector_cnt32
        data_start == Plus(Plus(W(boot.reserved), Times(boot.sectors_per_fat, 2)),
                           CeilOver(W(boot.root_dir_cnt * 32), boot.bps))
        clusters   == Over(Minus(sectors, data_start), boot.spc)
    IN  [data_start |-> data_start, clusters |-> clusters,
         filesys |-> CASE Below(clusters, W(4085)) -> "FAT12"
                       [] ~Below(clusters, W(65525)) -> "FAT32"
                       [] OTHER -> "FAT16"]

-----------------------------------------------------------------------------
DriveType ==
    [filesys : FileSystems, bps : {512, 1024, 2048, 4096},
     spc : {1, 2, 4, 8, 16, 32, 64, 128, 256, 512}, sectors : Word,
     root_dir_cnt : 0 .. MaxRootCount, flags : Flags, clusters : Word, fat_sectors : Word,
     fat1_start : Word, fat2_start : Word, root_start : Word, root_sectors : Word,
     data_start : Word, mbr_sectors : 0 .. 512]

(* The types, and what the masks of createdrive_ext() take for granted:    *)
(* sectors and clusters are powers of two.                                 *)
TypeOK ==
    /\ drv # NULL => drv \in DriveType
    /\ answer \in {"none", "ok", "EINVAL", "ENOMEM"}

(* A FAT32 drive that has fewer sectors than FAT32 needs clusters: for     *)
(* clusters of 16 sectors and more the unsigned difference wraps to a      *)
(* number of clusters that all tests accept.                               *)
TooSmall(d) == d.filesys = "FAT32" /\ Below(d.sectors, W(65525))

(* The regions of the drive follow one another without gap or overlap, the *)
(* data area holds all clusters and has no room for one more, although     *)
(* data_start is the sum of other numbers than root_start and the sizes    *)
(* of the regions were computed from a first guess of the clusters:        *)
(* createdrive_ext() with its unsigned differences.                        *)
RegionsTile ==
    drv # NULL /\ ~TooSmall(drv) =>
        LET end == Plus(drv.data_start, Times(drv.clusters, drv.spc))
        IN  /\ Below(W(0), drv.fat1_start)
            /\ Below(drv.fat1_start, drv.fat2_start)
            /\ drv.data_start = Plus(drv.root_start, drv.root_sectors)
            /\ ~Below(drv.sectors, drv.data_start)
            /\ ~Below(drv.sectors, end)
            /\ Below(Minus(drv.sectors, end), W(drv.spc))

(* A FAT has an entry for each cluster, although it is sized without its   *)
(* two reserved entries and from a number of clusters that was counted     *)
(* before the FATs took their place.  That place makes up for the two      *)
(* entries only where a FAT takes a cluster or more, as it does on every   *)
(* aligned drive: the size computation of createdrive_ext().               *)
FatCoversData ==
    drv # NULL /\ ~TooSmall(drv) /\ ~Below(drv.fat_sectors, W(drv.spc)) =>
        LET entries == Plus(drv.clusters, W(2))
            nibbles == WideTimes(entries, CASE drv.filesys = "FAT12" -> 3
                                        [] drv.filesys = "FAT16" -> 4
                                        [] drv.filesys = "FAT32" -> 8)
        IN  ~Below(WideTimes(drv.fat_sectors, drv.bps * 2), nibbles)

(* VDF_ALIGN_CLUSTER, "align all structures to cluster size": both FATs,   *)
(* the root directory and the data area start on a multiple of spc, for    *)
(* each file system and after each recreation (createdrive_ext()).         *)
StructuresAligned ==
    drv # NULL /\ drv.flags.align =>
        \A start \in {drv.fat1_start, drv.fat2_start, drv.root_start, drv.data_start} :
            Remainder(start, drv.spc) = 0

(* The boot sector can express the geometry: a byte holds spc, 16 bits     *)
(* hold the entry count of the root directory, which has no sectors that   *)
(* its entry count does not ask for (an aligned one may have), and a FAT12 *)
(* drive has a 16-bit sector count.                                        *)
Expressible(d) ==
    /\ d.spc < 256
    /\ d.filesys # "FAT32" =>
          d.root_dir_cnt < Half /\ d.root_sectors = CeilOver(W(d.root_dir_cnt * 32), d.bps)
    /\ d.filesys = "FAT12" => Below(d.sectors, W(Half))

(* A host that reads the boot sector finds the drive that is served: the   *)
(* data area where read_sector_data() serves it, as many clusters, and a   *)
(* number of them that makes it take the drive for the file system it is   *)
(* (createdrive_ext() with read_sector_boot()).                            *)
HostAgrees ==
    drv # NULL /\ ~TooSmall(drv) /\ Expressible(drv) =>
        HostView(BootSector(drv)) =
            [data_start |-> drv.data_start, clusters |-> drv.clusters, filesys |-> drv.filesys]

(* Whatever was chosen automatically can be asked for:                     *)
(* vdf_drive_recreate_extsame() with VDF_FAT_SAME, the same size and the   *)
(* same flags is accepted and gives the same geometry.  A cluster of more  *)
(* than 128 sectors, which VDF_FAT_AUTO_NO32 chooses from 4 GiB on, is not *)
(* accepted a second time.                                                 *)
SameAgain ==
    drv # NULL /\ drv.spc <= 128 =>
        createdrive_ext(WideTimes(drv.sectors, drv.bps \div 512), drv.filesys,
                        drv.flags, SameExt(drv, {})) = drv
=============================================================================
