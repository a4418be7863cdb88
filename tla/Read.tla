-------------------------------- MODULE Read --------------------------------
(***************************************************************************)
(* Reading the image of a clean drive: vdf_read_bytes() and                *)
(* vdf_read_sectors() (libvdf/read.c), which walk through the regions of   *)
(* the drive, and read_sector_data() (libvdf/read_data.c), which walks     *)
(* through the files.  This is what a transport calls for every request.   *)
(* A request may begin and end anywhere, so the image is put together from *)
(* windows that are cut at sectors, at the ends of regions and at the ends *)
(* of files; each loop turn and each region is one action.                 *)
(*                                                                         *)
(* drv is the drive: its regions, its ranges and, in drv.file, what the    *)
(* files say (kind, size, position, entries, and how many bytes the file   *)
(* on disk or the callback really delivers).  It is locked and does not    *)
(* change.  Buffers are sequences of units (see FatTable): the length of a *)
(* buffer is how far the code's write pointer has moved.                   *)
(***************************************************************************)
EXTENDS FatTable, FiniteSets

CONSTANTS
    Drives,         \* the clean drives
    Lengths(_),     \* how many bytes a request may ask for on a drive
    BackupSector    \* sector 6 of a FAT32 drive, the copy of the boot sector

(* The fields of a drive and the order of its regions.  A sector has room  *)
(* for the two reserved entries of a FAT and for '.' and '..'.             *)
Shaped(d) ==
    /\ {d.bps, d.sectors, d.mbr_sectors, d.fat1_start, d.fat2_start, d.root_start,
        d.data_start, d.data_end, d.data_cluster_end, d.file_cnt} \subseteq Nat
    /\ 2 <= d.bps
    /\ d.fat1_start <= d.fat2_start /\ d.fat2_start <= d.root_start
    /\ d.root_start <= d.data_start /\ d.data_start <= d.data_end
    /\ d.filesys = "FAT32" => d.root_start = d.data_start
    /\ d.root_dir \in DOMAIN d.file /\ d.file[d.root_dir].kind = "dir"
    /\ d.ranges \in Seq([file : DOMAIN d.file, sectstart : Nat, sectend : Nat,
                         fatstart : Nat, fatend : Nat])
    /\ \A h \in DOMAIN d.file :
         LET f == d.file[h]
         IN  /\ {f.size, f.disk, f.fent_cnt, f.fent_start, f.dir_fent_cnt,
                 f.start, f.end, f.startsect, f.endsect} \subseteq Nat
             /\ f.entries \in Seq(DOMAIN d.file)

(* What Drive establishes for every clean drive (TilesDataArea): the files *)
(* fill the data area in the order of the ranges.                          *)
Tiled(d) ==
    LET n == Len(d.ranges)
        Own(i) == d.file[d.ranges[i].file]
    IN  /\ n = 0 => d.data_end = d.data_start /\ d.data_cluster_end = FirstCluster
        /\ n > 0 => /\ d.ranges[1].sectstart = d.data_start
                    /\ d.ranges[1].fatstart = FirstCluster
                    /\ d.ranges[n].sectend = d.data_end
                    /\ d.ranges[n].fatend = d.data_cluster_end
        /\ d.data_end < d.sectors
        /\ \A i \in 1..n-1 : /\ d.ranges[i].sectend = d.ranges[i+1].sectstart
                             /\ d.ranges[i].fatend = d.ranges[i+1].fatstart
        /\ \A i \in 1..n : /\ Own(i).startsect = d.ranges[i].sectstart
                           /\ Own(i).endsect = d.ranges[i].sectend
                           /\ Own(i).startsect <= Own(i).endsect

(* A file that is not empty has clusters, and they hold it.  This is not   *)
(* so on every clean drive.  vdf_drive_recreate() with smaller clusters    *)
(* keeps the number of clusters that a file had (drive.c:358): there       *)
(* read_sector_data() cuts what it asks of a file to the sectors of the    *)
(* request and not to those of the file, and writes behind the buffer of   *)
(* its caller.  And the number of clusters of a size within a cluster of   *)
(* 2^32 wraps to 0 (file.c:733): fat_next_file() steps into the range of   *)
(* such a file and writes an end mark for a cluster that it has not.       *)
FilesFit(d) ==
    \A i \in 1..Len(d.ranges) :
        LET f == d.file[d.ranges[i].file]
        IN  /\ f.start < f.end
            /\ f.kind # "dir" => f.size <= (f.endsect - f.startsect) * d.bps

(* The ranges are those of the listed files that are not empty, and their  *)
(* clusters are those of the FAT.                                          *)
Ranged(d) ==
    /\ \A i \in 1..Len(d.ranges) :
         LET r == d.ranges[i]
             f == d.file[r.file]
         IN  /\ f.listed /\ f.size # 0
             /\ f.start = r.fatstart /\ f.end = r.fatend /\ f.start <= f.end
    /\ \A h \in DOMAIN d.file :
         d.file[h].listed /\ d.file[h].size # 0 => \E i \in 1..Len(d.ranges) : d.ranges[i].file = h

(* dir_recalc() has numbered the entries of every directory, without one   *)
(* for a label.                                                            *)
Numbered(d) ==
    \A dir \in DOMAIN d.file :
        LET es == d.file[dir].entries
            Behind(k) == IF k = 0 THEN Len(Dots(d, dir))
                         ELSE d.file[es[k]].fent_start + d.file[es[k]].fent_cnt + 1
        IN  d.file[dir].kind = "dir" =>
              /\ \A k \in 1..Len(es) : d.file[es[k]].fent_start = Behind(k - 1)
              /\ d.file[dir].dir_fent_cnt = Behind(Len(es))

ASSUME DrivesAssumption ==
    \A d \in Drives : Shaped(d) /\ Tiled(d) /\ Ranged(d) /\ Numbered(d) /\ Lengths(d) \subseteq Nat

VARIABLES
    drv,
    req,            \* the bytes that vdf_read_bytes() is asked for
    phase,          \* its three reads: "head", "body", "tail"; "done", "error"
    result,         \* its buffer
    soff,           \* the next sector of the device
    pc,             \* where vdf_read_sectors() is
    want,           \* how many sectors it was asked for
    sector,         \* counted from the start of the partition behind the MBR
    rem,
    cnt,
    out,            \* its buffer
    fat,            \* the loop of read_sector_fat()
    left            \* how many FAT entries it has still to write

Bytes == (drv.sectors + drv.mbr_sectors) * drv.bps

callvars == <<pc, want, sector, rem, cnt, out, fat, left>>
vars     == <<drv, req, phase, result, soff, callvars>>

Init ==
    /\ drv \in Drives
    /\ \E off \in 0..Bytes - 1, n \in Lengths(drv) : req = [off |-> off, cnt |-> n]
    /\ phase = IF req.cnt = 0 THEN "done" ELSE "head"
    /\ result = <<>>
    /\ soff = req.off \div drv.bps
    /\ pc = "idle"
    /\ want = 0 /\ sector = 0 /\ rem = 0 /\ cnt = 0
    /\ out = <<>>
    /\ fat = [ent |-> 0, clust |-> 0, file |-> Miss]
    /\ left = 0

Min2(a, b) == IF a < b THEN a ELSE b

-----------------------------------------------------------------------------
(* Mistake: a region is always read to its end.                            *)
WantBelow_ToTheEnd(limit) == limit - sector

(* How many of the sectors that remain lie below limit.                    *)
WantBelow(limit) == IF sector + rem >= limit THEN limit - sector ELSE rem

(* The regions.  Region(r, limit, units, next) reads what the request has  *)
(* of region r, which ends before sector limit: units, if there is any.    *)
(* It goes on with next or returns when nothing remains.                   *)
Region(r, limit, units, next) ==
    /\ pc = r
    /\ IF sector < limit
       THEN LET w == WantBelow(limit)
            IN  /\ out' = out \o units
                /\ rem' = rem - w
                /\ cnt' = cnt + w
                /\ sector' = sector + w
                /\ pc' = IF rem = w THEN "return" ELSE next
       ELSE pc' = next /\ UNCHANGED <<out, rem, cnt, sector>>
    /\ UNCHANGED <<drv, req, phase, result, soff, want, fat, left>>

Zeros(n) == [k \in 1..n |-> Zero]

(* read_sector_boot(): on FAT32 the sector with the free-space information *)
(* and a copy of the boot sector follow.  It writes 512 bytes of a sector  *)
(* and leaves the rest of a longer one as it finds it: the units stand for *)
(* the bytes that it writes.                                               *)
BootUnit(d, s, j) ==
    CASE s = 0 \/ (d.filesys = "FAT32" /\ s = BackupSector) -> <<"boot", j>>
      [] s = 1 /\ d.filesys = "FAT32" -> <<"fsinfo", j>>
      [] OTHER -> Zero

BootUnits(s, n) ==
    [k \in 1..n * drv.bps |-> BootUnit(drv, s + (k - 1) \div drv.bps, (k - 1) % drv.bps)]

MbrUnits == [j \in 1..drv.bps |-> <<"mbr", j - 1>>]

(* The MBR is not a region like the others: its first sector has its own   *)
(* test and return, and behind it sectors are counted from the partition.  *)
ReadMbr ==
    /\ pc = "mbr"
    /\ IF drv.mbr_sectors = 0 \/ sector # 0
       THEN pc' = "pad" /\ UNCHANGED <<out, rem, cnt, sector>>
       ELSE /\ out' = out \o MbrUnits
            /\ rem' = rem - 1
            /\ cnt' = 1
            /\ sector' = 1
            /\ pc' = IF rem = 1 THEN "return" ELSE "pad"
    /\ UNCHANGED <<drv, req, phase, result, soff, want, fat, left>>

LeaveMbr ==
    /\ pc = "partition"
    /\ sector' = sector - drv.mbr_sectors
    /\ pc' = "boot"
    /\ UNCHANGED <<drv, req, phase, result, soff, want, rem, cnt, out, fat, left>>

(* read_sector_fat(drv, sector - base, w, ...): what comes before the      *)
(* loop, the loop, and the way back to the walk through the regions.       *)
EnterFat(region, base, limit, loop, next) ==
    /\ pc = region
    /\ IF sector < limit
       THEN LET w == WantBelow(limit)
            IN  /\ out' = out \o FatHead(sector - base)
                /\ fat' = FatStart(drv, sector - base)
                /\ left' = w * drv.bps - Len(FatHead(sector - base))
                /\ rem' = rem - w
                /\ cnt' = cnt + w
                /\ sector' = sector + w
                /\ pc' = loop
       ELSE pc' = next /\ UNCHANGED <<out, fat, left, rem, cnt, sector>>
    /\ UNCHANGED <<drv, req, phase, result, soff, want>>

FatTurn ==
    /\ pc \in {"chain1", "chain2"}
    /\ left > 0
    /\ out' = Append(out, FatUnit(drv, fat))
    /\ fat' = FatNext(drv, fat)
    /\ left' = left - 1
    /\ UNCHANGED <<drv, req, phase, result, soff, pc, want, sector, rem, cnt>>

LeaveFat ==
    /\ pc \in {"chain1", "chain2"}
    /\ left = 0
    /\ pc' = IF rem = 0 THEN "return" ELSE IF pc = "chain1" THEN "fat2" ELSE "root"
    /\ UNCHANGED <<drv, req, phase, result, soff, want, sector, rem, cnt, out, fat, left>>

FatEnd == IF drv.filesys = "FAT32" THEN drv.data_start ELSE drv.root_start
RootEnd == IF drv.filesys = "FAT32" THEN 0 ELSE drv.data_start

ReadPad ==
    Region("pad", drv.mbr_sectors, Zeros(WantBelow(drv.mbr_sectors) * drv.bps), "partition")

ReadBoot ==
    Region("boot", drv.fat1_start, BootUnits(sector, WantBelow(drv.fat1_start)), "fat1")

ReadFat1 == EnterFat("fat1", drv.fat1_start, drv.fat2_start, "chain1", "fat2")

ReadFat2 == EnterFat("fat2", drv.fat2_start, FatEnd, "chain2", "root")

ReadRoot ==
    Region("root", RootEnd,
           read_sector_dir(drv, sector - drv.root_start, WantBelow(RootEnd), drv.root_dir), "data")

-----------------------------------------------------------------------------
(* read_sector_data(): rem sectors from sector on, one file per turn.      *)
EnterData ==
    /\ pc = "data"
    /\ rem' = WantBelow(drv.sectors)
    /\ cnt' = cnt + rem'
    /\ pc' = "files"
    /\ UNCHANGED <<drv, req, phase, result, soff, want, sector, out, fat, left>>

LeaveData ==
    /\ pc = "files" /\ rem = 0
    /\ pc' = "return"
    /\ UNCHANGED <<drv, req, phase, result, soff, want, sector, rem, cnt, out, fat, left>>

Found == find_file_sector(drv.ranges, drv.file_cnt, drv.data_end, sector)

(* Behind the last file the drive is empty.                                *)
DataBehindFiles ==
    /\ pc = "files" /\ rem > 0
    /\ Found = Miss
    /\ out' = out \o Zeros(rem * drv.bps)
    /\ rem' = 0
    /\ UNCHANGED <<drv, req, phase, result, soff, pc, want, sector, cnt, fat, left>>

(* What a file delivers for n bytes from offset o: the file on disk may be *)
(* shorter than it was when it was added, a callback may return less.      *)
FileUnits(h, o, n) ==
    LET got == Min2(n, IF drv.file[h].disk > o THEN drv.file[h].disk - o ELSE 0)
    IN  [k \in 1..got |-> <<"data", h, o + k - 1>>]

(* Mistake: a file that ends before its last cluster is not filled up.     *)
DataUnits_NotFilled(h, s, swant) ==
    LET f == drv.file[h]
        o == (s - f.startsect) * drv.bps
    IN  IF f.kind = "dir" THEN read_sector_dir(drv, s - f.startsect, swant, h)
        ELSE IF o >= f.size THEN Zeros(swant * drv.bps)
             ELSE FileUnits(h, o, Min2(f.size - o, rem * drv.bps))

(* want is cut to the sectors that are asked for and not to those of the   *)
(* file; the buffer is filled up with zeros to the sectors of the file.    *)
DataUnits(h, s, swant) ==
    LET f    == drv.file[h]
        o    == (s - f.startsect) * drv.bps
        got  == FileUnits(h, o, Min2(f.size - o, rem * drv.bps))
        fill == swant * drv.bps - Len(got)
    IN  IF f.kind = "dir" THEN read_sector_dir(drv, s - f.startsect, swant, h)
        ELSE IF o >= f.size THEN Zeros(swant * drv.bps)
             ELSE got \o Zeros(IF fill > 0 THEN fill ELSE 0)

(* Mistake: neither the sector nor what remains is advanced.               *)
DataOfFile_NotCounted ==
    /\ pc = "files" /\ rem > 0
    /\ Found \in DOMAIN drv.ranges
    /\ LET h     == drv.ranges[Found].file
           swant == Min2(drv.file[h].endsect - sector, rem)
       IN  out' = DataUnits(h, sector, swant)
    /\ UNCHANGED <<drv, req, phase, result, soff, pc, want, sector, rem, cnt, fat, left>>

DataOfFile ==
    /\ pc = "files" /\ rem > 0
    /\ Found \in DOMAIN drv.ranges
    /\ LET h     == drv.ranges[Found].file
           swant == Min2(drv.file[h].endsect - sector, rem)
       IN  /\ out' = out \o DataUnits(h, sector, swant)
           /\ sector' = sector + swant
           /\ rem' = rem - swant
    /\ UNCHANGED <<drv, req, phase, result, soff, pc, want, cnt, fat, left>>

(* open() or read() fails, or the callback says so.                        *)
DataFails ==
    /\ pc = "files" /\ rem > 0
    /\ Found \in DOMAIN drv.ranges
    /\ LET f == drv.file[drv.ranges[Found].file]
       IN  f.kind # "dir" /\ (sector - f.startsect) * drv.bps < f.size
    /\ pc' = "idle"
    /\ phase' = "error"
    /\ UNCHANGED <<drv, req, result, soff, want, sector, rem, cnt, out, fat, left>>

-----------------------------------------------------------------------------
(* vdf_read_bytes(): the end of the first sector, the whole sectors, the   *)
(* start of the last one.  Call(n) is vdf_read_sectors(drv, soff, n, ...). *)
Left   == req.cnt - Len(result)
HeadAt == req.off % drv.bps

Call(n) ==
    /\ pc' = "mbr"
    /\ want' = n
    /\ sector' = soff
    /\ rem' = n
    /\ cnt' = 0
    /\ out' = <<>>
    /\ UNCHANGED <<drv, req, phase, result, soff, fat, left>>

NextPhase(p) ==
    /\ phase' = p
    /\ UNCHANGED <<drv, req, result, soff, callvars>>

BeginHead ==
    /\ pc = "idle" /\ phase = "head"
    /\ IF HeadAt # 0 THEN Call(1) ELSE NextPhase("body")

BeginBody ==
    /\ pc = "idle" /\ phase = "body"
    /\ IF Left >= drv.bps THEN Call(Left \div drv.bps) ELSE NextPhase("tail")

BeginTail ==
    /\ pc = "idle" /\ phase = "tail"
    /\ IF Left > 0 THEN Call(1) ELSE NextPhase("done")

(* The part of the buffer of vdf_read_sectors() that the caller gets.  If  *)
(* more has been written, because a file does not fit its clusters, it     *)
(* lies behind the buffer, and what it destroys there is not modelled.     *)
Piece ==
    CASE phase = "head" -> SubSeq(out, HeadAt + 1, HeadAt + Min2(drv.bps - HeadAt, Left))
      [] phase = "body" -> SubSeq(out, 1, cnt * drv.bps)
      [] phase = "tail" -> SubSeq(out, 1, Left)

(* A call that returns fewer sectors than it was asked for has come to the *)
(* end of the drive and ends the read; of a single sector nothing is kept. *)
Return ==
    /\ pc = "return"
    /\ pc' = "idle"
    /\ result' = IF cnt < want /\ phase # "body" THEN result ELSE result \o Piece
    /\ soff' = soff + want
    /\ phase' = IF cnt < want THEN "done"
                ELSE CASE phase = "head" -> "body"
                       [] phase = "body" -> "tail"
                       [] phase = "tail" -> "done"
    /\ UNCHANGED <<drv, req, want, sector, rem, cnt, out, fat, left>>

Done ==
    /\ phase \in {"done", "error"}
    /\ UNCHANGED vars

ReadStep ==
    \/ BeginHead \/ BeginBody \/ BeginTail \/ Return
    \/ ReadMbr \/ ReadPad \/ LeaveMbr \/ ReadBoot \/ ReadFat1 \/ ReadFat2 \/ ReadRoot
    \/ FatTurn \/ LeaveFat
    \/ EnterData \/ LeaveData \/ DataBehindFiles \/ DataOfFile \/ DataFails

Next == ReadStep \/ Done

(* The functions are loops without waits: they go on until they return.    *)
Spec == Init /\ [][Next]_vars /\ WF_vars(ReadStep)

-----------------------------------------------------------------------------
(* The image, unit by unit, from what the files say and from nothing that  *)
(* the readers compute: no range, no window, no order of reading.          *)
UnitAt(seq, k) == IF k < Len(seq) THEN seq[k + 1] ELSE Zero

SectorOwners(d, p) ==
    {h \in DOMAIN d.file : d.file[h].listed /\ d.file[h].size # 0
                           /\ d.file[h].startsect <= p /\ p < d.file[h].endsect}

UnitOfFile(d, h, o) ==
    IF d.file[h].kind = "dir" THEN UnitAt(DirUnits(d, h), o)
    ELSE IF o < Min2(d.file[h].size, d.file[h].disk) THEN <<"data", h, o>> ELSE Zero

PartitionUnit(d, p, j) ==
    CASE p < d.fat1_start -> BootUnit(d, p, j)
      [] p >= d.fat1_start /\ p < d.fat2_start -> FatEntry(d, (p - d.fat1_start) * d.bps + j)
      [] p >= d.fat2_start /\ p < d.root_start -> FatEntry(d, (p - d.fat2_start) * d.bps + j)
      [] p >= d.root_start /\ p < d.data_start ->
           UnitAt(DirUnits(d, d.root_dir), (p - d.root_start) * d.bps + j)
      [] p >= d.data_start ->
           IF SectorOwners(d, p) = {} THEN Zero
           ELSE LET h == CHOOSE h \in SectorOwners(d, p) : TRUE
                IN  UnitOfFile(d, h, (p - d.file[h].startsect) * d.bps + j)

SectorUnit(d, dev, j) ==
    IF dev >= d.mbr_sectors THEN PartitionUnit(d, dev - d.mbr_sectors, j)
    ELSE IF dev = 0 THEN <<"mbr", j>> ELSE Zero

ImageUnit(d, b) == SectorUnit(d, b \div d.bps, b % d.bps)

(* The variables keep their types.                                         *)
TypeOK ==
    /\ req.off \in 0..Bytes - 1 /\ req.cnt \in Nat
    /\ phase \in {"head", "body", "tail", "done", "error"}
    /\ pc \in {"idle", "mbr", "pad", "partition", "boot", "fat1", "chain1", "fat2", "chain2",
               "root", "data", "files", "return"}
    /\ {soff, want, sector, rem, cnt, left} \subseteq Nat

(* There is one image: whatever the request, wherever it begins and ends,  *)
(* however it falls on the MBR, the two FATs, the root directory, the      *)
(* files, the space behind them, the reader gets the bytes of that image.  *)
(* The windows of the FAT and of a directory are generated from the middle *)
(* of a chain or of a long name without knowing what came before.  A       *)
(* request that goes beyond the drive gets what there is.  The exception   *)
(* are drives with a file that its clusters do not hold.                   *)
ReadIsImage ==
    FilesFit(drv) /\ phase = "done" =>
        /\ Len(result) = Min2(req.cnt, Bytes - req.off)
        /\ \A i \in 1..Len(result) : result[i] = ImageUnit(drv, req.off + i - 1)

(* No function writes beyond the sectors that its caller has room for, and *)
(* the write pointer and the sector count stay in step from region to      *)
(* region: what is written is exactly the sectors that are counted.  The   *)
(* exception are drives with a file that its clusters do not hold.         *)
BufferInStep ==
    FilesFit(drv) /\ pc # "idle" =>
        /\ Len(out) <= want * drv.bps
        /\ Len(out) = (cnt - IF pc = "files" THEN rem ELSE 0) * drv.bps - left

(* Every read returns: each turn of the loop over the files advances.      *)
ReadReturns == <>(phase \in {"done", "error"})

-----------------------------------------------------------------------------
(* What comments of the code say and the code does not do.                 *)

(* vdf_drive.h:65-66: the ranges are a list with one item for each file or *)
(* directory that is not empty; no read looks behind its end.              *)
ReadStaysInRanges == \A i \in DOMAIN out : out[i] # Garbage
=============================================================================
