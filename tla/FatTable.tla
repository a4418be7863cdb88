------------------------------ MODULE FatTable ------------------------------
(***************************************************************************)
(* What a reader of the virtual drive gets for a window of the FAT or of a *)
(* directory: read_sector_fat() (libvdf/fat.c, FAT16 and FAT32; FAT12 is   *)
(* Fat12) and read_sector_dir() (libvdf/read_dir.c).  Neither table exists *)
(* anywhere: each window is generated from the layout when it is asked     *)
(* for, starting in the middle of a file or of a long name if need be.     *)
(*                                                                         *)
(* The content of a drive is a sequence of units.  A FAT entry, a 32-byte  *)
(* directory entry and a byte of a file are one unit each; bps is the      *)
(* number of units in a sector.  drv is a clean drive, as Read describes.  *)
(***************************************************************************)
EXTENDS Layout, SequencesExt

Zero     == <<"zero">>
EndMark  == <<"end">>
Garbage  == <<"garbage">>
Link(c)  == <<"link", c>>

-----------------------------------------------------------------------------
(* The loop of read_sector_fat() keeps the entry that it writes, the       *)
(* number of the cluster behind it, and the range whose chain it follows:  *)
(* Miss after the last one, from where memset() fills the window, and Wild *)
(* when fat_next_file() has left the array, from where on the loop writes  *)
(* what it makes of the memory behind it.  The first two entries of the    *)
(* table are reserved and are written before the loop.                     *)
FatHead(sector) == IF sector = 0 THEN <<<<"media">>, <<"reserved">>>> ELSE <<>>

FatStart(drv, sector) ==
    LET ent == IF sector = 0 THEN FirstCluster ELSE sector * drv.bps
    IN  [ent |-> ent, clust |-> ent + 1,
         file |-> find_file_fat_entry(drv.ranges, drv.file_cnt, drv.data_cluster_end, ent)]

InChain(drv, fat) == fat.file \in DOMAIN drv.ranges
AtChainEnd(drv, fat) == fat.ent >= drv.ranges[fat.file].fatend - 1

FatUnit(drv, fat) ==
    IF InChain(drv, fat)
    THEN IF AtChainEnd(drv, fat) THEN EndMark ELSE Link(fat.clust)
    ELSE IF fat.file = Miss THEN Zero ELSE Garbage

FatNext(drv, fat) ==
    IF ~InChain(drv, fat) THEN fat
    ELSE IF AtChainEnd(drv, fat)
         THEN [ent |-> fat.ent + 1, clust |-> fat.ent + 2,
               file |-> fat_next_file(drv.ranges, drv.file_cnt, fat.file)]
         ELSE [fat EXCEPT !.ent = @ + 1, !.clust = @ + 1]

-----------------------------------------------------------------------------
(* Mistake: a window that starts inside a long name starts it again.       *)
fill_dirent_NoSkip(drv, h, entnum, maxcnt) ==
    LET f   == drv.file[h]
        all == [e \in 1..f.fent_cnt |-> <<"lfn", h, f.fent_cnt + 1 - e>>] \o <<<<"dirent", h>>>>
    IN  SubSeq(all, 1, IF Len(all) < maxcnt THEN Len(all) ELSE maxcnt)

(* fill_dirent(): the long-name entries of f, last piece first, without    *)
(* those that lie before entry entnum of the directory, then the short     *)
(* entry; at most maxcnt of them.  fent_cnt is zero for a short name.      *)
fill_dirent(drv, h, entnum, maxcnt) ==
    LET f      == drv.file[h]
        pieces == [e \in 1..f.fent_cnt |-> <<"lfn", h, f.fent_cnt + 1 - e>>]
        skip   == IF entnum > f.fent_start THEN entnum - f.fent_start ELSE 0
        all    == SubSeq(pieces, skip + 1, f.fent_cnt) \o <<<<"dirent", h>>>>
    IN  SubSeq(all, 1, IF Len(all) < maxcnt THEN Len(all) ELSE maxcnt)

(* The loop over the entries of a directory: the window after the first k  *)
(* of them.  Entries that lie before entry ent, and those that come when   *)
(* the window is full, are passed over.                                    *)
FillEntry(drv, ent, room, out, h) ==
    IF drv.file[h].fent_start + drv.file[h].fent_cnt + 1 <= ent \/ Len(out) >= room
    THEN out
    ELSE out \o fill_dirent(drv, h, ent, room - Len(out))

FillEntries(drv, ent, room, dots, entries) ==
    LET After[k \in 0..Len(entries)] ==
            IF k = 0 THEN dots ELSE FillEntry(drv, ent, room, After[k - 1], entries[k])
    IN  After[Len(entries)]

(* '.' and '..' open every directory but the root.                         *)
Dots(drv, dir) ==
    IF dir = drv.root_dir THEN <<>>
    ELSE <<<<"dot", dir>>, <<"dotdot", drv.file[dir].parent>>>>

(* read_sector_dir(): the entry for the drive's label is disabled in the   *)
(* code.                                                                   *)
read_sector_dir(drv, sector, scnt, dir) ==
    LET d      == drv.file[dir]
        room   == scnt * drv.bps
        dots   == IF sector = 0 THEN Dots(drv, dir) ELSE <<>>
        ent    == IF sector = 0 THEN Len(dots) ELSE sector * drv.bps
        listed == IF ent < d.dir_fent_cnt
                  THEN FillEntries(drv, ent, room, dots, d.entries) ELSE dots
    IN  listed \o [k \in 1..(room - Len(listed)) |-> Zero]

-----------------------------------------------------------------------------
(* The tables themselves, which the windows are compared with.  FatEntry   *)
(* is the FAT of files that lie one behind the other; DirUnits is the      *)
(* list of entries of a directory.                                         *)
FatEntry(drv, e) ==
    LET owners == {h \in DOMAIN drv.file :
                     drv.file[h].listed /\ drv.file[h].size # 0
                     /\ drv.file[h].start <= e /\ e < drv.file[h].end}
    IN  CASE e = 0 -> <<"media">>
          [] e = 1 -> <<"reserved">>
          [] e > 1 -> IF owners = {} THEN Zero
                      ELSE IF \E h \in owners : e = drv.file[h].end - 1 THEN EndMark
                           ELSE Link(e + 1)

DirEntry(drv, h) ==
    [e \in 1..drv.file[h].fent_cnt |-> <<"lfn", h, drv.file[h].fent_cnt + 1 - e>>]
    \o <<<<"dirent", h>>>>

DirPart(drv, dir) ==
    LET es == drv.file[dir].entries
        Part[k \in 0..Len(es)] ==
            IF k = 0 THEN Dots(drv, dir) ELSE Part[k - 1] \o DirEntry(drv, es[k])
    IN  Part

DirUnits(drv, dir) == DirPart(drv, dir)[Len(drv.file[dir].entries)]
=============================================================================
