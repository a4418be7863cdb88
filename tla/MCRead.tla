------------------------------- MODULE MCRead -------------------------------
(***************************************************************************)
(* Read on small drives.  A drive is laid out from a list of files in the  *)
(* order of all_files with the operators that Drive uses, so every drive   *)
(* here is one that a recalculation produces: four units to a sector, two  *)
(* FATs, a root directory, and files that end inside, at and behind the    *)
(* end of a sector and of a cluster.                                       *)
(***************************************************************************)
EXTENDS Read

(* A file: its kind, its size, what the disk still has of it, the extra    *)
(* entries of its long name, and its directory (0 is the root, otherwise a *)
(* position in the list).                                                  *)
F(k, s, d, x, p) == [kind |-> k, size |-> s, disk |-> d, lfn |-> x, in |-> p]

List ==
    [n \in {"plain", "shrunk", "nested", "long names", "nothing", "one empty"} |->
        CASE n = "plain"      -> <<F("real", 5, 5, 0, 0), F("virt", 4, 4, 1, 0)>>
          [] n = "shrunk"     -> <<F("real", 9, 6, 1, 0), F("real", 1, 0, 0, 0)>>
          [] n = "nested"     -> <<F("dir", 0, 0, 1, 0), F("virt", 3, 3, 2, 1),
                                   F("real", 4, 4, 0, 1)>>
          [] n = "long names" -> <<F("real", 2, 2, 3, 0), F("real", 2, 2, 2, 0)>>
          [] n = "nothing"    -> <<>>
          [] n = "one empty"  -> <<F("real", 5, 5, 0, 0), F("virt", 0, 0, 0, 0)>>]

(* The FATs are as large as createdrive_ext() makes them: one entry for    *)
(* each cluster that there would be if there were no FAT.                  *)
Geometry(fs, mbr, spc) ==
    LET boot == IF fs = "FAT32" THEN 3 ELSE 1
        root == IF fs = "FAT32" THEN 0 ELSE 2
        size == IF spc = 1 THEN 3 ELSE 2
        data == IF spc = 1 THEN 6 ELSE 10
    IN  [filesys |-> fs, mbr_sectors |-> mbr, bps |-> 4, spc |-> spc,
         fat1_start |-> boot, fat2_start |-> boot + size, root_start |-> boot + 2 * size,
         data_start |-> boot + 2 * size + root, sectors |-> boot + 2 * size + root + data]

Geom == [n \in {"fat16", "fat16 mbr", "fat32", "fat32 mbr"} |->
            CASE n = "fat16"     -> Geometry("FAT16", 0, 1)
              [] n = "fat16 mbr" -> Geometry("FAT16", 2, 2)
              [] n = "fat32"     -> Geometry("FAT32", 0, 2)
              [] n = "fat32 mbr" -> Geometry("FAT32", 1, 1)]

Steps(n) == [k \in 1..n |-> k]

(* Handle 0 is the root directory; on FAT32 it is the first of all_files.  *)
(* The drives have no label: its entry takes a place in fent_start that    *)
(* fill_dirent() does not give it.  old is the size of a cluster when the  *)
(* sizes of the files were set: vdf_drive_recreate() keeps their clusters, *)
(* and dir_recalc() computes those of the directories again.               *)
Build(g, old, files) ==
    LET n == Len(files)
        Children(p) == SelectSeq(Steps(n), LAMBDA i : files[i].in = p)
        First(p) == IF p = 0 THEN 0 ELSE 2
        FentStart(i) == FoldLeft(LAMBDA acc, c : IF c < i THEN acc + files[c].lfn + 1 ELSE acc,
                                 First(files[i].in), Children(files[i].in))
        Fents(p) == FoldLeft(LAMBDA acc, c : acc + files[c].lfn + 1, First(p), Children(p))
        Kind(h) == IF h = 0 THEN "dir" ELSE files[h].kind
        Size(h) == IF Kind(h) = "dir" THEN Fents(h) ELSE files[h].size
        Bpc(h) == g.bps * IF Kind(h) = "dir" THEN g.spc ELSE old
        raw == [h \in 0..n |->
                  [size |-> Size(h), clusters |-> (Size(h) + Bpc(h) - 1) \div Bpc(h),
                   start |-> 0, end |-> 0, startsect |-> 0, endsect |-> 0]]
        list == (IF g.filesys = "FAT32" THEN <<0>> ELSE <<>>) \o Steps(n)
        laid == FoldLeft(LAMBDA acc, h : [d |-> OffsizeDrive(g, acc.d, acc.e[h]),
                                          e |-> [acc.e EXCEPT ![h] = OffsizeFile(g, acc.d, @)]],
                         [d |-> LayoutStart(g), e |-> raw], list)
        full == SelectSeq(list, LAMBDA h : HasRange(Kind(h) = "dir", laid.e[h]))
    IN  [filesys |-> g.filesys, mbr_sectors |-> g.mbr_sectors, bps |-> g.bps,
         fat1_start |-> g.fat1_start, fat2_start |-> g.fat2_start,
         root_start |-> g.root_start, data_start |-> g.data_start, sectors |-> g.sectors,
         root_dir |-> 0, file_cnt |-> Len(list),
         data_end |-> laid.d.dend, data_cluster_end |-> laid.d.cend,
         ranges |-> [i \in DOMAIN full |-> RangeOf(g, full[i], laid.e[full[i]])],
         file |-> [h \in 0..n |->
            [kind |-> Kind(h), size |-> Size(h),
             disk |-> IF h = 0 THEN 0 ELSE files[h].disk,
             listed |-> h # 0 \/ g.filesys = "FAT32",
             parent |-> IF h = 0 THEN -1 ELSE files[h].in,
             fent_cnt |-> IF h = 0 THEN 0 ELSE files[h].lfn,
             fent_start |-> IF h = 0 THEN 0 ELSE FentStart(h),
             dir_fent_cnt |-> IF Kind(h) = "dir" THEN Fents(h) ELSE 0,
             entries |-> Children(h),
             start |-> laid.e[h].start, end |-> laid.e[h].end,
             startsect |-> laid.e[h].startsect, endsect |-> laid.e[h].endsect]]]

Laid(geoms, lists) ==
    {Build(Geom[g], Geom[g].spc, List[l]) : g \in geoms, l \in lists}

(* Drives that have been recreated with smaller clusters.                  *)
Recreated == {Build(Geom["fat32 mbr"], 4, List[l]) : l \in {"plain", "shrunk"}}

NoneEmpty  == Laid({"fat16", "fat16 mbr", "fat32", "fat32 mbr"},
                    {"plain", "shrunk", "nested", "long names"})
              \cup Laid({"fat16", "fat16 mbr"}, {"nothing"})
              \cup Recreated
WithEmpty  == Laid({"fat16", "fat32"}, {"one empty"})

(* From every offset: inside a sector, over the end of one, up to three    *)
(* sectors of which two are cut, five sectors, and the whole drive.        *)
SomeLengths(d) == 0..(2 * d.bps + 1) \cup {17, (d.sectors + d.mbr_sectors) * d.bps}
=============================================================================
