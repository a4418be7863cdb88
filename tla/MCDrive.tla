------------------------------ MODULE MCDrive -------------------------------
(***************************************************************************)
(* Drive on small instances: sectors of two units, directory entries of    *)
(* one unit, drives of a dozen sectors, so that one or two files fill a    *)
(* drive and a recalculation can fail at each of its tests.                *)
(***************************************************************************)
EXTENDS Drive

Fat16 ==
    [filesys |-> "FAT16", spc |-> 2, sectors |-> 9, data_start |-> 2,
     root_dir_cnt |-> 2, vfat |-> TRUE]

Fat32 ==
    [filesys |-> "FAT32", spc |-> 2, sectors |-> 7, data_start |-> 2,
     root_dir_cnt |-> 2, vfat |-> TRUE]

BothGeoms == {Fat16, Fat32}
OnlyFat16 == {Fat16}

(* What a dirty drive has left over from its last layout is overwritten by *)
(* the next recalculation before any property looks at it: the ranges, the *)
(* ends of the data area and the positions of the files.  The exception is *)
(* the root directory, which may become empty and then gets a range with   *)
(* its old position; a directory that was never placed has no position.    *)
(* Dirty states that differ in nothing else behave alike and TLC visits    *)
(* one of them.                                                            *)
LeftOver ==
    <<[h \in DOMAIN extent |-> <<extent[h].size, extent[h].clusters>>],
      extent[Root], have_ranges>>

Observable ==
    <<file, all_files, file_cnt, setupvars, dirty,
      IF dirty THEN LeftOver ELSE <<extent, layoutvars>> >>

Interchangeable == Permutations(Handles \ {Root})
=============================================================================
