----------------------------- MODULE MCGeometry -----------------------------
(***************************************************************************)
(* Geometry at the sizes where createdrive_ext() changes its mind: around  *)
(* the limits of the cluster tables, of the file systems and of the 16-bit *)
(* and 32-bit counts, and on drives too small for their own structures.    *)
(***************************************************************************)
EXTENDS Geometry

(* A size in units of 512 bytes and its neighbours.                        *)
Around(n) == {W(n - 1), W(n), W(n + 1)}

BoundarySizes ==
    Around(1) \cup Around(34) \cup {W(64), W(2048), W(4200)} \cup Around(32736)
        \cup Around(32768) \cup Around(65536) \cup {W(70000)} \cup Around(532480)
        \cup {W(1048000), W(4194304), W(8388608), GiB(5), GiB(15)}
        \cup {TiB(1), <<65535, 65535>>, TiB(2)}

AllFsFlags == {"AUTO", "AUTO_NO32", "FAT12", "FAT16", "FAT32"}

SomeFlags ==
    {[align |-> FALSE, warn |-> FALSE, mbr |-> "none"],
     [align |-> TRUE, warn |-> TRUE, mbr |-> "pad"]}
=============================================================================
