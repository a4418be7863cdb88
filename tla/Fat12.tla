------------------------------- MODULE Fat12 --------------------------------
(***************************************************************************)
(* read_sector_fat() (libvdf/fat.c) on a FAT12 drive, where an entry takes *)
(* one and a half bytes and a sector may begin and end inside an entry.    *)
(* The window is built byte by byte; a byte is a pair of nibbles, low one  *)
(* first, so that entry e is the nibbles 3e, 3e+1 and 3e+2 of the table.   *)
(* Each turn of the loop is an action, chosen by whether the entry starts  *)
(* in the middle of a byte (halfent) and whether it ends a chain.          *)
(***************************************************************************)
EXTENDS Layout, FiniteSets

CONSTANTS
    Tables,       \* the clean drives: ranges, file_cnt, data_cluster_end
    Windows,      \* which [sector, scnt] are read
    Bps,          \* bytes per sector
    NibBase       \* 16; a nibble is a number below it

ASSUME Fat12Assumption == NibBase \in Nat /\ NibBase > 1 /\ Bps \in Nat

VARIABLES drv, win, buffer, i, ent, clust, halfent, file, pc

vars == <<drv, win, buffer, i, ent, clust, halfent, file, pc>>

(* The nibbles of a buffer that nobody has written.                        *)
Junk == -1
Ones == NibBase - 1
Media == NibBase \div 2       \* the 8 of 0xff8, the entry of a fixed disk
Byte(lo, hi) == [lo |-> lo, hi |-> hi]

(* Nibble k of the 12-bit number c.                                        *)
Nibble(c, k) ==
    IF k = 0 THEN c % NibBase
    ELSE IF k = 1 THEN (c \div NibBase) % NibBase
         ELSE (c \div (NibBase * NibBase)) % NibBase

Size == win.scnt * Bps

(* Sector 0 begins with two reserved entries.  For the others the code     *)
(* works out the entry that the sector begins in, and halves it.           *)
FirstEnt(sector) == ((sector * 2) * Bps) \div 3

Init ==
    /\ drv \in Tables
    /\ win \in Windows
    /\ buffer = [k \in 0..Size - 1 |->
                    IF win.sector = 0 /\ k = 0 THEN Byte(Media, Ones)
                    ELSE IF win.sector = 0 /\ k < 3 THEN Byte(Ones, Ones)
                    ELSE Byte(Junk, Junk)]
    /\ i = IF win.sector = 0 THEN 3 ELSE 0
    /\ ent = IF win.sector = 0 THEN FirstCluster ELSE FirstEnt(win.sector) \div 2
    /\ halfent = (win.sector # 0 /\ FirstEnt(win.sector) % 2 = 1)
    /\ clust = ent + 1
    /\ file = find_file_fat_entry(drv.ranges, drv.file_cnt, drv.data_cluster_end, ent)
    /\ pc = IF file = Miss THEN "finish" ELSE "loop"

-----------------------------------------------------------------------------
Looping(half) == pc = "loop" /\ i < Size /\ halfent = half
InFile == ent < drv.ranges[file].fatend - 1

(* Mistake: the second byte of the entry is shifted once too often, as in  *)
(* read_sector_fat_clustlist().                                            *)
LinkHalf_WrongShift ==
    /\ Looping(TRUE) /\ InFile
    /\ LET hi  == IF buffer[i].hi = 0 THEN Nibble(clust, 0) ELSE Junk
           two == i + 1 < Size - 1
       IN  /\ buffer' = [k \in DOMAIN buffer |->
                            IF k = i THEN Byte(0, hi)
                            ELSE IF k = i + 1 /\ two THEN Byte(Nibble(clust, 2), 0)
                            ELSE buffer[k]]
           /\ i' = IF two THEN i + 2 ELSE i + 1
    /\ clust' = clust + 1
    /\ ent' = ent + 1
    /\ halfent' = FALSE
    /\ UNCHANGED <<drv, win, file, pc>>

(* *buffer &= 0xf0 clears the low nibble, which belongs to the entry       *)
(* before; the high one is what was there, with the new bits put in.       *)
LinkHalf ==
    /\ Looping(TRUE) /\ InFile
    /\ LET hi  == IF buffer[i].hi = 0 THEN Nibble(clust, 0) ELSE Junk
           two == i + 1 < Size - 1
       IN  /\ buffer' = [k \in DOMAIN buffer |->
                            IF k = i THEN Byte(0, hi)
                            ELSE IF k = i + 1 /\ two
                                 THEN Byte(Nibble(clust, 1), Nibble(clust, 2))
                                 ELSE buffer[k]]
           /\ i' = IF two THEN i + 2 ELSE i + 1
    /\ clust' = clust + 1
    /\ ent' = ent + 1
    /\ halfent' = FALSE
    /\ UNCHANGED <<drv, win, file, pc>>

LinkWhole ==
    /\ Looping(FALSE) /\ InFile
    /\ buffer' = [k \in DOMAIN buffer |->
                     IF k = i THEN Byte(Nibble(clust, 0), Nibble(clust, 1))
                     ELSE IF k = i + 1 /\ i + 1 < Size - 1 THEN Byte(Nibble(clust, 2), 0)
                     ELSE buffer[k]]
    /\ i' = i + 1
    /\ clust' = clust + 1
    /\ ent' = ent + 1
    /\ halfent' = TRUE
    /\ UNCHANGED <<drv, win, file, pc>>

(* Mistake: the loop goes on when there is no next range.                  *)
NextChain_NoTest ==
    /\ ent' = ent + 1
    /\ clust' = ent + 2
    /\ halfent' = ~halfent
    /\ file' = fat_next_file(drv.ranges, drv.file_cnt, file)
    /\ pc' = "loop"

(* After the last entry of a chain: the next range, or the end of the loop *)
(* when there is none.                                                     *)
NextChain ==
    LET next == fat_next_file(drv.ranges, drv.file_cnt, file)
    IN  /\ ent' = ent + 1
        /\ clust' = IF next = Miss THEN clust ELSE ent + 2
        /\ halfent' = IF next = Miss THEN halfent ELSE ~halfent
        /\ file' = next
        /\ pc' = IF next = Miss THEN "finish" ELSE "loop"

EndHalf ==
    /\ Looping(TRUE) /\ ~InFile
    /\ buffer' = [k \in DOMAIN buffer |->
                     IF k = i THEN Byte(buffer[k].lo, Ones)
                     ELSE IF k = i + 1 /\ i < Size - 1 THEN Byte(Ones, Ones)
                     ELSE buffer[k]]
    /\ i' = i + 2
    /\ NextChain
    /\ UNCHANGED <<drv, win>>

EndWhole ==
    /\ Looping(FALSE) /\ ~InFile
    /\ buffer' = [k \in DOMAIN buffer |->
                     IF k = i THEN Byte(Ones, Ones)
                     ELSE IF k = i + 1 /\ i < Size - 1 THEN Byte(Ones, 0)
                     ELSE buffer[k]]
    /\ NextChain
    /\ i' = IF pc' = "finish" THEN i + 2 ELSE i + 1
    /\ UNCHANGED <<drv, win>>

(* memset(buffer, 0, scnt - i), whose length is negative when the last     *)
(* entry went beyond the window.                                           *)
Finish ==
    /\ pc = "finish" \/ (pc = "loop" /\ i >= Size)
    /\ pc' = IF i > Size THEN "overrun" ELSE "done"
    /\ buffer' = [k \in DOMAIN buffer |-> IF k >= i THEN Byte(0, 0) ELSE buffer[k]]
    /\ UNCHANGED <<drv, win, i, ent, clust, halfent, file>>

Returned ==
    /\ pc \in {"done", "overrun"}
    /\ UNCHANGED vars

Next == LinkHalf \/ LinkWhole \/ EndHalf \/ EndWhole \/ Finish \/ Returned

Spec == Init /\ [][Next]_vars

-----------------------------------------------------------------------------
(* The table, nibble by nibble.                                            *)
EntryValue(e) ==
    LET last == \E r \in 1..Len(drv.ranges) : e = drv.ranges[r].fatend - 1
        all  == (NibBase * NibBase * NibBase) - 1
    IN  CASE e = 0 -> all - Ones + Media
          [] e = 1 -> all
          [] e > 1 -> IF e >= drv.data_cluster_end THEN 0 ELSE IF last THEN all ELSE e + 1

TableNibble(p) == Nibble(EntryValue(p \div 3), p % 3)

WindowIsTable ==
    \A k \in DOMAIN buffer :
        LET p == 2 * (win.sector * Bps + k)
        IN  buffer[k] = Byte(TableNibble(p), TableNibble(p + 1))

(* The variables keep their types and the loop stays inside the window     *)
(* until its last turn.                                                    *)
TypeOK ==
    /\ i \in 0..Size + 1
    /\ pc = "loop" => file \in DOMAIN drv.ranges
    /\ pc \in {"loop", "finish", "done", "overrun"}

(* In a window from the start of the table, as long as every cluster       *)
(* number fits in two nibbles and the chains end before the last byte of   *)
(* the window, every link is right and nothing is written behind the       *)
(* window: links that share a byte are written in two turns and do not     *)
(* damage each other.  (An end mark that shares a byte with the first link *)
(* of the next file is damaged, which is why the claim is about links.)    *)
Small == win.sector = 0 /\ drv.data_cluster_end <= NibBase * NibBase
         /\ 3 * drv.data_cluster_end <= 2 * (Size - 1)

NibbleAt(p) == IF p % 2 = 0 THEN buffer[p \div 2].lo ELSE buffer[p \div 2].hi

IsLink(e) ==
    \E r \in 1..Len(drv.ranges) : drv.ranges[r].fatstart <= e /\ e < drv.ranges[r].fatend - 1

Fat12LinksRight ==
    Small =>
        /\ pc # "overrun"
        /\ pc = "done" => \A e \in FirstCluster..drv.data_cluster_end - 1, k \in 0..2 :
                             IsLink(e) => NibbleAt(3 * e + k) = Nibble(e + 1, k)

(* README:19: "The library supports creating FAT12, FAT16 and FAT32        *)
(* filesystems", so every window of a FAT12 table is a part of that table. *)
Fat12TableRight == (pc = "done" => WindowIsTable) /\ pc # "overrun"
=============================================================================
