------------------------------ MODULE FileTree ------------------------------
(***************************************************************************)
(* The files and directories of a virtual drive and the three structures   *)
(* that libvdf/file.c keeps about them: the directory lists (dir.entries   *)
(* and file->parent), the flat list drv->all_files, and the two counters   *)
(* dir.cnt and drv->file_cnt.  Each operator below is the part of an API   *)
(* call that changes these structures; Drive adds the guards on the lock   *)
(* and the effect on the drive's layout.                                   *)
(*                                                                         *)
(* A vdf_file is a handle.  file[h] is what the application says about it  *)
(* and extent[h] is where the last recalculation put it; both are defined  *)
(* on the allocated handles only.  Names are abstracted to the number of   *)
(* extra directory entries that the long name takes (0 when VFF_LONGNAME   *)
(* is clear): the application can always pick a name that is not taken, so *)
(* EEXIST is a call that changes nothing.                                  *)
(***************************************************************************)
EXTENDS Layout, FiniteSets, SequencesExt

CONSTANTS
    Handles,      \* addresses that malloc() may give to a vdf_file
    Root,         \* drv->root_dir, allocated with the drive
    NULL,         \* the parent of the root directory
    FREED,        \* a parent pointer that outlived its directory
    LfnExtras     \* how many extra directory entries a name may take

ASSUME HandlesAssumption ==
    /\ Root \in Handles
    /\ NULL \notin Handles
    /\ FREED \notin Handles
    /\ NULL # FREED

VARIABLES
    file,         \* allocated handle -> [parent, dir, virt, lfn, entries, cnt]
    extent,       \* allocated handle -> size, clusters and position
    all_files,    \* drv->all_files
    file_cnt      \* drv->file_cnt

treevars == <<file, extent, all_files, file_cnt>>

NewFile(p, isdir, isvirt, n) ==
    [parent |-> p, dir |-> isdir, virt |-> isvirt, lfn |-> n,
     entries |-> <<>>, cnt |-> 0]

(* memset(fil, 0, ...): a new file has no position.                        *)
NewExtent(s, c) ==
    [size |-> s, clusters |-> c, start |-> 0, end |-> 0,
     startsect |-> 0, endsect |-> 0]

IsDir(h) == h \in DOMAIN file /\ file[h].dir

(* The calls that look into file->parent need a parent that still exists.  *)
(* The code does not ask: deleting, moving or renaming an orphan goes      *)
(* through a pointer into freed memory (file.c:358, 386), which the model  *)
(* leaves out because nothing defines what it does.                        *)
HasParent(h) == h \in DOMAIN file /\ file[h].parent \in DOMAIN file

-----------------------------------------------------------------------------
(* create_root_dir(): on FAT32 the root directory is a file like another;  *)
(* on FAT12 and FAT16 it lives outside the data area and is not listed.    *)
RootListed(g) == g.filesys = "FAT32"

TreeInit(g) ==
    /\ file = [h \in {Root} |-> NewFile(NULL, TRUE, FALSE, 0)]
    /\ extent = [h \in {Root} |-> NewExtent(0, 0)]
    /\ all_files = IF RootListed(g) THEN <<Root>> ELSE <<>>
    /\ file_cnt = IF RootListed(g) THEN 1 ELSE 0

(* The ENOSPC test of create_file().                                       *)
RootHasRoom(g, p) ==
    RootListed(g) \/ p # Root \/ file[p].cnt # g.root_dir_cnt

(* create_file(), then the fields that vdf_add_dir(), vdf_add_file_real()  *)
(* and vdf_add_file_virt() fill in.                                        *)
create_file(g, p, h, rec, ext) ==
    /\ h \in Handles \ DOMAIN file
    /\ IsDir(p)
    /\ RootHasRoom(g, p)
    /\ file' = [x \in DOMAIN file \cup {h} |->
                   IF x = h THEN rec
                   ELSE IF x = p
                        THEN [file[x] EXCEPT !.entries = Append(@, h), !.cnt = @ + 1]
                        ELSE file[x]]
    /\ extent' = [x \in DOMAIN extent \cup {h} |-> IF x = h THEN ext ELSE extent[x]]
    /\ all_files' = Append(all_files, h)
    /\ file_cnt' = file_cnt + 1

(* The exit_err path of create_file(), after strdup() or calc_shortname()  *)
(* has failed: the file leaves both lists and is freed, and neither        *)
(* counter is put back.                                                    *)
create_file_fails(g, p) ==
    /\ IsDir(p)
    /\ RootHasRoom(g, p)
    /\ file' = [file EXCEPT ![p].cnt = @ + 1]
    /\ file_cnt' = file_cnt + 1
    /\ UNCHANGED <<extent, all_files>>

(* vdf_delete_file() and delete_file().  VFF_DELETED is set before         *)
(* vdf_file_is_dir() is asked, and that test says no for a deleted file:   *)
(* the files of a deleted directory stay in all_files, with a parent       *)
(* pointer into freed memory.  The parent's dir.cnt is not decremented.    *)
delete_file(h) ==
    LET unlinked == [file EXCEPT ![file[h].parent].entries = RemoveFirst(@, h)]
    IN  /\ h # Root
        /\ HasParent(h)
        /\ file' = [x \in DOMAIN file \ {h} |->
                       [unlinked[x] EXCEPT !.parent = IF @ = h THEN FREED ELSE @]]
        /\ extent' = [x \in DOMAIN extent \ {h} |-> extent[x]]
        /\ all_files' = RemoveFirst(all_files, h)
        /\ file_cnt' = file_cnt - 1

(* vdf_move_file(): the file goes to the head of its new directory, which  *)
(* may be a directory inside the moved one or the moved one itself.        *)
(* calc_shortname() looks at the name again, so it can set the flag        *)
(* VFF_LONGNAME that vdf_set_file_shortname() had cleared.                 *)
MovedLfn(n) == IF n = 0 THEN LfnExtras ELSE {n}

(* Mistake: no list_del() before the list_add().                           *)
move_file_NotUnlinked(h, p, n) ==
    /\ HasParent(h)
    /\ IsDir(p)
    /\ file[h].parent # p
    /\ n \in MovedLfn(file[h].lfn)
    /\ file' = [file EXCEPT ![p].entries = <<h>> \o @, ![p].cnt = @ + 1,
                            ![h].parent = p, ![h].lfn = n]
    /\ UNCHANGED <<extent, all_files, file_cnt>>

move_file(h, p, n) ==
    LET old == file[h].parent
        out == [file EXCEPT ![old].entries = RemoveFirst(@, h), ![old].cnt = @ - 1]
        in  == [out EXCEPT ![p].entries = <<h>> \o @, ![p].cnt = @ + 1]
    IN  /\ HasParent(h)
        /\ IsDir(p)
        /\ old # p
        /\ n \in MovedLfn(file[h].lfn)
        /\ file' = [in EXCEPT ![h].parent = p, ![h].lfn = n]
        /\ UNCHANGED <<extent, all_files, file_cnt>>

(* vdf_set_file_name() recomputes the short name; vdf_set_file_shortname() *)
(* clears VFF_LONGNAME when the two names are the same.                    *)
set_name(h, n) ==
    /\ HasParent(h)
    /\ n \in LfnExtras
    /\ file' = [file EXCEPT ![h].lfn = n]
    /\ UNCHANGED <<extent, all_files, file_cnt>>

(* The list work of vdf_drive_recreate_ext(): the root directory enters or *)
(* leaves all_files when the drive changes to or from FAT32.               *)
relist_root(old, new) ==
    /\ all_files' = CASE RootListed(old) /\ ~RootListed(new) -> RemoveFirst(all_files, Root)
                      [] ~RootListed(old) /\ RootListed(new) -> Append(all_files, Root)
                      [] OTHER -> all_files
    /\ file_cnt' = CASE RootListed(old) /\ ~RootListed(new) -> file_cnt - 1
                     [] ~RootListed(old) /\ RootListed(new) -> file_cnt + 1
                     [] OTHER -> file_cnt
    /\ UNCHANGED <<file, extent>>

-----------------------------------------------------------------------------
(* dir_recalc(): the directories it visits are those it reaches from the   *)
(* root through the entries lists; a directory that was moved into itself  *)
(* or whose parent was deleted is never visited and keeps its old size.    *)
VisitedDirs ==
    LET SubDirs(d) == {c \in Range(file[d].entries) : IsDir(c)}
        Down(S) == S \cup UNION {SubDirs(d) : d \in S}
        Level[n \in 0..Cardinality(Handles)] ==
            IF n = 0 THEN {Root}
            ELSE Down(Level[n - 1])
    IN  Level[Cardinality(Handles)]

fents_needed(g, h) == IF g.vfat THEN file[h].lfn ELSE 0

(* The directory entries of d: the label in the root directory, '.' and    *)
(* '..' in the others, then each entry with its long-name entries.         *)
FentCnt(g, labelled, d) ==
    LET es == file[d].entries
        Upto[k \in 0..Len(es)] ==
            IF k = 0 THEN IF file[d].parent = NULL THEN (IF labelled THEN 1 ELSE 0) ELSE 2
            ELSE Upto[k - 1] + fents_needed(g, es[k]) + 1
    IN  Upto[Len(es)]

dir_recalc(g, labelled, bpc, direntsize) ==
    LET visited == VisitedDirs
        Sized(h) == LET s == FentCnt(g, labelled, h) * direntsize
                    IN  [extent[h] EXCEPT !.size = s, !.clusters = (s + bpc - 1) \div bpc]
    IN  [h \in DOMAIN extent |-> IF h \in visited THEN Sized(h) ELSE extent[h]]

-----------------------------------------------------------------------------
(* The three structures tell the same story, whatever was created, moved,  *)
(* deleted or re-created before: all_files lists every allocated file once *)
(* (and the root directory exactly when it occupies data clusters), and a  *)
(* file is an entry of its parent, once, and of no other directory, unless *)
(* the parent has been freed.  dir_recalc() walks the first structure and  *)
(* vdf_drive_recalc() the second: a file on one and not on the other is a  *)
(* directory entry without data, or data that is freed memory.             *)
ListMatchesTree(g) ==
    /\ IsInjective(all_files)
    /\ Range(all_files) = IF RootListed(g) THEN DOMAIN file ELSE DOMAIN file \ {Root}
    /\ \A d \in DOMAIN file :
         /\ IsInjective(file[d].entries)
         /\ Range(file[d].entries) = {h \in DOMAIN file : file[h].parent = d}
=============================================================================
