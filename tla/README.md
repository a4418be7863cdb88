# VDF: a TLA+ model of the virtual FAT drive library

VDF presents a tree of files (on disk, or produced by callbacks) as the image of
a FAT12, FAT16 or FAT32 drive. No image exists anywhere: `vdf_drive_recalc()`
works out where every file would lie, and each read of the image is generated
from that layout. Transports serve the image to NBD peers. This directory holds
TLA+ modules that model the library and its streaming examples, TLC
configurations that check them, and TLAPS proofs about the drive and its tree of
files, the transports, the NBD server, an NBD connection, reads of the image and the
ring buffer of the examples.

## 1. The system

| Component | State | Operations | Works with |
|---|---|---|---|
| Drive (`drive.c`) | geometry, label, serial, `lockcnt`, `VDF_DIRTY`, `ranges`, `data_end`, `data_cluster_end`, two file counters | create, recreate, free, lock, unlock, recalc, label, serial | file tree; read by everything below |
| Geometry (`createdrive_ext()`) | sizes and starts of the regions | choose FAT type, cluster size, FAT size | fills the drive; the boot sector tells the host about it |
| File tree (`file.c`) | `vdf_file` structs; `dir.entries` of each directory, the flat list `all_files`, `dir.cnt`, `file_cnt` | add, delete, move, rename, resize, metadata, up/down | refuses while the drive is locked, marks it dirty |
| Names (`file.c`) | long and short name of a file | `calc_shortname()`, searches | decides how many directory entries a file takes |
| Image reader (`read.c`, `read_data.c`) | none (a walk with local variables) | `vdf_read_bytes()`, `vdf_read_sectors()` | FAT and directory windows, files, callbacks |
| FAT windows (`fat.c`), directory windows (`read_dir.c`), boot sectors (`bootblock.c`) | none | one window of a table each | ranges and files of a clean drive |
| Transports (`transport.c`) | list of transports, `VTF_RUNNING`, `VTF_ERROR`, `VTF_ACTIVE` | open, close, start, stop, process; walks over all of them | lock and unlock the drive, call the driver |
| NBD client (`nbd_client.c`) | socket, buffer | start, stop, process | reads the image, calls the application back |
| NBD server (`nbd_server.c`) | listening socket, list and number of clients, one thread per client | accept, serve, stop | reads the image from several threads |
| Sockets (`vdf_sock.c`) | none | read, write in full | used by both drivers |
| Dump (`dump.c`) | none | write the image or its description | lock, read, unlock |
| Examples | a ring buffer between two threads | stream audio into a virtual file | applications of the library |

How they interact: the application changes the tree; every change needs the
drive unlocked and sets `VDF_DIRTY`. The first lock recalculates the layout.
Whoever holds a lock (a transport that runs, a dump, the application) reads the
image without asking whether the drive is dirty. The library has no locks of its
own against threads: except for the NBD server it runs in the application's
thread, and an API call is atomic.

What is hard: a layout that must agree with a tree after any sequence of calls,
failures included; nested locks that must all be given back on every path; a
recalculation that fails half-way; windows of tables that are generated from the
middle; array scans that are bounded by the wrong counter; unsigned sizes near
their limits; the threads of the NBD server, which share a list, a count and the
transport's flags without a lock; connections that break inside a request; the
two threads of the examples on one ring buffer. `PROJECT.json` lists these
hazards with the line where each bites.

What makes each component correct:

* drive: under the lock there is a layout and it does not change; a clean drive's
  layout is the one its files call for;
* geometry: the regions tile the drive, the FATs are large enough, and a host
  reads the same geometry from the boot sector;
* tree: the lists, the parents and the counters tell the same story;
* layout: the files fill the data area without gap or overlap and every lookup
  finds the owner;
* reader: whatever is asked for, the bytes are those of one image, within the
  buffer, and the call returns;
* transports: each lock has one reason; what runs has a connection and a layout;
  freeing the drive leaves nothing running;
* NBD server: what is served is served under a lock, a stop returns, and threads
  that do not overlap leave the list, the count and the flags right;
* a connection: right answers, in order, none twice; a peer that waits is
  answered; a connection that was closed is ended;
* ring buffer: bytes stay in order; without data the file goes on with silence, and
  without room the stream goes on.

## 2. The modules

| Module | Models | Uses |
|---|---|---|
| `Layout` | arithmetic of positions, the ranges, the three scans over them | |
| `FileTree` | `file.c`: lists, counters, directory sizes | `Layout` |
| `DriveLock` | abstract: what a drive promises to a lock holder | |
| `Drive` | `drive.c` and the API of `file.c`, one action per call | `FileTree`; implements `DriveLock` |
| `ListLemmas` | facts about lists and sequences that the proofs share | |
| `DriveProofs` | theorems about `Drive`: the lock, the tree, the dirty flag, the layout | `Drive`, `ListLemmas` |
| `Word32`, `Geometry` | `createdrive_ext()` in 32-bit words, the geometry in the boot sector | |
| `GeometryProofs` | theorems about `Geometry` | `Geometry` |
| `Transport` | `transport.c` with the life of an `nbd_client.c` connection | `DriveLock` |
| `TransportProofs` | theorems about `Transport` | `Transport`, `ListLemmas` |
| `NbdServer` | `nbd_server.c` and its threads under one transport | `DriveLock` |
| `NbdServerProofs` | theorems about `NbdServer` | `NbdServer`, `ListLemmas` |
| `NbdService` | abstract: what a peer sees of a connection | |
| `NbdSession` | the request loops of both drivers over `vdf_sock.c` | implements `NbdService` |
| `NbdSessionProofs` | theorems about `NbdSession` | `NbdSession`, `ListLemmas` |
| `FatTable` | windows of a FAT16/FAT32 table and of a directory | `Layout` |
| `Read` | `read.c`, `read_data.c`, which sector `bootblock.c` fills | `FatTable` |
| `ReadProofs` | theorems about `Read`: counters and buffer, what is read | `Read`, `ListLemmas` |
| `Fat12` | the FAT12 loop of `read_sector_fat()` | `Layout` |
| `StreamBuffer` | the ring buffer of `vdf_stream.c` and `vdf_stream2.c` | |
| `StreamBufferProofs` | theorems about `StreamBuffer` | `StreamBuffer` |
| `MC...` | instances for TLC | |

### Layout, FileTree, Drive

A `vdf_file` is a handle: `file[h]` has its parent, kind and entries, `extent[h]`
its size, clusters and position. Both are defined on allocated handles only; a
handle that was deleted may be given out again, as `malloc()` does. A parent
pointer into freed memory is `FREED`. The lists of `list.h` are sequences.

A name is the number of extra directory entries it takes (`LfnExtras`): that is
all the layout depends on. A geometry is one of the records in `Geoms`.

Calls that the code refuses change nothing; their tests are the guards.
`create_file_fails`, `SetLabelFails` and `DumpDriveFails` are the paths on which
an allocation fails after something has been changed. A failing recalculation is
part of `vdf_drive_recalc`: it leaves some files moved, the ends of the data area
advanced, the ranges as they were and the drive dirty.

`vdf_delete_file()` of a directory does not delete what is in it:
`delete_file()` sets `VFF_DELETED` before it asks `vdf_file_is_dir()`, which says
no for a deleted file. The files below stay on `all_files` as orphans, keep their
clusters and are found by nobody; the model does the same. An application that
still has a pointer to an orphan and deletes, moves or renames it makes the code go
through the freed memory of its parent (`file.c:358`, `386`). What that does is
undefined, and the model has no such call (`HasParent`).

A size is a `filesz_t` of 32 bits (`SizeMod`): rounding it up to clusters may wrap, and
such a file has a size and no clusters.

`CleanIsCurrent` has one exception, which it names: after a failed `strdup()` the
layout of a clean drive is the one with the label that was lost (`drive.c:518`).

`Written` is the second loop of the recalculation and `Sorted` its `qsort()`:
ranges that begin at the same sector stay in the order in which they were
written, as in a merge sort. `cmp_filerange()` returns an unsigned difference as
an `int`; the model compares the sectors themselves, so it stands for drives
whose ranges begin less than 2^31 sectors apart.

Bounds: `MaxLock`, `MaxCnt` (on `dir.cnt`, which deletions do not lower) and
`MaxFileCnt` (on `file_cnt`, which failed creations do not lower) cap counters
that would grow without end.

### Word32 and Geometry

TLC's integers have 32 bits with a sign, so `Word32` keeps a `sectcnt_t` as the
pair of its halves and defines the unsigned operations on pairs; they are what C
does, and the differences and products of `createdrive_ext()` wrap as they do.
`Geometry` has a drive, or none, and the calls that create and recreate one:
`LayoutOf` computes the regions, `Refused` the tests that end in `EINVAL`,
`Installed` the assignments. `BootSector` is the part of `read_sector_boot()`
that describes the geometry, each field in its width, and `HostView` what a host
derives from it: where the data area starts, how many clusters it has and, from
their number, which FAT type it is. The count of root entries is an `int` that is
multiplied by 32 (`drive.c:240`), so `MaxRootCount` is below 2^26; beyond it the
product overflows, which C does not define. `FsFlags` are the five values that
`vdf.h` names: another one is refused with `EINVAL` when the cluster size is to be
chosen too (`drive.c:182`), but with an explicit cluster size the code has no default
for it (`drive.c:211`) and installs sizes that nobody has computed.

### DriveLock and Transport

`DriveLock` has two variables: the lock count and `view`, the set of layouts a
reader may rely on, empty while the drive is dirty. `Drive` implements it with

    view == IF dirty THEN {} ELSE {<<geom, file, extent, all_files, ranges, ...>>}

`Transport` and `NbdServer` extend `DriveLock` in place of the whole drive. In
`Transport` a call on one transport is an action; `vdf_drive_start()`,
`vdf_drive_stop()` and `vdf_drive_free()` are a step per transport. A connection
is the flags of the transport with the socket and the buffer of the NBD client
(`"freed"` when a pointer to freed memory is left in `dat->buff`). What the
network does is a choice. `userlocks` and `leaked` are history variables: locks
that the application took, and locks that a failed start did not give back
(`transport.c:181`).

### NbdServer

One transport with the server driver. The application's thread is at `at` inside
a call; each client's thread is at `thread[c]`. Changes of `num_clients` and of
`VTF_ACTIVE` are a step that reads and a step that writes, because nothing makes them
atomic; a thread writes back the whole word of flags as it has read it. The
application's changes of `VTF_RUNNING` and `VTF_ERROR` (`Start`, `Undo`,
`AcceptNoMemory`, `ClearFlags`) are one step: split in two they could undo what a
thread does to `VTF_ACTIVE` in between, and no property outside
`CallsAloneAreSafe`, which is about calls without such an overlap, looks at that flag.
Following a pointer into freed memory, or changing the
list inside another thread's change of it, sets `bad`, and the model ends there:
what happens next is undefined.

The code does race. So the module says what holds in spite of that
(`ServedUnderLock`, `StopReturns`) and what holds as long as it does not:
`overlap` is a history variable that becomes `TRUE` when two threads free their
clients at once, or one does so while the application is inside a call and not
waiting for it, and `CallsAloneAreSafe` is about the behaviours without that.

`Posix` chooses the build: the test of the result of creating a thread differs.

### NbdService and NbdSession

`NbdService` is what a peer may rely on: answers are right, in the order of the
requests, none is sent twice, and a peer that waits for each answer before it
asks again misses none. `NbdSession` has the two request loops (the thread of the
server, and `nbdcli_process()`, blocking or not) over `sock_read()`, which gets
any number of bytes at a time, does not report the end of the connection, and
asks for the whole count after each short read. `net` is what the peer has sent and
the driver has not read; how much of it has arrived is left open, so a `recv()` of a
non-blocking driver may find nothing in the middle of a request. `broken` becomes `TRUE` when the
latter has written behind the structure, which takes a peer that sends ahead.

The drivers test `off + len > drv->bytes` in 64 bits (`nbd_server.c:249`,
`nbd_client.c:256`), and `off` comes from the peer. `InRange` is the sum as a number,
`Passes` the sum modulo `OffMod`; a read that passes and is not in range is `Wrapped`. The
driver answers it with a reply header, and then reads behind the drive
(`ReadBeyond`): `vdf_read_sectors()` takes the negative number of sectors up to the end
of the drive for a count and writes that many zeros to the driver's buffer
(`read.c:153`), so the connection is `broken`. `SessionAssumption` says that the size of
the drive plus the length of a request, which has 32 bits, is below 2^64, so only an
offset can make the sum wrap.

`strayed` is `TRUE` of a peer that sends ahead or has asked for a wrapped read: that is
what the promises of `NbdService` leave out. The refinement is `INSTANCE NbdService WITH gone <- peer # "open"`; all
other variables keep their names. It holds although a driver that meets the end
of the connection executes the last request again: its answer reaches nobody.

### FatTable, Read, Fat12

The content of the image is a sequence of units: a FAT entry, a directory entry
or a byte of a file is one unit, and a sector is `bps` of them. The names of
units say what they are (`<<"link", 7>>`, `<<"lfn", h, 2>>`, `<<"data", h, 5>>`),
so a byte that comes from the wrong place is a wrong unit. `Garbage` is what the
code makes of memory behind the array of ranges.

`Read` begins with a request on one of `Drives` and walks as the code does: one
action per region, per FAT entry, per file, with the buffer, the sector number,
what remains and the count as variables. `Drives` are clean drives for which
`DrivesAssumption` holds: that the ranges tile the data area is what
`CleanDriveIsTiled` shows of `Drive`, and the drives of `MCRead` are built with the
operators of `Layout`. They have no label and, but in the run `read_empty_file`, no empty
file. A boot sector or MBR is one unit per byte that `bootblock.c` writes; in sectors of
more than 512 bytes it leaves the rest of the buffer as it is, which is not modelled.

`FilesFit` says that every file has clusters and that they hold it. `Drive` does not
establish that. A recreation with smaller clusters keeps each file's number of clusters
(`drive.c:358`); there `read_sector_data()` cuts what it asks of a file to the sectors
of the request and not to those of the file (`read_data.c:119`), and writes behind its
caller's buffer. A size within a cluster of 2^32 has no clusters (`file.c:733`), and
`fat_next_file()` steps into the empty range and writes an end mark. `ReadIsImage` and
`BufferInStep` are about the drives with `FilesFit`; two of the drives of `MCRead`
(`Recreated`) are without it, and there both fail if the condition is dropped.

`Fat12` is the same loop for twelve-bit entries, nibble by nibble, with `Junk`
for nibbles that nobody has written.

### StreamBuffer

Both examples in one module (`variant`). The bytes of the stream are numbered
modulo `Period`; `++bend` and the reset to zero are two steps, and so are those of
`bstart`, as the compiler is free to store them. A command of `vdf_stream2.c` is a step
per assignment to what the threads share; a stop stores the two indices one after the
other, and a thread that is in the middle of `++bstart` or `++bend` undoes that
(`EmptyStart`, `EmptyEnd`). `lost` and `glitch` are history: bytes were given up on
purpose (a full buffer overwritten after two seconds, a stop), or a thread has misread
the buffer between the two stores of the other. `RingInOrder` says what holds
otherwise.

## 3. The runs

The longest run, `drive_lock`, takes about two minutes on two workers.

| Run | Question | Bounds |
|---|---|---|
| `drive` | After any sequence of calls, do the lists, the tree and `VDF_DIRTY` agree, is the layout without gaps, and do both lookups agree, also when the drive changes between FAT16 and FAT32? | two handles besides the root; sizes 0, 3, 5 and one that wraps to no clusters; a FAT16 geometry with seven data sectors and a FAT32 geometry with five |
| `drive_lock` | Does the drive keep its promise to lock holders, and is its dirty flag right, when allocations fail, locks nest and the drive may be freed? | two handles, two nested locks, names with 0 or 1 extra entries, a label, two serials |
| `geometry` | Do the regions tile the drive, are the FATs large enough and aligned, does a host agree, and can the result be asked for again? | sizes around every limit of the code, up to 2 TiB; all file system flags; three sector sizes, five cluster sizes, valid and not |
| `transport` | Do the locks add up, has every running transport a layout and a connection, does freeing stop them all? | three transports, up to four locks, two layouts |
| `nbd_server` | Is what is served under a lock, does a stop return, and are calls that do not overlap safe? | two clients, two locks, a drift of the count of one |
| `nbd_session` | Does a connection implement `NbdService`, is a waiting peer answered, does a closed connection end? | three requests out of eleven, one of which wraps; requests of a few bytes that arrive in any pieces; a buffer of half the drive |
| `read` | Is every read a piece of one image, within the buffer, and does it return? | 20 drives, two of them recreated with smaller clusters; every offset, 12 lengths up to the whole drive and beyond its end |
| `fat12_links` | Where chains end inside a window from the start of the table, are the FAT12 links right? | up to three chains of up to six clusters, windows of one to four sectors |
| `stream` | Do the bytes stay in order, does a read wait for nothing but data, does the stream of `vdf_stream2.c` go on? | four sectors of two bytes; pieces of one and three bytes; reads of one and two sectors |

Two handles besides the root are enough for every shape that the code treats
differently: a file in a directory, a directory in a directory, a directory
moved into its own child, an orphan, two files in the order of the list and in
the other. The drives are so small that one file fits, two fit, or the second
does not, at each of the two tests of `file_recalc_offsize()`. In `read`, sizes
and names end inside, at and behind the end of a sector and of a cluster, and one
file on disk is shorter than it was. Two clients meet in every pair of steps, and
the application is the third party. A buffer of four sectors is empty, full,
wrapped and one short of each. `MaxDrift` bounds `num_clients`, which lost updates
move both ways; one is enough to have `VTF_ACTIVE` cleared while a client is
served, and left set when none is.

`SYMMETRY Interchangeable` permutes the handles other than the root, which no
definition names. It is used in runs with invariants and action properties only.
`VIEW Observable` leaves out of a dirty state what the next recalculation
overwrites before anything reads it (`MCDrive`), and the bytes of a stream that are
no longer numbered (`MCStreamBuffer`); the modules say why that is sound.

Deadlock is checked, except where the system may stop: a freed drive or transport
(`drive_lock`, `transport`, `nbd_server`), a connection that is over
(`nbd_session`).

Fairness:

* `Read`: weak fairness of its one process, whose functions are loops without
  waits. `Transport`: weak fairness of the three walks for the same reason. None is
  assumed of the application or the network.
* `NbdServer`: a call that has begun goes on, a thread outside `recv()` goes on, and
  a `recv()` on a socket that `closesocket()` has closed returns. Nothing says when a
  peer hangs up or when the application calls.
* `NbdSession`: the driver takes steps (a thread of its own, or an application that
  calls `vdf_transport_process()` in a loop), and the peer's system answers data
  for a closed connection with a reset. The peer may stop asking any time.
* `StreamBuffer`: each thread goes on where it can (weak fairness of the writer, of
  the loop around libcurl and of a read that has begun). Nothing says that data arrives:
  a server may stall for ever. The host and the user do as they like.

### Runs that end in a violation

Each shows that the code does not do what a comment or the README says of it.

| Run | What the run shows |
|---|---|
| `read_empty_file` | With one empty file on the drive, a read of the FAT looks at the range behind the last. This is why the drives of `read` have no empty file. |
| `fat12_table` | Windows of a FAT12 table that begin in a later sector, or contain an end mark before a link, or end inside an entry, are not parts of the table. |
| `nbd_server_posix` | In the POSIX build `nbdserv_process()` takes the 0 of a successful `pthread_create()` for a failure: it closes the socket and frees the client while the new thread serves it. |

### Other differences met while reading

Without a run of their own. Most are modelled as they are; where a property would break,
it names the exception. The ones that the model leaves out say so here.

* Drive and files. `vdf_delete_file()` does not lower the parent's `dir.cnt`
  (`file.c:358`), so the test for a full root directory (`file.c:151`) refuses too
  early. An empty FAT32 root directory is written behind an array of ranges that
  was allocated for `nonempty_file_cnt` (`drive.c:665`). A recreation with smaller
  clusters keeps the clusters of every file, so a file is larger than its clusters
  (`drive.c:358`), and a read of it writes behind its buffer (`FilesFit`). `create_file()` leaves `file_cnt` one too high on its error path
  (`file.c:202`). A size within a cluster of 2^32 wraps to no clusters
  (`file.c:733`). `cmp_filerange()` returns an unsigned difference as an `int`
  (`drive.c:635`). The serial number may be changed under the lock
  (`drive.c:562`), which is why `FrozenWhileLocked` leaves it out.
  `vdf_set_file_attr()` keeps the wrong half of its mask (`file.c:816`), so it
  changes `VFA_DIR` ("cannot be changed", `vdf.h:122`) and no user attribute. This is
  neither modelled nor an exception of a property: `SetFileMeta` stands for masks without
  `VFA_DIR`. Deleting, moving or renaming an orphan is left out as well (section 2).
  `vdf_dump_drive()` keeps its lock when `malloc()` fails (`dump.c:127`); the model does
  so too, and no property says that it must not.
  `vdf_file_up()` and `vdf_file_down()` link a list element to itself (not modelled).
* Reading. The label's entry is counted in `fent_start` and not written
  (`read_dir.c:264`): the windows of a labelled root directory do not fit
  together. This is why the drives of `read` have no label. `read_sector_boot()` and
  `read_sector_mbr()` write 512 bytes of a longer sector (not modelled).
* Geometry. A FAT32 drive with fewer sectors than it needs clusters, and clusters
  of 16 sectors or more, wraps and is accepted, `VDF_FAIL_WARN` or not (`TooSmall`).
  An unknown file system flag
  with an explicit cluster size installs uninitialised sizes (`drive.c:211`, not modelled).
  `VDF_FAT_AUTO` finds no file system for 32737 to 32767 sectors. The FAT is sized
  without its two reserved entries, which shows only where a FAT is shorter than a
  cluster (`FatCoversData`). `VDF_FAT_AUTO_NO32` chooses clusters of 256 and 512
  sectors from 4 GiB on, which do not fit the byte of the boot sector and are
  refused a second time. `VDF_ALIGN_CLUSTER` pads the root directory without
  raising its entry count, so a host looks for the data area elsewhere; a FAT12 drive
  of 65536 sectors or more has no sector count (`Expressible`). The two bytes of
  the boot signature are swapped.
* NBD server. A thread that clears `VTF_ACTIVE` can undo a change of
  `VTF_RUNNING`; a close may then free a transport that serves, or a stop give back
  a lock that is not its own. `num_clients` drifts. A failed `malloc()` leaves the
  accepted socket open, and a client's buffer is never freed.
* NBD connections. A peer that sends ahead can make `sock_read()` write behind the
  structure (`vdf_sock.c:67`; `sock_write()` counts the same way). A write with
  data, or a closed connection whose last request has no answer, is served for
  ever (`Unanswerable`). A non-blocking client drops the part of a request it has.
  A read beyond the drive and an unknown command get no answer; but a read whose end
  wraps at 2^64 gets a reply, and zeros up to the size of the drive are written to the
  driver's buffer (`Wrapped`, `ReadBeyond`; the number of the first sector is cut to 32 bits
  and lies behind every drive of less than 2^32 - 2^23 sectors, which is assumed).
* Streams. `vdf_stream.c` says at lines 20 and 92 that it feeds in silence when data
  underflows; its reader waits for data instead (line 85), for ever when the stream stalls,
  and `ReadReturns` names that wait as its exception. It says at lines 21 and 119 that
  overflowing data is overwritten; its writer waits for room instead (line 121), so
  `StreamGoesOn` is about `vdf_stream2.c` only. In both, a reader that comes between
  `++bend` and `bend = 0` takes an empty buffer for one with data and delivers an old
  sector, and a writer may take a full buffer for one with room while the reader wraps
  (`glitch`).
  `vdf_stream2.c` prints "Retrying" after a failed transfer and does not retry;
  stopping keeps `writeoff`.
* Transports. Each failed start keeps a lock (`transport.c:181`).

## 4. What is proved

Every theorem is for all values of the constants that satisfy the named
assumptions. Each inductive invariant was model-checked before it was proved.

### The drive (`DriveProofs`)

From `HandlesAssumption` (the root is a handle, `NULL` and `FREED` are not),
`DriveAssumption` and `SizesAssumption` (sizes are numbers, a sector has bytes, a
cluster has sectors, and a name may need no extra entry, as the root's does), for every set of handles, names, geometries and sizes:

* `LockedDriveIsClean`: `Spec => []LockedIsClean`. The inductive invariant is
  `LockInv`: the two flags are Booleans, a clean drive has its ranges, and a
  locked drive is clean. `LockedIsClean` alone is not inductive, because the lock
  of a clean drive recalculates nothing: its ranges must be there already.
* `LockedDriveIsFrozen`: `Spec => FrozenWhileLocked`, by showing of each action
  that it needs `lockcnt = 0` or leaves the tree, the layout, the geometry and
  the label alone (`LockedStep`).
* `DriveImplementsDriveLock`: `Spec => ImplementsDriveLock`, by showing that the
  initial state maps to one of `DriveLock` and that each step is a `Change`, a
  `Publish`, a `Lock`, an `Unlock` or a stutter (`StepImplements`).
* `DriveTreeConsistent`: `Spec => []TreeConsistent`. The inductive invariant is
  `TreeInv`. It adds the types of the lists and that a parent is an allocated
  file, `NULL` or `FREED`: without that, a directory that is given the address of
  a deleted one would inherit its files. What each operation does to a list comes
  from `ListLemmas` (a list without duplicates stays one under `list_add()`,
  `list_add_tail()` and `list_del()`, and its members change by one).
* `CleanDriveIsCurrent`: `Spec => []CleanIsCurrent`. The inductive invariant is
  `CurrentInv`, which adds `TreeInv` and that every file has an extent. That each call
  which changes an input of the layout sets the flag is one half of the proof. The
  other half is that a recalculation is idempotent (`SameLayout`): `dir_recalc()`
  reads no extent, so it writes the same sizes again, and `file_recalc_offsize()`
  reads sizes and clusters only, so each turn of the loop finds the position it is
  about to write. The second needs that the loop comes to a file once, which is
  `ListMatches` of `TreeInv`: a file placed twice would be found at its second
  place, and the drive's counters would still count both. The loop is the recursive
  function of `PlacedWith`; what holds after each turn is shown by induction over a
  set of numbers (`PlacesAre`, `PlacedAgain`).
* `CleanDriveIsTiled`: `Spec => []TilesDataArea`. The layout of a clean drive is the
  result of the two loops, by `CleanIsCurrent`. After each turn of the second loop
  the ranges written so far tile the data area up to the counters of the first loop
  (`Tile`), and they belong to the files passed so far, one each (`Owned`); the two
  loops walk the same list, so the induction runs over both at once
  (`LayoutTiles`). Ranges that are in order are left alone by the sort
  (`SortedSame`). The invariant is `CurrentInv` with `NumInv`: every extent holds
  numbers.
* `CleanDriveIsFound`: `Spec => []LookupSound`. It follows from the tiling and from
  `CountInv`: `file_cnt` is never below the length of `all_files`, through every
  failed creation, so a search that is bounded by it sees every range; and the
  first range that ends beyond a sector is the first that ends beyond the cluster of
  that sector (`SectorInCluster`).
* `DriveTypeOK`: `Spec => []TypeOK`. The unsigned counters are the point. An entry
  that is moved lowers `dir.cnt` and a deleted one does not; `DirCntInv` says that
  `dir.cnt` is never below the number of entries, so that `vdf_move_file()` cannot
  bring it below zero (`MoveCounts`). `FieldsInv` has the rest. Its hard part is the
  array of ranges: the second loop writes at least `nonempty_file_cnt` of them
  (`WrittenType`, by an induction over both loops, whether or not every file
  fitted), and the sort gives each a place of its own (`PlacesDiffer`), so what it
  returns is ranges.

### Geometry (`GeometryProofs`)

From `GeometryAssumption`, for drives of any size and every request: `GeometryTypes`,
`RegionsTileDrive`, `FatCovers`, `AlignmentHolds`, `HostFindsDrive` and
`SameDriveAgain`, the six properties that the run `geometry` checks around the
limits. The assumption says that sizes are pairs, that counts are numbers, that the
root directory's count is within `MaxRootCount`, and that `AUTO` and `EINVAL` are
none of the values they stand beside.

The words are first turned into the numbers they stand for (`Val`): what each
operation of `Word32` does to them is a lemma (`PlusVal`, `MinusVal`, `TimesVal`,
`OverVal`, `CeilOverVal`, ...), with the wrap at 2^32 in its statement. Everything
after that is about numbers. `LayoutNumbers` gives those of one computation: the
first guess of the clusters, the bytes and sectors of a FAT for it, where the data
area starts, the clusters behind. The step that carries the rest is
`DataStartsOnDrive`: if the number of clusters passes the tests, the data area starts
on the drive, so that no difference has wrapped. On FAT12 and FAT16 a wrap gives more
clusters than the tests let through; on FAT32 it does not, and the lemma needs that
the drive has as many sectors as FAT32 needs clusters (`TooSmall` is the other case).
From there `Accepted` bounds the guess below 2^30, so that the bytes of a FAT do not
wrap either, and compares it with the final number: a FAT that takes a cluster or
more has cost at least two clusters, which pays for the two reserved entries.

The inductive invariant is `GeometryInv`: a drive is `Installed(b)` for a `b` of `Base`
(what `createdrive_ext()` had decided before it computed the layout) which the tests
accepted. None of the six is inductive, because `vdf_drive_recreate_extsame()` takes
the sizes of sector, cluster and root directory from the fields of the drive.

### Transports (`TransportProofs`)

From `TransportAssumption`, for every finite set of transports, every set of
layouts and every bound on the locks: `TransportTypeOK`, `EveryLockHasAReason`
(`LockAccounting`), `RunningTransportSeesLayout`, `ConnectionsMatchFlags` and
`ServedLayoutNeverChanges` (an action property). One inductive invariant carries
them all, `TransInv`: `Serving` relates the lock count, the flags and the view,
`Walking` says how far the call under way has come. The properties need each
other: that a stop finds a lock to give back follows from the accounting, that a
second lock finds a layout from the first. That `vdf_drive_start()` stays within
the locks `TypeOK` allows needs that it comes to each transport once, so that the
list has at most as many elements as there are transports (`DistinctIsShort`).

### NBD server (`NbdServerProofs`)

From `ServerAssumption`, for every set of clients and every bound:

* `ServerTypeOK`, in both builds, from `TypeInv`.
* `ServedOnlyUnderLock` (`ServedUnderLock`), for `~Posix`, from `ServeInv`: who is
  served is on the list or about to be put on it (`ListInv`), and once a stop has
  begun its walk, who is served is where the walk is or ahead of it (`WalkInv`).
  That is what makes it wait for every client before it gives the lock back,
  although clients take themselves off the list behind its back.
* `ServerCallsAloneAreSafe` (`CallsAloneAreSafe`), for `~Posix`, from `AloneInv`.
  Its four parts follow each read of `num_clients` and of the flags to the write
  that belongs to it, and each client's memory through the life of its thread.

`~Posix` is the Windows build. For the other one both statements are false; the
run `nbd_server_posix` shows why.

### NBD connection (`NbdSessionProofs`)

From `SessionAssumption`, for any requests and any number of them, every size of
the drive and of the buffer that leaves room for the length of a request below 2^64, and
every way the bytes arrive and the peer leaves:
`SessionTypeOK` and `SessionImplementsService` (`ImplementsService`). The second maps
each `PeerAsks` to an `Ask`, `PeerLeaves` to a `Leave`, what is sent to a peer that
is there to a `Deliver`, a `recv()` that overruns and a `ReadBeyond` to a `Break`, and all other steps to
stutters. The inductive invariant has three parts:

* `TypeInv`: the halves in the structure are from requests that were sent, or from
  none, and the counts stay within the structure.
* `ServeInv`, as long as peer and driver are there: what is left to read (`Stream`, the
  part that `sock_read()` holds and what is behind it) is a sequence of requests in
  order, each with both halves side by side; what was sent and what is about to be
  sent of the current answer are the answers to a set of requests that all come
  before what is left to read. So the structure that `sock_read()` fills holds two
  halves of one request although each part may come alone, and an answer is
  neither repeated nor overtaken.
* `WaitInv`, for a peer that has not strayed: at most one request is under way, none has
  data or wraps, and nothing is broken. It needs `ServeInv`: that a peer which has all its answers
  has nothing under way (`QuietPeer`) is a matter of comparing lengths of answers.

`FlattenSeq()` of the community modules is a fold. What it makes of a sequence that
grows (`FlattenSame`, `FlattenOneMore`) is proved in `ListLemmas` by induction over
a set of numbers (`SetInduction`), which needs no operator parameter.

### Reading the image (`ReadProofs`)

From `DrivesAssumption`, for every set of drives and requests of any length that
begin in the image: `ReadTypeOK` (`Spec => [](FilesFit(drv) => TypeOK)`) and
`ReadBufferInStep` (`Spec => []BufferInStep`). The
assumption is what a clean drive has: the order of the regions (`Shaped`), ranges
that tile the data area (`Tiled`, which is proved of `Drive` as `CleanDriveIsTiled`), one
range for each file of the list that is not empty (`Ranged`), and the entries of each
directory numbered one behind the other (`Numbered`). It allows empty files, files that
deliver less than their size, and files larger than their clusters. That a file fits its
clusters is no part of the assumption, because `Drive` does not establish it: it is a
condition (`FilesFit`) of `ReadTypeOK`, `BufferInStep` and `ReadIsImage`, without which
the last two are false.
The inductive invariant `StepInv` has a conjunct for each counter of the code:

* `Called` and `Asked`: what the three reads of `vdf_read_bytes()` have returned so
  far and what is left to ask for; the last sector is cut to what remains.
* `Counted`: `sector`, `cnt` and `rem` of `vdf_read_sectors()` count the same
  sectors. That they count behind the MBR in one place and from it in another
  (`Dev`) is why `TypeOK` alone is not inductive.
* `InStep`: the buffer holds `Written` sectors, less the entries a FAT window has
  still to write.
* `InRegion`: a region is entered at its start or behind it.

That every window has the length it was asked for is a lemma for each region. The
one of a directory, `DirWindow`, says more: `read_sector_dir()` returns the piece
of the list of entries that begins at the sector, zeros behind its end, wherever
the window cuts a long name. The induction over the entries goes along `Behind`,
the position that `dir_recalc()` has given each.

### What is read (`ReadProofs`)

`ReadGivesTheImage`: `Spec => [](AllHaveRanges(drv) => ReadIsImage)`, from the same
assumption and with `FilesFit` in `ReadIsImage`. `AllHaveRanges` says that `file_cnt` is the number of ranges, which is
so when no file of the list is empty. It is needed: `fat_next_file()` compares with
`file_cnt`, and with an empty file in the list a FAT window that goes beyond the
last chain reads behind the array (run `read_empty_file`). The inductive
invariant `ImageInv` adds to `StepInv`:

* `OutIs`: the buffer of `vdf_read_sectors()` holds the image from its first sector
  on. There is a lemma for each kind of window (`MbrWindow`, `BootWindow`,
  `HeadWindow`, `RootWindow`, `FileWindow`, `EmptyWindow`) that it is a piece of the
  image (`IsWindow`), and one that windows can be put together (`WindowBehind`). That
  the file which the search finds is the one the image has there
  (`OneSectorOwner`) follows from the order of the ranges.
* `ChainIs`: the loop of `read_sector_fat()` is at a cluster of the FAT and follows
  the chain of the file that has it (`Follows`). The loop carries no more than an
  entry, a cluster and a file; that this is enough to write what the image has
  (`FollowTurn`) is the reason why a window may begin in the middle of a chain.
* `ResultIs`: what `vdf_read_bytes()` has returned is the image from the first byte
  asked for, and the next sector is the one behind it, unless nothing is left.

### Ring buffer (`StreamBufferProofs`)

From `StreamAssumption`, for every number and size of sectors: `StreamTypeOK` and
`StreamRingInOrder` (`RingInOrder`). `PlaceInv` says where two threads may leave the
indices between the two stores that move one; `OrderInv` gives the number of every
byte in the buffer, the one half-way included. The arithmetic of
indices that run around the buffer is a handful of lemmas about `%`.

### What is model-checked only

* Liveness (`ReadReturns` of `Read` and of `StreamBuffer`, `FreeStopsAll`,
  `StopReturns`, `AnswersArrive`, `SessionEnds`, `StreamGoesOn`), which is out of the
  provers' reach.
* `Fat12`: its `TypeOK` and `Fat12LinksRight`.

## 5. What is not modelled

* Names: validity, short names and their uniqueness, the EEXIST searches. They are
  work on characters.
* The pointers of `list.h`, except where threads of the server meet on a list;
  `vdf_file_up()` and `vdf_file_down()`, after which the traversals do not end.
* Callbacks that call the library again; `vdf_set_transport_non_block()` of a
  transport that runs.
* The bytes of a boot sector other than its geometry, the bytes inside a directory
  entry, the text of dumps.
* Code under `ENABLE_CLUSTER_LIST`, which is not compiled.
* A failing `malloc()` of the ranges, after which the code writes through `NULL`.
* `create_drive.c`, the patch for `nbd-server`, the build files.

## 6. Plan

1. Done: all modules of section 2 and the theorems of section 4.
2. Theorems next: those of `Fat12`.
3. Later: `ListHead`, `list.h` with pointers as a refinement of sequences, and
   `Names`, short names within a directory.
