----------------------------- MODULE DriveLock ------------------------------
(***************************************************************************)
(* What a drive promises to whoever holds its lock, with everything else   *)
(* left out: while the lock is held there is a layout and it does not      *)
(* change.  view is the set of layouts that a reader may rely on: empty    *)
(* while the drive is dirty, a single layout otherwise.  Drive is shown to *)
(* implement this specification; Transport is written on top of it.        *)
(***************************************************************************)
EXTENDS Naturals

VARIABLES lockcnt, view

lockvars == <<lockcnt, view>>

LockInit ==
    /\ lockcnt = 0
    /\ view = {}

(* Any call that changes the drive: only without the lock, and the layout  *)
(* is withdrawn.                                                           *)
Change ==
    /\ lockcnt = 0
    /\ view' = {}
    /\ UNCHANGED lockcnt

(* vdf_drive_recalc() outside the lock: a new layout appears, but never in *)
(* the place of one that is still valid.                                   *)
Publish ==
    /\ lockcnt = 0
    /\ view = {}
    /\ view' # {}
    /\ UNCHANGED lockcnt

(* vdf_drive_lock(): afterwards there is a layout; one that existed before *)
(* is kept.                                                                *)
Lock ==
    /\ lockcnt' = lockcnt + 1
    /\ view' # {}
    /\ view # {} => view' = view

Unlock ==
    /\ lockcnt > 0
    /\ lockcnt' = lockcnt - 1
    /\ UNCHANGED view

LockNext == Change \/ Publish \/ Lock \/ Unlock

LockSpec == LockInit /\ [][LockNext]_lockvars
=============================================================================
