----------------------------- MODULE Transport ------------------------------
(***************************************************************************)
(* The transports of a drive (libvdf/transport.c) with the NBD client      *)
(* driver (libvdf/transport/nbd_client.c), on top of the promise that the  *)
(* drive makes to its lock holders (DriveLock, which Drive implements).    *)
(*                                                                         *)
(* The library runs in the application's thread.  A call on one transport  *)
(* is an action; vdf_drive_start(), vdf_drive_stop() and vdf_drive_free()  *)
(* walk the list of transports and are one step per transport, between     *)
(* which nothing else runs (call says what is under way).  What the        *)
(* network does is a choice inside the action that waits for it.           *)
(*                                                                         *)
(* userlocks and leaked are history: the locks that the application has    *)
(* taken itself, and those that a call has taken and not given back.  The  *)
(* application unlocks only what it has locked.                            *)
(***************************************************************************)
EXTENDS DriveLock, Sequences, FiniteSets, SequencesExt

CONSTANTS
    Transports,   \* addresses that malloc() may give to a vdf_transport
    Views,        \* the layouts that a drive may have, and {} for none
    MaxLock       \* no new lock is asked for beyond this many

ASSUME TransportAssumption ==
    /\ IsFiniteSet(Transports)
    /\ {} \in Views
    /\ MaxLock \in Nat

VARIABLES
    opened,       \* drv->transports
    state,        \* transport -> running, error, active, sock, buff
    call,         \* the call that walks the list, with what is left of it
    userlocks,
    leaked

transvars == <<opened, state, call, userlocks, leaked>>
vars      == <<lockvars, transvars>>

Idle  == [op |-> "none", rest |-> <<>>]
Freed == [op |-> "freed", rest |-> <<>>]

(* buff is dat->buff: NULL, allocated, or freed and not set to NULL.       *)
Closed == [running |-> FALSE, error |-> FALSE, active |-> FALSE,
           sock |-> FALSE, buff |-> "null"]

Init ==
    /\ LockInit
    /\ opened = <<>>
    /\ state = [t \in Transports |-> Closed]
    /\ call = Idle
    /\ userlocks = 0
    /\ leaked = 0

IsOpen(t) == \E i \in DOMAIN opened : opened[i] = t
Running == {t \in Transports : state[t].running}

-----------------------------------------------------------------------------
(* Mistake: every lock recalculates.                                       *)
TakeLock_Recalculates == view' \in Views \ {{}} /\ lockcnt' = lockcnt + 1

(* vdf_drive_lock() as DriveLock describes it; it fails when there is no   *)
(* layout and none can be computed.                                        *)
TakeLock == view' \in Views /\ Lock

LockRefused == lockcnt = 0 /\ view = {}

-----------------------------------------------------------------------------
(* nbdcli_start(): the socket, the connection and the handshake succeed,   *)
(* or malloc() fails and leaves NULL in dat->buff, or a later step fails   *)
(* and leaves a freed pointer there.                                       *)
nbdcli_started(s) ==
    [s EXCEPT !.error = FALSE, !.sock = TRUE, !.buff = "held", !.active = TRUE]

nbdcli_failed(s) ==
    {[s EXCEPT !.error = FALSE, !.buff = "null"],
     [s EXCEPT !.error = FALSE, !.buff = "freed", !.sock = FALSE]}

(* nbdcli_stop(), then what vdf_transport_stop() does to the flags.        *)
nbdcli_stopped(s) ==
    [s EXCEPT !.sock = FALSE,
              !.buff = IF @ = "freed" THEN "freed twice" ELSE "null",
              !.active = FALSE, !.running = FALSE]

(* vdf_transport_start(): refused while running and when the drive cannot  *)
(* be locked; when the driver does not start, the lock is not given back.  *)
StartSucceeds(t) ==
    /\ ~state[t].running
    /\ TakeLock
    /\ state' = [state EXCEPT ![t] = [nbdcli_started(@) EXCEPT !.running = TRUE]]
    /\ UNCHANGED leaked

StartFails(t) ==
    /\ ~state[t].running
    /\ TakeLock
    /\ \E s \in nbdcli_failed(state[t]) : state' = [state EXCEPT ![t] = s]
    /\ leaked' = leaked + 1

StartRefused(t) ==
    /\ state[t].running \/ LockRefused
    /\ UNCHANGED <<lockvars, state, leaked>>

(* Mistake: the lock is given back by the driver and by the caller.        *)
StopRuns_UnlocksTwice(t) ==
    /\ state[t].running
    /\ lockcnt' = IF lockcnt > 1 THEN lockcnt - 2 ELSE 0
    /\ state' = [state EXCEPT ![t] = nbdcli_stopped(@)]
    /\ UNCHANGED <<view, leaked>>

(* Mistake: VTF_RUNNING is not asked for.                                  *)
StopRuns_NotAsked(t) ==
    /\ Unlock
    /\ state' = [state EXCEPT ![t] = nbdcli_stopped(@)]
    /\ UNCHANGED leaked

(* vdf_transport_stop() of a running transport.                            *)
StopRuns(t) ==
    /\ state[t].running
    /\ Unlock
    /\ state' = [state EXCEPT ![t] = nbdcli_stopped(@)]
    /\ UNCHANGED leaked

-----------------------------------------------------------------------------
(* The calls that change the files of the drive, and recalculations, by    *)
(* the application.                                                        *)
ChangeDrive ==
    /\ call = Idle
    /\ Change
    /\ UNCHANGED transvars

RecalcDrive ==
    /\ call = Idle
    /\ view' \in Views
    /\ Publish
    /\ UNCHANGED transvars

UserLock ==
    /\ call = Idle
    /\ lockcnt < MaxLock
    /\ TakeLock
    /\ userlocks' = userlocks + 1
    /\ UNCHANGED <<opened, state, call, leaked>>

(* Mistake: vdf_drive_unlock() does not test lockcnt.                      *)
UserUnlock_NotHeld ==
    /\ call = Idle
    /\ lockcnt' = lockcnt - 1
    /\ UNCHANGED <<view, transvars>>

UserUnlock ==
    /\ call = Idle
    /\ userlocks > 0
    /\ Unlock
    /\ userlocks' = userlocks - 1
    /\ UNCHANGED <<opened, state, call, leaked>>

(* vdf_transport_open() puts the transport at the head of the list.        *)
Open(t) ==
    /\ call = Idle
    /\ ~IsOpen(t)
    /\ opened' = <<t>> \o opened
    /\ state' = [state EXCEPT ![t] = Closed]
    /\ UNCHANGED <<lockvars, call, userlocks, leaked>>

(* vdf_transport_close() stops a running transport first.                  *)
CloseEffect(t) ==
    /\ \E i \in DOMAIN opened : opened[i] = t /\ opened' = RemoveAt(opened, i)
    /\ IF state[t].running
       THEN /\ Unlock
            /\ state' = [state EXCEPT ![t] = nbdcli_stopped(@)]
       ELSE UNCHANGED <<lockvars, state>>
    /\ UNCHANGED <<userlocks, leaked>>

Close(t) ==
    /\ call = Idle
    /\ CloseEffect(t)
    /\ UNCHANGED call

Start(t) ==
    /\ call = Idle
    /\ lockcnt < MaxLock
    /\ IsOpen(t)
    /\ StartSucceeds(t) \/ StartFails(t)
    /\ UNCHANGED <<opened, call, userlocks>>

Stop(t) ==
    /\ call = Idle
    /\ IsOpen(t)
    /\ StopRuns(t)
    /\ UNCHANGED <<opened, call, userlocks>>

(* vdf_transport_process() and nbdcli_process(): NBD_CMD_DISC stops the    *)
(* transport; a failed read, write or drive read sets the error and stops  *)
(* it.  A request that is served changes nothing here.                     *)
ProcessDisconnect(t) ==
    /\ call = Idle
    /\ ~state[t].error
    /\ StopRuns(t)
    /\ UNCHANGED <<opened, call, userlocks>>

(* Mistake: the error path stops the driver and not the transport.         *)
ProcessFails_KeepsLock(t) ==
    /\ call = Idle
    /\ state[t].running /\ ~state[t].error
    /\ state' = [state EXCEPT ![t] = nbdcli_stopped([@ EXCEPT !.error = TRUE])]
    /\ UNCHANGED <<lockvars, opened, call, userlocks, leaked>>

ProcessFails(t) ==
    /\ call = Idle
    /\ state[t].running /\ ~state[t].error
    /\ Unlock
    /\ state' = [state EXCEPT ![t] = nbdcli_stopped([@ EXCEPT !.error = TRUE])]
    /\ UNCHANGED <<opened, call, userlocks, leaked>>

-----------------------------------------------------------------------------
(* vdf_drive_start() and vdf_drive_stop(): one transport after the other,  *)
(* until one of them returns -1.  vdf_drive_free() closes them all; after  *)
(* it there is no drive.                                                   *)
Begin(op) ==
    /\ call = Idle
    /\ opened # <<>>
    /\ op = "start" => lockcnt < MaxLock
    /\ call' = [op |-> op, rest |-> opened]
    /\ UNCHANGED <<lockvars, opened, state, userlocks, leaked>>

Continue(end) ==
    call' = IF Len(call.rest) = 1 THEN end ELSE [call EXCEPT !.rest = Tail(@)]

Abort == call' = Idle

DriveStartStep ==
    /\ call.op = "start"
    /\ \/ StartSucceeds(Head(call.rest)) /\ Continue(Idle)
       \/ StartFails(Head(call.rest)) /\ Abort
       \/ StartRefused(Head(call.rest)) /\ Abort
    /\ UNCHANGED <<opened, userlocks>>

DriveStopStep ==
    /\ call.op = "stop"
    /\ LET t == Head(call.rest)
       IN  \/ StopRuns(t) /\ Continue(Idle)
           \/ ~state[t].running /\ Abort /\ UNCHANGED <<lockvars, state, leaked>>
    /\ UNCHANGED <<opened, userlocks>>

(* Mistake: the walk gives up at a transport that is not running.          *)
DriveFreeStep_GivesUp ==
    /\ call.op = "free"
    /\ IF state[Head(call.rest)].running
       THEN CloseEffect(Head(call.rest)) /\ Continue(Freed)
       ELSE Abort /\ UNCHANGED <<lockvars, opened, state, userlocks, leaked>>

(* The loop of vdf_drive_free() that closes every transport.               *)
DriveFreeStep ==
    /\ call.op = "free"
    /\ CloseEffect(Head(call.rest))
    /\ Continue(Freed)

-----------------------------------------------------------------------------
Next ==
    \/ ChangeDrive \/ RecalcDrive \/ UserLock \/ UserUnlock
    \/ \E t \in Transports : Open(t) \/ Close(t) \/ Start(t) \/ Stop(t)
                             \/ ProcessDisconnect(t) \/ ProcessFails(t)
    \/ \E op \in {"start", "stop", "free"} : Begin(op)
    \/ DriveStartStep \/ DriveStopStep \/ DriveFreeStep

(* A call that has begun goes on: the walks are loops without waits.       *)
Spec == Init /\ [][Next]_vars /\ WF_vars(DriveStartStep \/ DriveStopStep \/ DriveFreeStep)

-----------------------------------------------------------------------------
(* The fields keep their types.                                            *)
TypeOK ==
    /\ lockcnt \in 0..(MaxLock + Cardinality(Transports)) /\ view \in Views
    /\ opened \in Seq(Transports)
    /\ state \in [Transports -> [running : BOOLEAN, error : BOOLEAN, active : BOOLEAN,
                                 sock : BOOLEAN,
                                 buff : {"null", "held", "freed", "freed twice"}]]
    /\ call.op \in {"none", "start", "stop", "free", "freed"} /\ call.rest \in Seq(Transports)
    /\ userlocks \in Nat /\ leaked \in Nat

(* Every lock on the drive has exactly one reason: a running transport, a  *)
(* lock of the application, or a start that failed and kept it.  So the    *)
(* drive is unlocked, and can be changed again, exactly when nothing runs, *)
(* the application holds nothing and no start has failed.                  *)
LockAccounting == lockcnt = Cardinality(Running) + userlocks + leaked

(* A running transport serves requests from the layout without looking at  *)
(* VDF_DIRTY: there is one.  It takes every stop, disconnect, error, close *)
(* and walk to give back one lock and no more.                             *)
RunningSeesLayout == Running # {} => lockcnt > 0 /\ view # {}

(* A running transport has a socket and a buffer; one that is not running  *)
(* has no socket.  dat->buff may be left dangling by a start that failed,  *)
(* but no path frees it again.                                             *)
ConnectionMatchesFlag ==
    \A t \in Transports :
        /\ state[t].running => state[t].sock /\ state[t].buff = "held" /\ IsOpen(t)
        /\ ~state[t].running => ~state[t].sock /\ ~state[t].active
        /\ state[t].buff # "freed twice"

(* What a transport serves does not change while it runs.                  *)
ServedLayoutIsStable ==
    [][\A t \in Transports : state[t].running => view' = view]_vars

(* vdf_drive_free() leaves no transport running, whatever state each of    *)
(* them is in when it begins.                                              *)
FreeStopsAll == call.op = "free" ~> (call = Freed /\ Running = {} /\ opened = <<>>)
=============================================================================
