----------------------------- MODULE NbdServer ------------------------------
(***************************************************************************)
(* The NBD server driver (libvdf/transport/nbd_server.c) under a transport *)
(* (libvdf/transport.c) of a drive (DriveLock): the application's thread   *)
(* accepts connections and stops the server, and each connection has a     *)
(* thread that serves it and then unlinks and frees its own nbd_client.    *)
(*                                                                         *)
(* Nothing protects what the threads share: the list of clients, the count *)
(* num_clients, the flags of the transport, the clients themselves.  A     *)
(* read-modify-write of the count is two steps, and so is one of           *)
(* VTF_ACTIVE.  The application's changes of VTF_RUNNING and VTF_ERROR are *)
(* one step: by them it could only undo what a thread does to VTF_ACTIVE.  *)
(* bad becomes TRUE when a thread follows a pointer to freed or never      *)
(* linked memory, when two of them are inside list operations at once and  *)
(* collide; what the program does from there on is undefined, and nothing  *)
(* more happens in the model.                                              *)
(*                                                                         *)
(* Posix chooses between the two builds.  They differ in the test of the   *)
(* result of creating the thread.  What is served, request by request, is  *)
(* NbdSession.                                                             *)
(*                                                                         *)
(* overlap is history: TRUE once a thread was freeing its client while     *)
(* another one was, or while the application took a step of a call (other  *)
(* than to wait for this very thread).                                     *)
(***************************************************************************)
EXTENDS DriveLock, Integers, Sequences, FiniteSets, SequencesExt

CONSTANTS
    Clients,      \* addresses that malloc() may give to an nbd_client
    HEAD,         \* &dat->clients
    Views,        \* the layouts that a drive may have, and {} for none
    Posix,        \* the build
    MaxLock,      \* bound on lockcnt, which a failing start leaves raised
    MaxDrift      \* bound on num_clients, which lost updates move both ways

ASSUME ServerAssumption ==
    /\ HEAD \notin Clients
    /\ {} \in Views
    /\ Posix \in BOOLEAN
    /\ MaxLock \in Nat /\ MaxDrift \in Nat

VARIABLES
    flags,        \* trans->flags: running, active, error
    trans,        \* TRUE until vdf_transport_close() frees it
    clients,      \* dat->clients
    num_clients,
    srvsock,      \* dat->srvsock is open
    memory,       \* nbd_client -> "free", "live", "freed"
    sock,         \* nbd_client -> cli->sock is open
    thread,       \* nbd_client -> where its thread is
    reg,          \* nbd_client -> a count or flags that its thread has read
    at,           \* where the application's thread is
    cli, nxt,     \* its variables of these names (nxt is cli_n)
    read,         \* a count or flags that it has read
    closing,      \* it is in vdf_transport_close()
    bad,
    overlap

drvvars  == <<lockcnt, view>>
appvars  == <<at, cli, nxt, read, closing>>
srvvars  == <<flags, trans, clients, num_clients, srvsock>>
connvars == <<memory, sock, thread, reg>>
vars     == <<drvvars, appvars, srvvars, connvars, bad, overlap>>

NoFlags == [running |-> FALSE, active |-> FALSE, error |-> FALSE]
Unread  == [count |-> 0, flags |-> NoFlags]

Init ==
    /\ LockInit
    /\ flags = NoFlags
    /\ trans = TRUE
    /\ clients = <<>> /\ num_clients = 0 /\ srvsock = FALSE
    /\ memory = [c \in Clients |-> "free"]
    /\ sock = [c \in Clients |-> FALSE]
    /\ thread = [c \in Clients |-> "none"]
    /\ reg = [c \in Clients |-> Unread]
    /\ at = "idle" /\ cli = HEAD /\ nxt = HEAD /\ read = Unread /\ closing = FALSE
    /\ bad = FALSE /\ overlap = FALSE

Listed(c) == c \in Range(clients)
Live(c)   == memory[c] = "live"

(* Undefined behaviour: a step may go wrong (bad' = ...) or be nothing but *)
(* that.  Nothing happens in the model after it.                           *)
Misuse == bad' = TRUE /\ UNCHANGED <<drvvars, appvars, srvvars, connvars>>

Goto(pc) == at' = pc

-----------------------------------------------------------------------------
(* The application changes its drive, as DriveLock allows it.              *)
ChangeDrive ==
    /\ at = "idle"
    /\ Change
    /\ UNCHANGED <<appvars, srvvars, connvars, bad>>

(* vdf_transport_start() and nbdserv_start(): the socket is bound and      *)
(* listens, or one of these fails and the lock stays.  The count is set to *)
(* zero unless socket() has failed before.                                 *)
Start ==
    /\ at = "idle" /\ trans /\ ~flags.running /\ lockcnt < MaxLock
    /\ view' \in Views
    /\ Lock
    /\ \/ /\ srvsock' = TRUE /\ num_clients' = 0
          /\ flags' = [flags EXCEPT !.running = TRUE, !.error = FALSE]
       \/ /\ srvsock' = FALSE /\ num_clients' \in {0, num_clients}
          /\ flags' = [flags EXCEPT !.error = FALSE]
    /\ UNCHANGED <<appvars, trans, clients, connvars, bad>>

(* nbdserv_process(): a connection is accepted, a client allocated and its *)
(* thread created.  The POSIX build takes the 0 that pthread_create()      *)
(* returns for a failure, and a failure for success.                       *)
MayProcess == at = "idle" /\ trans /\ srvsock /\ flags.running /\ ~flags.error

Allocated(c) ==
    /\ ~Live(c) /\ thread[c] \in {"none", "done"}
    /\ {num_clients} \cup {reg[d].count : d \in Clients} \subseteq (-MaxDrift)..MaxDrift
    /\ memory' = [memory EXCEPT ![c] = "live"]
    /\ sock' = [sock EXCEPT ![c] = TRUE]
    /\ cli' = c

Accept(c) ==
    /\ MayProcess
    /\ Allocated(c)
    /\ thread' = [thread EXCEPT ![c] = "serving"]
    /\ Goto(IF Posix THEN "undo" ELSE "link")
    /\ UNCHANGED <<drvvars, srvvars, nxt, read, closing, reg, bad>>

CreateFails(c) ==
    /\ MayProcess
    /\ Allocated(c)
    /\ thread' = [thread EXCEPT ![c] = "none"]
    /\ Goto(IF Posix THEN "link" ELSE "undo")
    /\ UNCHANGED <<drvvars, srvvars, nxt, read, closing, reg, bad>>

(* The accepted socket is not closed when malloc() fails.                  *)
AcceptNoMemory ==
    /\ MayProcess
    /\ flags' = [flags EXCEPT !.error = TRUE]
    /\ UNCHANGED <<drvvars, appvars, trans, clients, num_clients, srvsock, connvars, bad>>

(* The error path: set the error, close the socket, free the client.       *)
Undo ==
    /\ at = "undo"
    /\ flags' = [flags EXCEPT !.error = TRUE]
    /\ sock' = [sock EXCEPT ![cli] = FALSE]
    /\ memory' = [memory EXCEPT ![cli] = "freed"]
    /\ bad' = ~Live(cli)
    /\ Goto("idle")
    /\ UNCHANGED <<drvvars, cli, nxt, read, closing, trans, clients, num_clients, srvsock, thread, reg>>

Link ==
    /\ at = "link"
    /\ bad' = ~Live(cli)
    /\ clients' = Append(clients, cli)
    /\ Goto("count")
    /\ UNCHANGED <<drvvars, cli, nxt, read, closing, flags, trans, num_clients, srvsock, connvars>>

CountUp ==
    /\ at = "count"
    /\ read' = [read EXCEPT !.count = num_clients + 1]
    /\ Goto("store")
    /\ UNCHANGED <<drvvars, cli, nxt, closing, srvvars, connvars, bad>>

StoreUp ==
    /\ at = "store"
    /\ num_clients' = read.count
    /\ Goto("connect")
    /\ UNCHANGED <<drvvars, cli, nxt, read, closing, flags, trans, clients, srvsock, connvars, bad>>

(* cli->id is read for the callback.                                       *)
Connect ==
    /\ at = "connect"
    /\ bad' = ~Live(cli)
    /\ read' = [read EXCEPT !.flags = flags]
    /\ Goto("activate")
    /\ UNCHANGED <<drvvars, cli, nxt, closing, srvvars, connvars>>

SetActive ==
    /\ at = "activate"
    /\ flags' = [read.flags EXCEPT !.active = TRUE]
    /\ Goto("idle")
    /\ read' = Unread
    /\ UNCHANGED <<drvvars, cli, nxt, closing, trans, clients, num_clients, srvsock, connvars, bad>>

-----------------------------------------------------------------------------
(* Mistake: the lock is given back before the clients are stopped.         *)
StopBegin_UnlocksFirst(close) ==
    /\ at = "idle" /\ trans /\ flags.running
    /\ lockcnt' = IF lockcnt > 0 THEN lockcnt - 1 ELSE 0
    /\ nxt' = IF clients = <<>> THEN HEAD ELSE Head(clients)
    /\ closing' = close
    /\ Goto("walk")
    /\ UNCHANGED <<view, cli, read, srvvars, connvars, bad>>

(* vdf_transport_stop(), by itself or from vdf_transport_close(), and      *)
(* nbdserv_stop() up to the first client.                                  *)
StopBegin(close) ==
    /\ at = "idle" /\ trans /\ flags.running
    /\ nxt' = IF clients = <<>> THEN HEAD ELSE Head(clients)
    /\ closing' = close
    /\ Goto("walk")
    /\ UNCHANGED <<drvvars, cli, read, srvvars, connvars, bad>>

Successor(c) ==
    LET i == CHOOSE j \in DOMAIN clients : clients[j] = c
    IN  IF i = Len(clients) THEN HEAD ELSE clients[i + 1]

(* list_foreach_item_safe() moves on and reads the successor of the client *)
(* it moves to; list_del() has cleared that of a client not on the list.   *)
Walk ==
    /\ at = "walk"
    /\ \/ /\ nxt = HEAD
          /\ Goto("shut")
          /\ UNCHANGED <<drvvars, cli, nxt, read, closing, srvvars, connvars, bad>>
       \/ nxt # HEAD /\ ~(Live(nxt) /\ Listed(nxt)) /\ Misuse
       \/ /\ nxt # HEAD /\ Live(nxt) /\ Listed(nxt)
          /\ cli' = nxt
          /\ nxt' = Successor(nxt)
          /\ Goto("hangup")
          /\ UNCHANGED <<drvvars, read, closing, srvvars, connvars, bad>>

(* Mistake: the socket of the client is left open.                         *)
Hangup_LeftOpen ==
    /\ at = "hangup"
    /\ Goto("join")
    /\ UNCHANGED <<drvvars, cli, nxt, read, closing, srvvars, connvars, bad>>

(* stop_client() up to the handle of the thread.                           *)
Hangup ==
    /\ at = "hangup"
    /\ bad' = ~Live(cli)
    /\ sock' = [sock EXCEPT ![cli] = FALSE]
    /\ Goto("join")
    /\ UNCHANGED <<drvvars, cli, nxt, read, closing, srvvars, memory, thread, reg>>

(* Mistake: the thread is not waited for.                                  *)
Join_NotWaited ==
    /\ at = "join"
    /\ bad' = ~Live(cli)
    /\ Goto("walk")
    /\ UNCHANGED <<drvvars, cli, nxt, read, closing, srvvars, connvars>>

(* cli->thread is read; in the POSIX build a client on the list has none.  *)
Join ==
    /\ at = "join"
    /\ bad' = (~Live(cli) \/ thread[cli] = "none")
    /\ Goto("wait")
    /\ UNCHANGED <<drvvars, cli, nxt, read, closing, srvvars, connvars>>

(* WaitForSingleObject() or pthread_join() returns.                        *)
Joined ==
    /\ at = "wait"
    /\ thread[cli] = "done"
    /\ Goto("walk")
    /\ UNCHANGED <<drvvars, cli, nxt, read, closing, srvvars, connvars, bad>>

Shut ==
    /\ at = "shut"
    /\ srvsock' = FALSE
    /\ Goto("unlock")
    /\ UNCHANGED <<drvvars, cli, nxt, read, closing, flags, trans, clients, num_clients, connvars, bad>>

Stopped == Goto(IF closing THEN "free" ELSE "idle")

(* Mistake: the count of locks is not tested.                              *)
GiveBack_NotTested ==
    /\ at = "unlock"
    /\ lockcnt' = lockcnt - 1 /\ read' = [read EXCEPT !.flags = flags] /\ Goto("clear") /\ UNCHANGED view
    /\ UNCHANGED <<cli, nxt, closing, srvvars, connvars, bad>>

(* The lock is given back; if there was none, the flags stay.              *)
GiveBack ==
    /\ at = "unlock"
    /\ \/ Unlock /\ read' = [read EXCEPT !.flags = flags] /\ Goto("clear")
       \/ lockcnt = 0 /\ Stopped /\ UNCHANGED <<drvvars, read>>
    /\ UNCHANGED <<cli, nxt, closing, srvvars, connvars, bad>>

ClearFlags ==
    /\ at = "clear"
    /\ flags' = [read.flags EXCEPT !.running = FALSE, !.active = FALSE]
    /\ read' = Unread
    /\ Stopped
    /\ UNCHANGED <<drvvars, cli, nxt, closing, trans, clients, num_clients, srvsock, connvars, bad>>

(* vdf_transport_close() of a transport that is not running, or after the  *)
(* stop.                                                                   *)
FreeTransport ==
    /\ \/ at = "idle" /\ trans /\ ~flags.running
       \/ at = "free"
    /\ trans' = FALSE
    /\ Goto("idle")
    /\ UNCHANGED <<drvvars, cli, nxt, read, closing, flags, clients, num_clients, srvsock, connvars, bad>>

-----------------------------------------------------------------------------
(* client_threadfunc() of c leaves its loop, because of the peer, because  *)
(* of an error, or because its socket was closed under it.                 *)
At(c, pc) == thread[c] = pc
Move(c, pc) == thread' = [thread EXCEPT ![c] = pc]

EndServe(c) ==
    /\ At(c, "serving")
    /\ bad' = ~Live(c)
    /\ Move(c, "unlink")
    /\ UNCHANGED <<drvvars, appvars, srvvars, memory, sock, reg>>

(* free_client() tells the application and takes the client off the list,  *)
(* which it may not be on yet.                                             *)
Unlink(c) ==
    /\ At(c, "unlink")
    /\ bad' = ~(Live(c) /\ Listed(c) /\ trans)
    /\ \/ \E i \in DOMAIN clients : clients[i] = c /\ clients' = RemoveAt(clients, i)
       \/ ~Listed(c) /\ UNCHANGED clients
    /\ Move(c, "count")
    /\ UNCHANGED <<drvvars, appvars, flags, trans, num_clients, srvsock, memory, sock, reg>>

(* Two threads that take neighbours off the list, or one that takes the    *)
(* last client off while the application appends one, write the same       *)
(* pointers.                                                               *)
ListRace(c) ==
    /\ At(c, "unlink")
    /\ Listed(c)
    /\ \/ \E d \in Clients : At(d, "unlink") /\ Listed(d) /\ Successor(c) = d
       \/ at = "link" /\ Successor(c) = HEAD
    /\ Misuse

CountDown(c) ==
    /\ At(c, "count")
    /\ bad' = ~trans
    /\ reg' = [reg EXCEPT ![c].count = num_clients - 1]
    /\ Move(c, "store")
    /\ UNCHANGED <<drvvars, appvars, srvvars, memory, sock>>

StoreDown(c) ==
    /\ At(c, "store")
    /\ bad' = ~trans
    /\ num_clients' = reg[c].count
    /\ Move(c, IF reg[c].count = 0 THEN "flag" ELSE "close")
    /\ reg' = [reg EXCEPT ![c] = Unread]
    /\ UNCHANGED <<drvvars, appvars, flags, trans, clients, srvsock, memory, sock>>

FlagRead(c) ==
    /\ At(c, "flag")
    /\ bad' = ~trans
    /\ reg' = [reg EXCEPT ![c].flags = flags]
    /\ Move(c, "clear")
    /\ UNCHANGED <<drvvars, appvars, srvvars, memory, sock>>

FlagWrite(c) ==
    /\ At(c, "clear")
    /\ bad' = ~trans
    /\ flags' = [reg[c].flags EXCEPT !.active = FALSE]
    /\ reg' = [reg EXCEPT ![c] = Unread]
    /\ Move(c, "close")
    /\ UNCHANGED <<drvvars, appvars, trans, clients, num_clients, srvsock, memory, sock>>

CloseFree(c) ==
    /\ At(c, "close")
    /\ sock' = [sock EXCEPT ![c] = FALSE]
    /\ memory' = [memory EXCEPT ![c] = "freed"]
    /\ Move(c, "done")
    /\ UNCHANGED <<drvvars, appvars, srvvars, reg, bad>>

-----------------------------------------------------------------------------
CallStep ==
    \/ Undo \/ Link \/ CountUp \/ StoreUp \/ Connect \/ SetActive
    \/ Walk \/ Hangup \/ Join \/ Joined \/ Shut \/ GiveBack \/ ClearFlags
    \/ (at = "free" /\ FreeTransport)

AppStep ==
    \/ ChangeDrive \/ Start \/ AcceptNoMemory \/ FreeTransport
    \/ \E c \in Clients : Accept(c) \/ CreateFails(c)
    \/ \E close \in BOOLEAN : StopBegin(close)
    \/ CallStep

FreeStep(c) ==
    \/ Unlink(c) \/ ListRace(c) \/ CountDown(c) \/ StoreDown(c)
    \/ FlagRead(c) \/ FlagWrite(c) \/ CloseFree(c)

Ending(c)   == thread[c] \in {"unlink", "count", "store", "flag", "clear", "close"}
WaitsFor(c) == at = "wait" /\ cli = c

App ==
    /\ ~bad /\ AppStep
    /\ overlap' = (overlap \/ \E c \in Clients : Ending(c) /\ ~WaitsFor(c))

Thread(c) ==
    /\ ~bad /\ (EndServe(c) \/ FreeStep(c))
    /\ overlap' = (overlap \/ (at # "idle" /\ ~WaitsFor(c))
                           \/ \E d \in Clients \ {c} : Ending(d))

Next == App \/ \E c \in Clients : Thread(c)

(* A call that has begun goes on, and so does a thread outside recv(); a   *)
(* recv() on a socket that closesocket() has closed returns.  Nothing says *)
(* when a peer hangs up.                                                   *)
Fairness ==
    /\ WF_vars(App /\ CallStep)
    /\ \A c \in Clients :
        /\ WF_vars(Thread(c) /\ FreeStep(c))
        /\ WF_vars(Thread(c) /\ ~Posix /\ ~sock[c] /\ EndServe(c))

Spec == Init /\ [][Next]_vars /\ Fairness

-----------------------------------------------------------------------------
(* The fields keep their types; lockcnt never falls below zero, whatever   *)
(* the threads do to the flags that say whether it is to be lowered.       *)
FlagSet == [running : BOOLEAN, active : BOOLEAN, error : BOOLEAN]

TypeOK ==
    /\ lockcnt \in 0..MaxLock /\ view \in Views
    /\ flags \in FlagSet /\ {trans, srvsock, closing, bad, overlap} \subseteq BOOLEAN
    /\ Range(clients) \subseteq Clients /\ num_clients \in Int
    /\ memory \in [Clients -> {"free", "live", "freed"}]
    /\ sock \in [Clients -> BOOLEAN]
    /\ cli \in Clients \cup {HEAD} /\ nxt \in Clients \cup {HEAD}

Quiet == at = "idle" /\ \A c \in Clients : ~Ending(c)

(* As long as no thread frees its client at the same time as another or    *)
(* inside a call of the application, nothing is used after it was freed,   *)
(* the clients on the list are exactly the ones that are served, the count *)
(* and VTF_ACTIVE say so, and a transport that is stopped serves nobody.   *)
CallsAloneAreSafe ==
    ~overlap =>
        /\ ~bad
        /\ Quiet => /\ Range(clients) = {c \in Clients : At(c, "serving")}
                    /\ num_clients = Len(clients)
                    /\ flags.active = (clients # <<>>)
                    /\ flags.running = srvsock
                    /\ srvsock \/ clients = <<>>
                    /\ \A c \in Clients : ~Listed(c) => ~Live(c) /\ ~sock[c]

(* A thread that serves requests reads the layout of a locked drive: also  *)
(* when VTF_RUNNING was lost or restored by a race between a thread that   *)
(* clears VTF_ACTIVE and a start or a stop, so that a stop gives back a    *)
(* lock that is not its own or a close does not stop.                      *)
ServedUnderLock ==
    ~bad => \A c \in Clients : At(c, "serving") => lockcnt > 0 /\ view # {}

(* A stop, by itself or in a close, returns however many clients are       *)
(* connected and whatever they are doing.                                  *)
InStop == at \in {"walk", "hangup", "join", "wait", "shut", "unlock", "clear", "free"}
StopReturns == InStop ~> (at = "idle" \/ bad)

(* What the driver is for: a client that is being served has its memory    *)
(* and an open socket, until a stop closes it.                             *)
ServingHasSocket ==
    \A c \in Clients : At(c, "serving") => Live(c) /\ (sock[c] \/ InStop)
=============================================================================
