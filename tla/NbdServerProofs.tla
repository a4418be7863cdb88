-------------------------- MODULE NbdServerProofs ---------------------------
(***************************************************************************)
(* The NBD server and its threads, for any number of clients, any layouts  *)
(* and any bounds: proofs about NbdServer.                                 *)
(***************************************************************************)
EXTENDS NbdServer, ListLemmas, SequenceTheorems, TLAPS

Calls == {"undo", "link", "count", "store", "connect", "activate"}
Stops == {"walk", "hangup", "join", "wait", "shut", "unlock", "clear", "free"}
Pcs   == {"none", "serving", "unlink", "count", "store", "flag", "clear", "close", "done"}
Regs  == [count : Int, flags : FlagSet]

(* The types, as far as the steps need them.                               *)
TypeInv ==
    /\ lockcnt \in Nat /\ lockcnt <= MaxLock /\ view \in Views
    /\ flags \in FlagSet /\ trans \in BOOLEAN /\ srvsock \in BOOLEAN /\ closing \in BOOLEAN
    /\ bad \in BOOLEAN /\ overlap \in BOOLEAN
    /\ clients \in Seq(Clients) /\ num_clients \in Int
    /\ memory \in [Clients -> {"free", "live", "freed"}]
    /\ sock \in [Clients -> BOOLEAN]
    /\ thread \in [Clients -> Pcs] /\ reg \in [Clients -> Regs]
    /\ at \in {"idle"} \cup Calls \cup Stops /\ read \in Regs
    /\ cli \in Clients \cup {HEAD} /\ nxt \in Clients \cup {HEAD}
    /\ at \in {"undo", "link", "hangup", "join", "wait"} => cli \in Clients

-----------------------------------------------------------------------------
(* What holds however the threads interleave, until undefined behaviour.   *)

Bound(c) == thread[c] \in {"serving", "unlink"}

(* The list: the clients whose threads have not taken themselves off it.   *)
ListInv ==
    /\ Distinct(clients)
    /\ \A c \in Clients : Listed(c) => Bound(c)
    /\ \A c \in Clients : Bound(c) => Listed(c) \/ (at = "link" /\ cli = c)
    /\ at = "link" => ~Listed(cli) /\ Bound(cli)

(* The walk of nbdserv_stop(): who is still served is where the walk is or *)
(* ahead of it.                                                            *)
Ahead(c) == \E i, j \in DOMAIN clients : i <= j /\ clients[i] = nxt /\ clients[j] = c

WalkInv ==
    /\ at \in {"walk", "hangup", "join", "wait"} =>
         \A c \in Clients : At(c, "serving") =>
             (at # "walk" /\ c = cli) \/ (nxt # HEAD /\ (Listed(nxt) => Ahead(c)))
    /\ at \in {"shut", "unlock", "clear", "free"} => \A c \in Clients : ~At(c, "serving")

(* The lock: the server's socket and the threads live on it.               *)
LockInv ==
    /\ at \in {"unlock", "clear", "free"} => ~srvsock
    /\ srvsock => lockcnt > 0
    /\ \A c \in Clients : At(c, "serving") => lockcnt > 0
    /\ lockcnt > 0 => view # {}

ServeInv == ~bad => ListInv /\ WalkInv /\ LockInv

-----------------------------------------------------------------------------
(* What holds as long as nothing overlaps.                                 *)

(* Where the one thread that frees its client may be.                      *)
OrderInv ==
    /\ ~bad
    /\ \A c \in Clients : Ending(c) => at = "idle" \/ WaitsFor(c)
    /\ \A c, d \in Clients : Ending(c) /\ Ending(d) => c = d

(* A client's memory and socket live as long as its thread.                *)
MemoryInv ==
    /\ \A c \in Clients : thread[c] \notin {"none", "done"} => Live(c) /\ trans
    /\ \A c \in Clients : Live(c) => thread[c] \notin {"none", "done"} \/ (at = "undo" /\ cli = c)
    /\ \A c \in Clients : sock[c] => Live(c)
    /\ at = "undo" => Live(cli) /\ thread[cli] = "none"
    /\ at \in {"count", "store", "connect", "activate"} => Listed(cli)
    /\ at \in {"hangup", "join"} => Listed(cli) /\ At(cli, "serving")
    /\ at = "walk" => nxt = HEAD \/ Listed(nxt)
    /\ at \in {"hangup", "join", "wait"} => nxt = HEAD \/ (Listed(nxt) /\ nxt # cli)

(* num_clients, with the steps that read and write it.                     *)
Lowering(c) == thread[c] \in {"count", "store"}

CountInv ==
    /\ at \in {"count", "store"} => num_clients = Len(clients) - 1
    /\ at = "store" => read.count = Len(clients)
    /\ \A c \in Clients : Lowering(c) => num_clients = Len(clients) + 1
    /\ \A c \in Clients : At(c, "store") => reg[c].count = Len(clients)
    /\ at \notin {"count", "store"} /\ (\A c \in Clients : ~Lowering(c)) => num_clients = Len(clients)

(* VTF_ACTIVE and VTF_RUNNING, with the steps that read and write them.    *)
Clearing(c) == thread[c] \in {"flag", "clear"}

FlagInv ==
    /\ \A c \in Clients : Clearing(c) => clients = <<>>
    /\ \A c \in Clients : At(c, "clear") => reg[c].flags = flags
    /\ at \in {"activate", "clear"} => read.flags = flags
    /\ at \in {"count", "store", "connect", "activate"} => (flags.active <=> Len(clients) > 1)
    /\ \A c \in Clients : Lowering(c) \/ Clearing(c) => flags.active
    /\ at \notin {"count", "store", "connect", "activate"}
         /\ (\A c \in Clients : ~Lowering(c) /\ ~Clearing(c)) => (flags.active <=> Len(clients) > 0)
    /\ at \notin {"unlock", "clear"} => (flags.running <=> srvsock)
    /\ at \in {"unlock", "clear"} => flags.running
    /\ at \in Calls \cup {"walk", "hangup", "join", "wait", "shut"} => srvsock
    /\ at = "unlock" => lockcnt > 0
    /\ ~srvsock => Len(clients) = 0

AloneInv == ~overlap => OrderInv /\ MemoryInv /\ CountInv /\ FlagInv

-----------------------------------------------------------------------------
(* The steps, for any interleaving and in both builds.                     *)

(* The client that the walk comes to next is on the list or is its end.    *)
LEMMA SuccessorIsListed ==
    ASSUME TypeInv, NEW c, Listed(c)
    PROVE  Successor(c) = HEAD \/ (Successor(c) \in Clients /\ Listed(Successor(c)))
  <1> DEFINE i == CHOOSE j \in DOMAIN clients : clients[j] = c
  <1>1. DOMAIN clients = 1..Len(clients) /\ Len(clients) \in Nat
    BY LenProperties DEF TypeInv
  <1>2. \E j \in DOMAIN clients : clients[j] = c
    BY DEF Listed, Range
  <1>3. i \in DOMAIN clients
    BY <1>2
  <1>4. Successor(c) = IF i = Len(clients) THEN HEAD ELSE clients[i + 1]
    BY DEF Successor
  <1> HIDE DEF i
  <1>5. i # Len(clients) => i + 1 \in DOMAIN clients
    BY <1>1, <1>3
  <1>6. i # Len(clients) => clients[i + 1] \in Clients /\ Listed(clients[i + 1])
    BY <1>1, <1>5, ElementOfSeq DEF TypeInv, Listed, Range
  <1> QED
    BY <1>4, <1>6

(* The list without a client, or with one more, is a list of clients.      *)
LEMMA UnlinkTypes ==
    ASSUME TypeInv, NEW c \in Clients, Unlink(c)
    PROVE  clients' \in Seq(Clients)
  <1>1. CASE UNCHANGED clients
    BY <1>1 DEF TypeInv
  <1>2. ASSUME NEW i \in DOMAIN clients, clients' = RemoveAt(clients, i)
        PROVE  clients' \in Seq(Clients)
    BY <1>2, RemoveAtProperties DEF TypeInv
  <1> QED
    BY <1>1, <1>2 DEF Unlink

(* Flags keep being flags when a bit of them is set or cleared.            *)
LEMMA FlagTypes ==
    ASSUME NEW f \in FlagSet
    PROVE  /\ [f EXCEPT !.error = TRUE] \in FlagSet
           /\ [f EXCEPT !.active = TRUE] \in FlagSet
           /\ [f EXCEPT !.active = FALSE] \in FlagSet
           /\ [f EXCEPT !.error = FALSE] \in FlagSet
           /\ [f EXCEPT !.running = TRUE, !.error = FALSE] \in FlagSet
           /\ [f EXCEPT !.running = FALSE, !.active = FALSE] \in FlagSet
  BY DEF FlagSet

LEMMA RegTypes ==
    /\ NoFlags \in FlagSet /\ Unread \in Regs
    /\ \A r \in Regs, n \in Int : [r EXCEPT !.count = n] \in Regs
    /\ \A r \in Regs, f \in FlagSet : [r EXCEPT !.flags = f] \in Regs
  <1>1. NoFlags \in FlagSet
    BY DEF NoFlags, FlagSet
  <1>2. Unread \in Regs
    BY <1>1 DEF Unread, Regs
  <1>3. ASSUME NEW r \in Regs, NEW n \in Int PROVE [r EXCEPT !.count = n] \in Regs
    BY DEF Regs
  <1>4. ASSUME NEW r \in Regs, NEW f \in FlagSet PROVE [r EXCEPT !.flags = f] \in Regs
    BY DEF Regs
  <1> QED
    BY <1>1, <1>2, <1>3, <1>4

LEMMA TypeInit == Init => TypeInv
  <1> SUFFICES ASSUME Init PROVE TypeInv
    OBVIOUS
  <1> USE DEF Init
  <1>1. lockcnt \in Nat /\ lockcnt <= MaxLock /\ view \in Views
    BY ServerAssumption DEF LockInit
  <1>2. flags \in FlagSet /\ read \in Regs /\ reg \in [Clients -> Regs]
    BY RegTypes
  <1>3. /\ memory \in [Clients -> {"free", "live", "freed"}]
        /\ sock \in [Clients -> BOOLEAN]
        /\ thread \in [Clients -> Pcs]
    BY DEF Pcs
  <1>4. clients \in Seq(Clients) /\ num_clients \in Int
    OBVIOUS
  <1> QED
    BY <1>1, <1>2, <1>3, <1>4 DEF TypeInv

LEMMA TypeStep == TypeInv /\ [Next]_vars => TypeInv'
  <1> SUFFICES ASSUME TypeInv, [Next]_vars PROVE TypeInv'
    OBVIOUS
  <1> USE DEF TypeInv, drvvars, appvars, srvvars, connvars, Goto
  <1>1. CASE UNCHANGED vars
    BY <1>1 DEF vars
  <1>2. ASSUME App PROVE TypeInv'
    <2> HIDE DEF TypeInv
    <2>0. overlap' \in BOOLEAN
      BY <1>2 DEF App, TypeInv
    <2> USE DEF TypeInv
    <2>1. CASE ChangeDrive
      BY <2>0, <2>1, ServerAssumption DEF ChangeDrive, Change
    <2>2. CASE Start
      <3>3. lockcnt < MaxLock /\ lockcnt' = lockcnt + 1 /\ view' \in Views
        BY <2>2 DEF Start, Lock
      <3>1. lockcnt' \in Nat /\ lockcnt' <= MaxLock /\ view' \in Views
        BY <3>3, ServerAssumption
      <3>2. flags' \in FlagSet /\ srvsock' \in BOOLEAN /\ num_clients' \in Int
        <4>1. \/ flags' = [flags EXCEPT !.running = TRUE, !.error = FALSE]
              \/ flags' = [flags EXCEPT !.error = FALSE]
          BY <2>2 DEF Start
        <4>2. flags' \in FlagSet
          BY <4>1, FlagTypes
        <4>3. srvsock' = TRUE \/ srvsock' = FALSE
          BY <2>2 DEF Start
        <4>4. num_clients' \in Int
          BY <2>2 DEF Start
        <4> QED
          BY <4>2, <4>3, <4>4
      <3> QED
        BY <2>0, <2>2, <3>1, <3>2 DEF Start
    <2>3. CASE AcceptNoMemory
      BY <2>0, <2>3, FlagTypes DEF AcceptNoMemory
    <2>4. CASE FreeTransport
      BY <2>0, <2>4 DEF FreeTransport
    <2>5. ASSUME NEW c \in Clients, Accept(c) PROVE TypeInv'
      BY <2>0, <2>5 DEF Accept, Allocated, Calls, Pcs
    <2>6. ASSUME NEW c \in Clients, CreateFails(c) PROVE TypeInv'
      BY <2>0, <2>6 DEF CreateFails, Allocated, Calls, Pcs
    <2>7. ASSUME NEW close \in BOOLEAN, StopBegin(close) PROVE TypeInv'
      BY <2>0, <2>7 DEF StopBegin, Stops
    <2>8. CASE Undo
      BY <2>0, <2>8, FlagTypes DEF Undo
    <2>9. CASE Link
      BY <2>0, <2>9, AppendProperties DEF Link, Calls
    <2>10. CASE CountUp
      <3>1. num_clients + 1 \in Int /\ read' = [read EXCEPT !.count = num_clients + 1]
        BY <2>10 DEF CountUp
      <3>2. read' \in Regs
        BY <3>1, RegTypes
      <3> QED
        BY <2>0, <2>10, <3>2 DEF CountUp, Calls
    <2>11. CASE StoreUp
      BY <2>0, <2>11 DEF StoreUp, Calls, Regs
    <2>12. CASE Connect
      BY <2>0, <2>12, RegTypes DEF Connect, Calls
    <2>13. CASE SetActive
      BY <2>0, <2>13, FlagTypes, RegTypes DEF SetActive, Regs
    <2>14. CASE Walk
      <3>1. nxt # HEAD /\ Listed(nxt) => Successor(nxt) \in Clients \cup {HEAD}
        BY SuccessorIsListed
      <3> QED
        BY <2>0, <2>14, <3>1 DEF Walk, Misuse, Stops
    <2>15. CASE Hangup
      BY <2>0, <2>15 DEF Hangup, Stops
    <2>16. CASE Join
      BY <2>0, <2>16 DEF Join, Stops
    <2>17. CASE Joined
      BY <2>0, <2>17 DEF Joined, Stops
    <2>18. CASE Shut
      BY <2>0, <2>18 DEF Shut, Stops
    <2>19. CASE GiveBack
      <3>1. lockcnt' \in Nat /\ lockcnt' <= MaxLock /\ view' \in Views
        BY <2>19, ServerAssumption DEF GiveBack, Unlock
      <3>2. read' \in Regs /\ at' \in {"idle"} \cup Stops
        BY <2>19, RegTypes DEF GiveBack, Stopped, Stops
      <3>3. at' \notin {"undo", "link", "hangup", "join", "wait"}
        BY <2>19 DEF GiveBack, Stopped
      <3> QED
        BY <2>0, <2>19, <3>1, <3>2, <3>3 DEF GiveBack
    <2>20. CASE ClearFlags
      BY <2>0, <2>20, FlagTypes, RegTypes DEF ClearFlags, Stopped, Stops, Regs
    <2> HIDE DEF TypeInv
    <2> QED
      BY <1>2, <2>1, <2>2, <2>3, <2>4, <2>5, <2>6, <2>7, <2>8, <2>9, <2>10, <2>11, <2>12,
         <2>13, <2>14, <2>15, <2>16, <2>17, <2>18, <2>19, <2>20 DEF App, AppStep, CallStep
  <1>3. ASSUME NEW c \in Clients, Thread(c) PROVE TypeInv'
    <2> HIDE DEF TypeInv
    <2>0. overlap' \in BOOLEAN
      BY <1>3 DEF Thread, TypeInv
    <2> USE DEF TypeInv, Move
    <2>1. CASE EndServe(c)
      BY <2>0, <2>1 DEF EndServe, Pcs
    <2>2. CASE Unlink(c)
      <3>1. clients' \in Seq(Clients)
        BY <2>2, UnlinkTypes
      <3> QED
        BY <2>0, <2>2, <3>1 DEF Unlink, Pcs
    <2>3. CASE ListRace(c)
      BY <2>0, <2>3 DEF ListRace, Misuse
    <2>4. CASE CountDown(c)
      <3>1. PICK r : r = [reg[c] EXCEPT !.count = num_clients - 1] /\ reg' = [reg EXCEPT ![c] = r]
        BY <2>4 DEF CountDown
      <3>3. num_clients - 1 \in Int /\ reg[c] \in Regs
        OBVIOUS
      <3>2. r \in Regs
        BY <3>1, <3>3, RegTypes
      <3> QED
        BY <2>0, <2>4, <3>1, <3>2 DEF CountDown, Pcs
    <2>5. CASE StoreDown(c)
      BY <2>0, <2>5, FlagTypes, RegTypes DEF StoreDown, Pcs, Regs
    <2>6. CASE FlagRead(c)
      <3>1. PICK r : r = [reg[c] EXCEPT !.flags = flags] /\ reg' = [reg EXCEPT ![c] = r]
        BY <2>6 DEF FlagRead
      <3>2. r \in Regs
        BY <3>1, RegTypes
      <3> QED
        BY <2>0, <2>6, <3>1, <3>2 DEF FlagRead, Pcs
    <2>7. CASE FlagWrite(c)
      BY <2>0, <2>7, FlagTypes, RegTypes DEF FlagWrite, Pcs, Regs
    <2>8. CASE CloseFree(c)
      BY <2>0, <2>8 DEF CloseFree, Pcs
    <2> HIDE DEF TypeInv
    <2> QED
      BY <1>3, <2>1, <2>2, <2>3, <2>4, <2>5, <2>6, <2>7, <2>8 DEF Thread, FreeStep
  <1> QED
    BY <1>1, <1>2, <1>3 DEF Next

LEMMA TypeInvariant == Spec => []TypeInv
  BY TypeInit, TypeStep, PTL DEF Spec

(* The fields keep their types, in both builds and however the threads     *)
(* interleave; lockcnt never falls below zero.                             *)
THEOREM ServerTypeOK == Spec => []TypeOK
  <1>1. TypeInv => TypeOK
    <2> SUFFICES ASSUME TypeInv PROVE TypeOK
      OBVIOUS
    <2> USE DEF TypeInv
    <2>1. lockcnt \in 0..MaxLock
      BY ServerAssumption
    <2>2. Range(clients) \subseteq Clients
      BY RangeOfSeq, ElementOfSeq, LenProperties DEF Range
    <2>3. {trans, srvsock, closing, bad, overlap} \subseteq BOOLEAN
      OBVIOUS
    <2> QED
      BY <2>1, <2>2, <2>3 DEF TypeOK
  <1> QED
    BY <1>1, TypeInvariant, PTL

-----------------------------------------------------------------------------
(* ServeInv, part by part.                                                 *)

(* A step that neither links, unlinks, accepts nor ends a client.          *)
LEMMA ListFrame ==
    ASSUME ListInv, UNCHANGED clients,
           \A c \in Clients : Bound(c)' <=> Bound(c),
           at = "link" \/ at' = "link" => UNCHANGED <<at, cli>>,
           at = "link" => cli \in Clients
    PROVE  ListInv'
  BY DEF ListInv, Listed

LEMMA LockFrame ==
    ASSUME LockInv, UNCHANGED <<lockcnt, view>>,
           \A c \in Clients : At(c, "serving")' => At(c, "serving"),
           srvsock' => srvsock,
           at' \in {"unlock", "clear", "free"} => ~srvsock'
    PROVE  LockInv'
  BY DEF LockInv

(* A step of a client's thread, other than to leave the list, in any place *)
(* of the walk.                                                            *)
LEMMA WalkFrame ==
    ASSUME WalkInv, UNCHANGED <<at, cli, nxt, clients>>,
           \A c \in Clients : At(c, "serving")' => At(c, "serving")
    PROVE  WalkInv'
  BY DEF WalkInv, Ahead, Listed

(* A step of a call that is not a stop, after the client is on the list    *)
(* or when it will not be.                                                 *)
LEMMA QuietCallServes ==
    ASSUME ListInv, WalkInv, LockInv,
           at \notin Stops \cup {"link"}, at' \notin Stops \cup {"link"},
           UNCHANGED <<lockcnt, view, clients, thread, srvsock>>
    PROVE  ListInv' /\ WalkInv' /\ LockInv'
  <1>1. ListInv'
    BY ListFrame DEF Bound
  <1>2. WalkInv'
    BY DEF WalkInv, Stops
  <1>3. LockInv'
    BY LockFrame DEF At, Stops
  <1> QED
    BY <1>1, <1>2, <1>3

(* A step of the walk that leaves the list and the threads alone.          *)
LEMMA StopServes ==
    ASSUME ListInv, WalkInv, LockInv,
           at # "link", at' # "link",
           UNCHANGED <<lockcnt, view, clients, thread>>, srvsock' => srvsock,
           at' \in {"unlock", "clear", "free"} => ~srvsock'
    PROVE  ListInv' /\ LockInv'
  <1>1. ListInv'
    BY ListFrame DEF Bound
  <1>2. LockInv'
    BY LockFrame DEF At
  <1> QED
    BY <1>1, <1>2

(* nbdserv_process() takes a connection: the client is not on the list yet *)
(* and its thread may serve, under the lock that the server's socket says  *)
(* is held.                                                                *)
LEMMA AcceptServes ==
    ASSUME ~Posix, TypeInv, ListInv, WalkInv, LockInv, NEW c \in Clients, Accept(c)
    PROVE  ListInv' /\ WalkInv' /\ LockInv'
  <1>1. /\ at = "idle" /\ srvsock /\ ~Bound(c)
        /\ at' = "link" /\ cli' = c
        /\ thread' = [thread EXCEPT ![c] = "serving"]
        /\ UNCHANGED <<clients, srvsock, lockcnt, view>>
    BY DEF Accept, Allocated, MayProcess, Goto, Bound, drvvars, srvvars
  <1>2. Bound(c)' /\ \A d \in Clients : d # c => (Bound(d)' <=> Bound(d))
    BY <1>1 DEF Bound, TypeInv
  <1>3. ~Listed(c) /\ \A d \in Clients : Listed(d)' <=> Listed(d)
    BY <1>1 DEF ListInv, Listed
  <1>4. ListInv'
    <2>1. Distinct(clients)'
      BY <1>1 DEF ListInv
    <2> QED
      BY <1>1, <1>2, <1>3, <2>1 DEF ListInv
  <1>5. WalkInv'
    BY <1>1 DEF WalkInv
  <1>6. LockInv'
    BY <1>1 DEF LockInv
  <1> QED
    BY <1>4, <1>5, <1>6

(* The thread could not be created: nothing is served.                     *)
LEMMA CreateFailsServes ==
    ASSUME ~Posix, TypeInv, ListInv, WalkInv, LockInv, NEW c \in Clients, CreateFails(c)
    PROVE  ListInv' /\ WalkInv' /\ LockInv'
  <1>1. /\ at = "idle" /\ ~Bound(c)
        /\ at' = "undo"
        /\ thread' = [thread EXCEPT ![c] = "none"]
        /\ UNCHANGED <<clients, srvsock, lockcnt, view>>
    BY DEF CreateFails, Allocated, MayProcess, Goto, Bound, drvvars, srvvars
  <1>2. \A d \in Clients : /\ Bound(d)' <=> Bound(d)
                           /\ At(d, "serving")' => At(d, "serving")
    BY <1>1 DEF Bound, At, TypeInv
  <1>3. ListInv'
    BY <1>1, <1>2, ListFrame DEF Bound
  <1>4. WalkInv'
    BY <1>1 DEF WalkInv
  <1>5. LockInv'
    BY <1>1, <1>2, LockFrame DEF At
  <1> QED
    BY <1>3, <1>4, <1>5

(* The client goes to the end of the list.                                 *)
LEMMA LinkServes ==
    ASSUME TypeInv, ListInv, WalkInv, LockInv, Link
    PROVE  ListInv' /\ WalkInv' /\ LockInv'
  <1>1. /\ at = "link" /\ at' = "count" /\ cli \in Clients
        /\ clients' = Append(clients, cli)
        /\ UNCHANGED <<thread, srvsock, lockcnt, view>>
    BY DEF Link, Goto, drvvars, connvars, TypeInv
  <1>2. Distinct(clients) /\ cli \notin Range(clients) /\ clients \in Seq(Clients)
    BY <1>1 DEF ListInv, Listed, TypeInv
  <1>3. Distinct(clients') /\ Range(clients') = Range(clients) \cup {cli}
    BY <1>1, <1>2, AppendDistinct
  <1>4. \A c \in Clients : Listed(c)' <=> Listed(c) \/ c = cli
    BY <1>3 DEF Listed
  <1>5. \A c \in Clients : Bound(c)' <=> Bound(c)
    BY <1>1 DEF Bound
  <1>6. ListInv'
    BY <1>1, <1>3, <1>4, <1>5 DEF ListInv
  <1>7. WalkInv'
    BY <1>1 DEF WalkInv
  <1>8. LockInv'
    BY <1>1, LockFrame DEF At
  <1> QED
    BY <1>6, <1>7, <1>8

(* nbdserv_stop() begins with the first client, so everybody is ahead.     *)
LEMMA StopBeginServes ==
    ASSUME TypeInv, ListInv, WalkInv, LockInv, NEW close, StopBegin(close)
    PROVE  ListInv' /\ WalkInv' /\ LockInv'
  <1>1. /\ at = "idle" /\ at' = "walk"
        /\ nxt' = IF clients = <<>> THEN HEAD ELSE Head(clients)
        /\ UNCHANGED <<thread, clients, srvsock, lockcnt, view>>
    BY DEF StopBegin, Goto, drvvars, srvvars, connvars
  <1>2. ListInv' /\ LockInv'
    BY <1>1, StopServes
  <1>3. ASSUME NEW c \in Clients, At(c, "serving")
        PROVE  nxt' # HEAD /\ Ahead(c)'
    <2>1. PICK j \in DOMAIN clients : clients[j] = c
      BY <1>1, <1>3 DEF ListInv, Bound, At, Listed, Range
    <2>2. DOMAIN clients = 1..Len(clients) /\ Len(clients) \in Nat /\ clients \in Seq(Clients)
      BY LenProperties DEF TypeInv
    <2>3. 1 \in DOMAIN clients /\ 1 <= j /\ clients # <<>>
      BY <2>1, <2>2
    <2>4. nxt' = clients[1] /\ clients[1] \in Clients
      BY <1>1, <2>2, <2>3, HeadTailProperties, ElementOfSeq
    <2>5. clients'[1] = nxt' /\ clients'[j] = c /\ DOMAIN clients' = DOMAIN clients
      BY <1>1, <2>1, <2>4
    <2> QED
      BY <2>3, <2>4, <2>5, ServerAssumption DEF Ahead
  <1>4. WalkInv'
    BY <1>1, <1>3 DEF WalkInv, At
  <1> QED
    BY <1>2, <1>4

(* The walk comes to a client: who was ahead is this one or is ahead of it *)
(* still.                                                                  *)
LEMMA WalkServes ==
    ASSUME TypeInv, ListInv, WalkInv, LockInv, Walk, ~bad'
    PROVE  ListInv' /\ WalkInv' /\ LockInv'
  <1> USE DEF Goto, drvvars, srvvars, connvars
  <1>1. CASE nxt = HEAD
    <2>1. /\ at = "walk" /\ at' = "shut"
          /\ UNCHANGED <<thread, clients, srvsock, lockcnt, view>>
      BY <1>1 DEF Walk
    <2>2. WalkInv'
      BY <1>1, <2>1 DEF WalkInv, At
    <2> QED
      BY <2>1, <2>2, StopServes
  <1>2. CASE nxt # HEAD
    <2>1. /\ at = "walk" /\ at' = "hangup" /\ Listed(nxt)
          /\ cli' = nxt /\ nxt' = Successor(nxt)
          /\ UNCHANGED <<thread, clients, srvsock, lockcnt, view>>
      BY <1>2 DEF Walk, Misuse
    <2>2. ListInv' /\ LockInv'
      BY <2>1, StopServes
    <2>3. ASSUME NEW c \in Clients, At(c, "serving"), c # nxt
          PROVE  nxt' # HEAD /\ Ahead(c)'
      <3>1. PICK i, j \in DOMAIN clients : i <= j /\ clients[i] = nxt /\ clients[j] = c
        BY <1>2, <2>1, <2>3 DEF WalkInv, Ahead
      <3>2. DOMAIN clients = 1..Len(clients) /\ Len(clients) \in Nat
        BY LenProperties DEF TypeInv
      <3>3. i + 1 <= j /\ i + 1 \in DOMAIN clients /\ i # Len(clients)
        BY <2>3, <3>1, <3>2
      <3>4. (CHOOSE k \in DOMAIN clients : clients[k] = nxt) = i
        BY <3>1 DEF ListInv, Distinct
      <3>5. nxt' = clients[i + 1]
        BY <2>1, <3>3, <3>4 DEF Successor
      <3>6. nxt' \in Clients
        BY <3>2, <3>3, <3>5, ElementOfSeq DEF TypeInv
      <3> QED
        BY <2>1, <3>1, <3>3, <3>5, <3>6, ServerAssumption DEF Ahead
    <2>4. WalkInv'
      BY <2>1, <2>3 DEF WalkInv, At
    <2> QED
      BY <2>2, <2>4
  <1> QED
    BY <1>1, <1>2

(* A thread takes its client off the list: the order of the others stays,  *)
(* and if the walk was to come to this very client, it will not.           *)
LEMMA UnlinkServes ==
    ASSUME TypeInv, ListInv, WalkInv, LockInv, NEW c \in Clients, Unlink(c), ~bad'
    PROVE  ListInv' /\ WalkInv' /\ LockInv'
  <1>1. /\ At(c, "unlink") /\ Listed(c) /\ thread' = [thread EXCEPT ![c] = "count"]
        /\ UNCHANGED <<at, cli, nxt, srvsock, lockcnt, view>>
    BY DEF Unlink, Move, drvvars, appvars
  <1>2. PICK i \in DOMAIN clients : clients[i] = c /\ clients' = RemoveAt(clients, i)
    BY <1>1 DEF Unlink
  <1>3. Distinct(clients) /\ clients \in Seq(Clients)
    BY DEF ListInv, TypeInv
  <1>4. /\ Distinct(clients')
        /\ Range(clients') = Range(clients) \ {c}
        /\ \A j, k \in DOMAIN clients :
               j <= k /\ j # i /\ k # i =>
                   \E a, b \in DOMAIN clients' :
                       a <= b /\ clients'[a] = clients[j] /\ clients'[b] = clients[k]
    BY <1>2, <1>3, RemoveAtOrder, RemoveAtDistinct
  <1>5. \A d : Listed(d)' <=> Listed(d) /\ d # c
    BY <1>4 DEF Listed
  <1>6. /\ \A d \in Clients : Bound(d)' <=> (Bound(d) /\ d # c)
        /\ \A d \in Clients : At(d, "serving")' => At(d, "serving") /\ d # c
    BY <1>1 DEF Bound, At, TypeInv
  <1>7. ListInv'
    <2>1. at = "link" => cli \in Clients /\ cli # c
      BY <1>1 DEF ListInv, TypeInv
    <2>2. ASSUME NEW d \in Clients, Listed(d)' PROVE Bound(d)'
      <3>1. Listed(d) /\ d # c
        BY <1>5, <2>2
      <3>2. Bound(d)
        BY <3>1 DEF ListInv
      <3> QED
        BY <1>6, <3>1, <3>2 DEF Bound
    <2>3. ASSUME NEW d \in Clients, Bound(d)' PROVE Listed(d)' \/ (at' = "link" /\ cli' = d)
      <3>1. Bound(d) /\ d # c
        BY <1>6, <2>3 DEF Bound
      <3>2. Listed(d) \/ (at = "link" /\ cli = d)
        BY <3>1 DEF ListInv
      <3> QED
        BY <1>1, <1>5, <3>1, <3>2
    <2>4. at' = "link" => ~Listed(cli)' /\ Bound(cli)'
      BY <1>1, <1>5, <1>6, <2>1 DEF ListInv, Listed, Bound
    <2> QED
      BY <1>4, <2>2, <2>3, <2>4 DEF ListInv
  <1>8. ASSUME NEW d \in Clients, d # c, Listed(nxt)', Ahead(d)
        PROVE  Ahead(d)'
    <2>1. PICK j, k \in DOMAIN clients : j <= k /\ clients[j] = nxt /\ clients[k] = d
      BY <1>8 DEF Ahead
    <2>2. j # i /\ k # i
      BY <1>1, <1>2, <1>5, <1>8, <2>1 DEF Listed
    <2>3. PICK a, b \in DOMAIN clients' : a <= b /\ clients'[a] = nxt /\ clients'[b] = d
      BY <1>4, <2>1, <2>2
    <2> QED
      BY <1>1, <2>3 DEF Ahead
  <1>9. WalkInv'
    BY <1>1, <1>5, <1>6, <1>8 DEF WalkInv, At
  <1>10. LockInv'
    BY <1>1, <1>6, LockFrame DEF LockInv, At
  <1> QED
    BY <1>7, <1>9, <1>10

LEMMA ServeInit == Init => ServeInv
  <1> SUFFICES ASSUME Init PROVE ListInv /\ WalkInv /\ LockInv
    BY DEF ServeInv
  <1>1. clients = <<>> /\ at = "idle" /\ lockcnt = 0 /\ srvsock = FALSE
    BY DEF Init, LockInit
  <1>2. \A c \in Clients : ~Bound(c) /\ ~At(c, "serving") /\ ~Listed(c)
    BY <1>1 DEF Init, Bound, At, Listed, Range
  <1>3. ListInv
    BY <1>1, <1>2 DEF ListInv, Distinct
  <1> QED
    BY <1>1, <1>2, <1>3 DEF WalkInv, LockInv

(* The application's steps.                                                *)
LEMMA AppServes ==
    ASSUME ~Posix, TypeInv, ListInv, WalkInv, LockInv, App, ~bad'
    PROVE  ListInv' /\ WalkInv' /\ LockInv'
  <1> USE DEF Goto, drvvars, srvvars, connvars, appvars
  <1>1. CASE ChangeDrive
    <2>1. /\ at = "idle" /\ lockcnt = 0 /\ lockcnt' = 0
          /\ UNCHANGED <<at, cli, nxt, clients, thread, srvsock>>
      BY <1>1 DEF ChangeDrive, Change
    <2>2. ListInv'
      BY <2>1, ListFrame DEF Bound
    <2>3. WalkInv' /\ LockInv'
      BY <2>1 DEF WalkInv, LockInv, At
    <2> QED
      BY <2>2, <2>3
  <1>2. CASE Start
    <2>1. /\ at = "idle" /\ lockcnt' = lockcnt + 1 /\ view' # {}
          /\ UNCHANGED <<at, cli, nxt, clients, thread>>
      BY <1>2 DEF Start, Lock
    <2>2. ListInv'
      BY <2>1, ListFrame DEF Bound
    <2>3. lockcnt' > 0
      BY <2>1 DEF TypeInv
    <2>4. WalkInv' /\ LockInv'
      BY <2>1, <2>3 DEF WalkInv, LockInv
    <2> QED
      BY <2>2, <2>4
  <1>3. CASE AcceptNoMemory
    BY <1>3, QuietCallServes DEF AcceptNoMemory, MayProcess, Stops
  <1>4. CASE FreeTransport
    <2>1. /\ at \in {"idle", "free"} /\ at' = "idle"
          /\ UNCHANGED <<cli, nxt, clients, thread, srvsock, lockcnt, view>>
      BY <1>4 DEF FreeTransport
    <2>2. ListInv' /\ LockInv'
      BY <2>1, StopServes
    <2>3. WalkInv'
      BY <2>1 DEF WalkInv
    <2> QED
      BY <2>2, <2>3
  <1>5. ASSUME NEW c \in Clients, Accept(c) PROVE ListInv' /\ WalkInv' /\ LockInv'
    BY <1>5, AcceptServes
  <1>6. ASSUME NEW c \in Clients, CreateFails(c) PROVE ListInv' /\ WalkInv' /\ LockInv'
    BY <1>6, CreateFailsServes
  <1>7. ASSUME NEW close \in BOOLEAN, StopBegin(close) PROVE ListInv' /\ WalkInv' /\ LockInv'
    BY <1>7, StopBeginServes
  <1>8. CASE Undo
    BY <1>8, QuietCallServes DEF Undo, Stops
  <1>9. CASE Link
    BY <1>9, LinkServes
  <1>10. CASE CountUp
    BY <1>10, QuietCallServes DEF CountUp, Stops
  <1>11. CASE StoreUp
    BY <1>11, QuietCallServes DEF StoreUp, Stops
  <1>12. CASE Connect
    BY <1>12, QuietCallServes DEF Connect, Stops
  <1>13. CASE SetActive
    BY <1>13, QuietCallServes DEF SetActive, Stops
  <1>14. CASE Walk
    BY <1>14, WalkServes
  <1>15. CASE Hangup
    <2>1. /\ at = "hangup" /\ at' = "join"
          /\ UNCHANGED <<cli, nxt, clients, thread, srvsock, lockcnt, view>>
      BY <1>15 DEF Hangup
    <2>2. WalkInv'
      BY <2>1 DEF WalkInv, At, Ahead, Listed
    <2> QED
      BY <2>1, <2>2, StopServes
  <1>16. CASE Join
    <2>1. /\ at = "join" /\ at' = "wait"
          /\ UNCHANGED <<cli, nxt, clients, thread, srvsock, lockcnt, view>>
      BY <1>16 DEF Join
    <2>2. WalkInv'
      BY <2>1 DEF WalkInv, At, Ahead, Listed
    <2> QED
      BY <2>1, <2>2, StopServes
  <1>17. CASE Joined
    <2>1. /\ at = "wait" /\ at' = "walk" /\ thread[cli] = "done"
          /\ UNCHANGED <<cli, nxt, clients, thread, srvsock, lockcnt, view>>
      BY <1>17 DEF Joined
    <2>2. WalkInv'
      BY <2>1 DEF WalkInv, At, Ahead, Listed
    <2> QED
      BY <2>1, <2>2, StopServes
  <1>18. CASE Shut
    <2>1. /\ at = "shut" /\ at' = "unlock" /\ srvsock' = FALSE
          /\ UNCHANGED <<cli, nxt, clients, thread, lockcnt, view>>
      BY <1>18 DEF Shut
    <2>2. WalkInv'
      BY <2>1 DEF WalkInv, At
    <2> QED
      BY <2>1, <2>2, StopServes
  <1>19. CASE GiveBack
    <2>1. /\ at = "unlock" /\ at' \in {"clear", "free", "idle"}
          /\ UNCHANGED <<cli, nxt, clients, thread, srvsock, view>>
          /\ lockcnt' > 0 => lockcnt > 0
      BY <1>19 DEF GiveBack, Unlock, Stopped, TypeInv
    <2>2. ~srvsock /\ \A c \in Clients : ~At(c, "serving")
      BY <2>1 DEF LockInv, WalkInv
    <2>3. ListInv'
      BY <2>1, ListFrame DEF Bound
    <2>4. WalkInv' /\ LockInv'
      BY <2>1, <2>2 DEF WalkInv, LockInv, At
    <2> QED
      BY <2>3, <2>4
  <1>20. CASE ClearFlags
    <2>1. /\ at = "clear" /\ at' \in {"free", "idle"}
          /\ UNCHANGED <<cli, nxt, clients, thread, srvsock, lockcnt, view>>
      BY <1>20 DEF ClearFlags, Stopped
    <2>2. ~srvsock /\ \A c \in Clients : ~At(c, "serving")
      BY <2>1 DEF LockInv, WalkInv
    <2>3. WalkInv'
      BY <2>1, <2>2 DEF WalkInv, At
    <2> QED
      BY <2>1, <2>2, <2>3, StopServes
  <1> QED
    BY <1>1, <1>2, <1>3, <1>4, <1>5, <1>6, <1>7, <1>8, <1>9, <1>10, <1>11, <1>12,
       <1>13, <1>14, <1>15, <1>16, <1>17, <1>18, <1>19, <1>20 DEF App, AppStep, CallStep

(* The steps of a client's thread.  But for the one that takes the client  *)
(* off the list, they only come closer to the end of the thread.           *)
LEMMA MoveServes ==
    ASSUME TypeInv, ListInv, WalkInv, LockInv, NEW c \in Clients,
           NEW pc, Move(c, pc), pc # "serving",
           (pc = "unlink") <=> Bound(c),
           UNCHANGED <<at, cli, nxt, clients, srvsock, lockcnt, view>>
    PROVE  ListInv' /\ WalkInv' /\ LockInv'
  <1>1. /\ \A d \in Clients : Bound(d)' <=> Bound(d)
        /\ \A d \in Clients : At(d, "serving")' => At(d, "serving")
    BY DEF Bound, At, Move, TypeInv
  <1>2. ListInv'
    BY <1>1, ListFrame DEF TypeInv, Bound
  <1>3. WalkInv'
    BY <1>1, WalkFrame DEF At
  <1>4. LockInv'
    BY <1>1, LockFrame DEF At, LockInv
  <1> QED
    BY <1>2, <1>3, <1>4

LEMMA ThreadServes ==
    ASSUME TypeInv, ListInv, WalkInv, LockInv, NEW c \in Clients, Thread(c), ~bad'
    PROVE  ListInv' /\ WalkInv' /\ LockInv'
  <1> USE DEF drvvars, appvars, srvvars
  <1>1. CASE Unlink(c)
    BY <1>1, UnlinkServes
  <1>2. CASE EndServe(c)
    BY <1>2, MoveServes DEF EndServe, At, Bound
  <1>3. CASE CountDown(c)
    BY <1>3, MoveServes DEF CountDown, At, Bound
  <1>4. CASE StoreDown(c)
    BY <1>4, MoveServes DEF StoreDown, At, Bound
  <1>5. CASE FlagRead(c)
    BY <1>5, MoveServes DEF FlagRead, At, Bound
  <1>6. CASE FlagWrite(c)
    BY <1>6, MoveServes DEF FlagWrite, At, Bound
  <1>7. CASE CloseFree(c)
    BY <1>7, MoveServes DEF CloseFree, At, Bound
  <1>8. CASE ListRace(c)
    BY <1>8 DEF ListRace, Misuse
  <1> QED
    BY <1>1, <1>2, <1>3, <1>4, <1>5, <1>6, <1>7, <1>8 DEF Thread, FreeStep

LEMMA ServeStep ==
    ASSUME ~Posix, TypeInv, ServeInv, [Next]_vars
    PROVE  ServeInv'
  <1>1. CASE UNCHANGED vars
    BY <1>1 DEF vars, drvvars, appvars, srvvars, connvars, ServeInv, ListInv, WalkInv, LockInv,
                Listed, Bound, At, Ahead
  <1>2. CASE App
    BY <1>2, AppServes DEF App, ServeInv
  <1>3. ASSUME NEW c \in Clients, Thread(c) PROVE ServeInv'
    BY <1>3, ThreadServes DEF Thread, ServeInv
  <1> QED
    BY <1>1, <1>2, <1>3 DEF Next

LEMMA ServeInvariant ==
    ASSUME ~Posix
    PROVE  Spec => [](TypeInv /\ ServeInv)
  <1>1. TypeInv /\ ServeInv /\ [Next]_vars => ServeInv'
    BY ServeStep
  <1> QED
    BY <1>1, ServeInit, TypeInvariant, PTL DEF Spec

(* A thread that serves requests reads the layout of a locked drive,       *)
(* however the other threads and the calls interleave, for any number of   *)
(* clients.  In the POSIX build a thread goes on serving a client that was *)
(* never put on the list, so that a stop does not wait for it.             *)
THEOREM ServedOnlyUnderLock ==
    ASSUME ~Posix
    PROVE  Spec => []ServedUnderLock
  <1>1. TypeInv /\ ServeInv => ServedUnderLock
    BY DEF ServeInv, LockInv, ServedUnderLock
  <1> QED
    BY <1>1, ServeInvariant, PTL

-----------------------------------------------------------------------------
(* AloneInv: the calls, while no thread is freeing its client.             *)

Calm == \A c \in Clients : ~Ending(c)

CallCount ==
    /\ at \in {"count", "store"} => num_clients = Len(clients) - 1
    /\ at = "store" => read.count = Len(clients)
    /\ at \notin {"count", "store"} => num_clients = Len(clients)

CallFlags ==
    /\ at \in {"activate", "clear"} => read.flags = flags
    /\ at \in {"count", "store", "connect", "activate"} => (flags.active <=> Len(clients) > 1)
    /\ at \notin {"count", "store", "connect", "activate"} => (flags.active <=> Len(clients) > 0)
    /\ at \notin {"unlock", "clear"} => (flags.running <=> srvsock)
    /\ at \in {"unlock", "clear"} => flags.running
    /\ at \in Calls \cup {"walk", "hangup", "join", "wait", "shut"} => srvsock
    /\ at = "unlock" => lockcnt > 0
    /\ ~srvsock => Len(clients) = 0

(* What the invariants say of the calls alone.                             *)
LEMMA CalmCounts ==
    /\ Calm /\ CountInv => CallCount
    /\ Calm' /\ CallCount' => CountInv'
  <1>1. ASSUME Calm PROVE \A c \in Clients : ~Lowering(c) /\ ~At(c, "store")
    BY <1>1 DEF Calm, Ending, Lowering, At
  <1>2. ASSUME Calm' PROVE \A c \in Clients : ~Lowering(c)' /\ ~At(c, "store")'
    BY <1>2 DEF Calm, Ending, Lowering, At
  <1>3. ASSUME Calm, CountInv PROVE CallCount
    BY <1>1, <1>3 DEF CountInv, CallCount
  <1>4. ASSUME Calm', CallCount' PROVE CountInv'
    BY <1>2, <1>4 DEF CountInv, CallCount, Lowering, At
  <1> QED
    BY <1>3, <1>4

LEMMA CalmFlags ==
    /\ Calm /\ FlagInv => CallFlags
    /\ Calm' /\ CallFlags' => FlagInv'
  <1>1. ASSUME Calm PROVE \A c \in Clients : ~Lowering(c) /\ ~Clearing(c) /\ ~At(c, "clear")
    BY <1>1 DEF Calm, Ending, Lowering, Clearing, At
  <1>2. ASSUME Calm' PROVE \A c \in Clients : ~Lowering(c)' /\ ~Clearing(c)' /\ ~At(c, "clear")'
    BY <1>2 DEF Calm, Ending, Lowering, Clearing, At
  <1>3. ASSUME Calm, FlagInv PROVE CallFlags
    BY <1>1, <1>3 DEF FlagInv, CallFlags
  <1>4. ASSUME Calm', CallFlags' PROVE FlagInv'
    BY <1>2, <1>4 DEF FlagInv, CallFlags, Lowering, Clearing, At
  <1> QED
    BY <1>3, <1>4

(* A step of the application that does not overlap: no thread is ending,   *)
(* because what the application waits for is a thread that has ended.      *)
LEMMA AppIsCalm ==
    ASSUME TypeInv, App, ~overlap'
    PROVE  Calm /\ Calm'
  <1>1. \A c \in Clients : Ending(c) => WaitsFor(c)
    BY DEF App
  <1>2. at = "wait" => Joined
    BY DEF App, AppStep, CallStep, ChangeDrive, Start, AcceptNoMemory, FreeTransport, Accept,
           CreateFails, MayProcess, StopBegin, Undo, Link, CountUp, StoreUp, Connect, SetActive,
           Walk, Hangup, Join, Shut, GiveBack, ClearFlags
  <1>3. Calm
    BY <1>1, <1>2 DEF Calm, WaitsFor, Joined, Ending
  <1>4. \/ UNCHANGED thread
        \/ \E c \in Clients, pc \in {"serving", "none"} : thread' = [thread EXCEPT ![c] = pc]
    BY DEF App, AppStep, CallStep, ChangeDrive, Start, AcceptNoMemory, FreeTransport, Accept,
           CreateFails, StopBegin, Undo, Link, CountUp, StoreUp, Connect, SetActive, Misuse,
           Walk, Hangup, Join, Joined, Shut, GiveBack, ClearFlags, connvars
  <1>5. Calm'
    BY <1>3, <1>4 DEF Calm, Ending, TypeInv
  <1> QED
    BY <1>3, <1>5

(* Nobody is served that is not on the list.                               *)
LEMMA CalmList ==
    ASSUME TypeInv, ListInv, Calm, Len(clients) = 0
    PROVE  \A c \in Clients : ~Listed(c) /\ (at # "link" => thread[c] \in {"none", "done"})
  <1>1. \A c \in Clients : ~Listed(c)
    BY LenProperties DEF TypeInv, Listed, Range
  <1> QED
    BY <1>1 DEF ListInv, Bound, Calm, Ending, TypeInv, Pcs

(* What holds between the steps of the calls, and how the flags' bits are  *)
(* read after one of them was set or cleared.                              *)
CallInv == MemoryInv /\ CallCount /\ CallFlags

LEMMA BitValues ==
    ASSUME NEW f \in FlagSet
    PROVE  /\ LET g == [f EXCEPT !.error = TRUE] IN g.running = f.running /\ g.active = f.active
           /\ LET g == [f EXCEPT !.error = FALSE] IN g.running = f.running /\ g.active = f.active
           /\ LET g == [f EXCEPT !.active = TRUE] IN g.running = f.running /\ g.active = TRUE
           /\ LET g == [f EXCEPT !.active = FALSE] IN g.running = f.running /\ g.active = FALSE
           /\ LET g == [f EXCEPT !.running = TRUE, !.error = FALSE]
              IN  g.running = TRUE /\ g.active = f.active
           /\ LET g == [f EXCEPT !.running = FALSE, !.active = FALSE]
              IN  g.running = FALSE /\ g.active = FALSE
  BY DEF FlagSet

(* The calls outside a stop.                                               *)
LEMMA ProcessAlone ==
    ASSUME ~Posix, TypeInv, ListInv, LockInv, Calm, CallInv, ~bad,
           \/ ChangeDrive \/ Start \/ AcceptNoMemory
           \/ \E c \in Clients : Accept(c) \/ CreateFails(c)
           \/ Undo \/ Link \/ CountUp \/ StoreUp \/ Connect \/ SetActive
    PROVE  ~bad' /\ CallInv'
  <1> USE DEF Goto, drvvars, srvvars, connvars, appvars, CallInv
  <1>0. Len(clients) \in Nat /\ num_clients \in Int /\ flags \in FlagSet
    BY LenProperties DEF TypeInv
  <1>1. CASE ChangeDrive
    <2>1. at = "idle" /\ at' = "idle" /\ ~bad'
      BY <1>1 DEF ChangeDrive
    <2>2. UNCHANGED <<appvars, srvvars, connvars>>
      BY <1>1 DEF ChangeDrive
    <2>3. MemoryInv'
      BY <2>1, <2>2 DEF MemoryInv, Live, Listed, At
    <2> QED
      BY <2>1, <2>2, <2>3 DEF CallCount, CallFlags, Calls
  <1>2. CASE Start
    <2>1. /\ at = "idle" /\ at' = "idle" /\ ~bad' /\ ~flags.running /\ num_clients' \in {0, num_clients}
          /\ UNCHANGED <<appvars, trans, clients, connvars>>
      BY <1>2 DEF Start
    <2>2. Len(clients) = 0
      BY <2>1 DEF CallFlags
    <2>3. MemoryInv'
      BY <2>1 DEF MemoryInv, Live, Listed, At
    <2>4. flags'.active = flags.active /\ (flags'.running <=> srvsock')
      <3>1. CASE srvsock' = TRUE /\ flags' = [flags EXCEPT !.running = TRUE, !.error = FALSE]
        BY <1>0, <3>1, BitValues
      <3>2. CASE srvsock' = FALSE /\ flags' = [flags EXCEPT !.error = FALSE]
        BY <1>0, <2>1, <3>2, BitValues
      <3> QED
        BY <1>2, <3>1, <3>2 DEF Start
    <2>5. CallCount' /\ CallFlags'
      BY <2>1, <2>2, <2>4 DEF CallCount, CallFlags, Calls
    <2> QED
      BY <2>1, <2>3, <2>5
  <1>3. CASE AcceptNoMemory
    <2>1. /\ at = "idle" /\ at' = "idle" /\ ~bad'
          /\ flags' = [flags EXCEPT !.error = TRUE]
          /\ UNCHANGED <<appvars, trans, clients, num_clients, srvsock, connvars>>
      BY <1>3 DEF AcceptNoMemory, MayProcess
    <2>2. flags'.active = flags.active /\ flags'.running = flags.running
      BY <1>0, <2>1, BitValues
    <2>3. MemoryInv'
      BY <2>1 DEF MemoryInv, Live, Listed, At
    <2>4. CallCount' /\ CallFlags'
      BY <2>1, <2>2 DEF CallCount, CallFlags, Calls
    <2> QED
      BY <2>1, <2>3, <2>4
  <1>4. ASSUME NEW c \in Clients, Accept(c) PROVE ~bad' /\ CallInv'
    <2>1. /\ at = "idle" /\ at' = "link" /\ ~bad' /\ srvsock /\ trans /\ cli' = c
          /\ memory' = [memory EXCEPT ![c] = "live"]
          /\ sock' = [sock EXCEPT ![c] = TRUE]
          /\ thread' = [thread EXCEPT ![c] = "serving"]
          /\ UNCHANGED <<srvvars, nxt, read>>
      BY <1>4 DEF Accept, Allocated, MayProcess
    <2>2. MemoryInv'
      BY <2>1 DEF MemoryInv, Live, Listed, At, TypeInv
    <2>3. CallCount' /\ CallFlags'
      BY <2>1 DEF CallCount, CallFlags
    <2> QED
      BY <2>1, <2>2, <2>3
  <1>5. ASSUME NEW c \in Clients, CreateFails(c) PROVE ~bad' /\ CallInv'
    <2>1. /\ at = "idle" /\ at' = "undo" /\ ~bad' /\ srvsock /\ trans /\ cli' = c
          /\ memory' = [memory EXCEPT ![c] = "live"]
          /\ sock' = [sock EXCEPT ![c] = TRUE]
          /\ thread' = [thread EXCEPT ![c] = "none"]
          /\ UNCHANGED <<srvvars, nxt, read>>
      BY <1>5 DEF CreateFails, Allocated, MayProcess
    <2>2. MemoryInv'
      BY <2>1 DEF MemoryInv, Live, Listed, At, TypeInv
    <2>3. CallCount' /\ CallFlags'
      BY <2>1 DEF CallCount, CallFlags
    <2> QED
      BY <2>1, <2>2, <2>3
  <1>6. CASE Undo
    <2>1. /\ at = "undo" /\ at' = "idle" /\ bad' = ~Live(cli) /\ cli \in Clients
          /\ flags' = [flags EXCEPT !.error = TRUE]
          /\ sock' = [sock EXCEPT ![cli] = FALSE]
          /\ memory' = [memory EXCEPT ![cli] = "freed"]
          /\ UNCHANGED <<cli, nxt, read, trans, clients, num_clients, srvsock, thread>>
      BY <1>6 DEF Undo, TypeInv
    <2>2. ~bad'
      BY <2>1 DEF MemoryInv
    <2>3. flags'.active = flags.active /\ flags'.running = flags.running
      BY <1>0, <2>1, BitValues
    <2>4. MemoryInv'
      BY <2>1 DEF MemoryInv, Live, Listed, At, TypeInv
    <2>5. CallCount' /\ CallFlags'
      BY <2>1, <2>3 DEF CallCount, CallFlags, Calls
    <2> QED
      BY <2>2, <2>4, <2>5
  <1>7. CASE Link
    <2>1. /\ at = "link" /\ at' = "count" /\ bad' = ~Live(cli) /\ cli \in Clients
          /\ clients' = Append(clients, cli)
          /\ UNCHANGED <<cli, nxt, read, flags, trans, num_clients, srvsock, memory, sock, thread>>
      BY <1>7 DEF Link, TypeInv
    <2>2. Bound(cli) /\ Distinct(clients) /\ cli \notin Range(clients) /\ clients \in Seq(Clients)
      BY <2>1 DEF ListInv, Listed, TypeInv
    <2>3. Range(clients') = Range(clients) \cup {cli} /\ Len(clients') = Len(clients) + 1
      BY <2>1, <2>2, AppendDistinct
    <2>4. ~bad'
      BY <2>1, <2>2 DEF MemoryInv, Bound
    <2>5. MemoryInv'
      BY <2>1, <2>3 DEF MemoryInv, Live, Listed, At, TypeInv
    <2>6. CallCount' /\ CallFlags'
      BY <1>0, <2>1, <2>3 DEF CallCount, CallFlags, Calls
    <2> QED
      BY <2>4, <2>5, <2>6
  <1>8. CASE CountUp
    <2>1. /\ at = "count" /\ at' = "store" /\ ~bad'
          /\ read' = [read EXCEPT !.count = num_clients + 1]
          /\ UNCHANGED <<cli, nxt, srvvars, connvars>>
      BY <1>8 DEF CountUp
    <2>2. read'.count = num_clients + 1
      BY <2>1 DEF TypeInv, Regs
    <2>3. MemoryInv'
      BY <2>1 DEF MemoryInv, Live, Listed, At
    <2>4. CallCount' /\ CallFlags'
      BY <1>0, <2>1, <2>2 DEF CallCount, CallFlags, Calls
    <2> QED
      BY <2>1, <2>3, <2>4
  <1>9. CASE StoreUp
    <2>1. /\ at = "store" /\ at' = "connect" /\ ~bad' /\ num_clients' = read.count
          /\ UNCHANGED <<cli, nxt, read, flags, trans, clients, srvsock, connvars>>
      BY <1>9 DEF StoreUp
    <2>2. MemoryInv'
      BY <2>1 DEF MemoryInv, Live, Listed, At
    <2>3. CallCount' /\ CallFlags'
      BY <2>1 DEF CallCount, CallFlags, Calls
    <2> QED
      BY <2>1, <2>2, <2>3
  <1>10. CASE Connect
    <2>1. /\ at = "connect" /\ at' = "activate" /\ bad' = ~Live(cli)
          /\ read' = [read EXCEPT !.flags = flags]
          /\ UNCHANGED <<cli, nxt, srvvars, connvars>>
      BY <1>10 DEF Connect
    <2>2. read'.flags = flags
      BY <2>1 DEF TypeInv, Regs
    <2>3. Listed(cli) /\ cli \in Clients
      BY <2>1, ElementOfSeq, LenProperties DEF MemoryInv, TypeInv, Listed, Range
    <2>4. ~bad'
      BY <2>1, <2>3 DEF MemoryInv, ListInv, Bound
    <2>5. MemoryInv'
      BY <2>1 DEF MemoryInv, Live, Listed, At
    <2>6. CallCount' /\ CallFlags'
      BY <2>1, <2>2 DEF CallCount, CallFlags, Calls
    <2> QED
      BY <2>4, <2>5, <2>6
  <1>11. CASE SetActive
    <2>1. /\ at = "activate" /\ at' = "idle" /\ ~bad'
          /\ flags' = [flags EXCEPT !.active = TRUE]
          /\ UNCHANGED <<cli, nxt, trans, clients, num_clients, srvsock, connvars>>
      BY <1>11 DEF SetActive, CallFlags
    <2>2. flags'.active = TRUE /\ flags'.running = flags.running
      BY <1>0, <2>1, BitValues
    <2>3. Len(clients) > 0
      BY <1>0, <2>1, LenProperties DEF MemoryInv, TypeInv, Listed, Range
    <2>4. MemoryInv'
      BY <2>1 DEF MemoryInv, Live, Listed, At
    <2>5. CallCount' /\ CallFlags'
      BY <2>1, <2>2, <2>3 DEF CallCount, CallFlags, Calls
    <2> QED
      BY <2>1, <2>4, <2>5
  <1> QED
    BY <1>1, <1>2, <1>3, <1>4, <1>5, <1>6, <1>7, <1>8, <1>9, <1>10, <1>11

(* Stopping: the walk comes only to clients whose threads serve, the list  *)
(* is empty when the server's socket is closed, and there is a lock to     *)
(* give back.                                                              *)
LEMMA StopAlone ==
    ASSUME TypeInv, ListInv, WalkInv, LockInv, Calm, CallInv, ~bad,
           \/ \E close \in BOOLEAN : StopBegin(close)
           \/ Walk \/ Hangup \/ Join \/ Joined \/ Shut \/ GiveBack \/ ClearFlags \/ FreeTransport
    PROVE  ~bad' /\ CallInv'
  <1> USE DEF Goto, drvvars, srvvars, connvars, appvars, CallInv
  <1>0. Len(clients) \in Nat /\ num_clients \in Int /\ flags \in FlagSet
    BY LenProperties DEF TypeInv
  <1>1. ASSUME NEW c, Listed(c)
        PROVE  c \in Clients /\ (at # "link" => At(c, "serving") /\ Live(c))
    <2>1. c \in Clients
      BY <1>1, ElementOfSeq, LenProperties DEF TypeInv, Listed, Range
    <2>2. Bound(c) /\ ~Ending(c)
      BY <1>1, <2>1 DEF ListInv, Calm
    <2>3. thread[c] = "serving"
      BY <2>2 DEF Bound, Ending
    <2> QED
      BY <2>1, <2>3 DEF MemoryInv, At
  <1>2. ASSUME NEW close \in BOOLEAN, StopBegin(close) PROVE ~bad' /\ CallInv'
    <2>1. /\ at = "idle" /\ at' = "walk" /\ ~bad' /\ flags.running
          /\ nxt' = IF clients = <<>> THEN HEAD ELSE Head(clients)
          /\ UNCHANGED <<cli, read, srvvars, connvars>>
      BY <1>2 DEF StopBegin
    <2>2. clients # <<>> => Head(clients) \in Range(clients)
      BY <1>0, HeadTailProperties, LenProperties, EmptySeq DEF TypeInv, Range
    <2>3. nxt' = HEAD \/ nxt' \in Range(clients)
      BY <2>1, <2>2
    <2>4. MemoryInv'
      BY <2>1, <2>3 DEF MemoryInv, Live, Listed, At
    <2>5. CallCount' /\ CallFlags'
      BY <2>1 DEF CallCount, CallFlags, Calls
    <2> QED
      BY <2>1, <2>4, <2>5
  <1>3. CASE Walk
    <2>0. at = "walk" /\ (nxt # HEAD => Listed(nxt) /\ Live(nxt))
      BY <1>1, <1>3 DEF Walk, MemoryInv
    <2>1. CASE nxt = HEAD
      <3>1. /\ at' = "shut" /\ ~bad'
            /\ UNCHANGED <<cli, nxt, read, srvvars, connvars>>
        BY <1>3, <2>1 DEF Walk
      <3>2. MemoryInv'
        BY <2>0, <3>1 DEF MemoryInv, Live, Listed, At
      <3>3. CallCount' /\ CallFlags'
        BY <2>0, <3>1 DEF CallCount, CallFlags, Calls
      <3> QED
        BY <3>1, <3>2, <3>3
    <2>2. CASE nxt # HEAD
      <3>1. /\ at' = "hangup" /\ ~bad'
            /\ cli' = nxt /\ nxt' = Successor(nxt)
            /\ UNCHANGED <<read, srvvars, connvars>>
        BY <1>3, <2>0, <2>2 DEF Walk
      <3>2. nxt' = HEAD \/ nxt' \in Range(clients)
        <4>1. Listed(nxt)
          BY <2>0, <2>2
        <4>2. Successor(nxt) = HEAD \/ (Successor(nxt) \in Clients /\ Listed(Successor(nxt)))
          BY <4>1, SuccessorIsListed
        <4> QED
          BY <3>1, <4>2 DEF Listed
      <3>3. nxt' = HEAD \/ nxt' # nxt
        <4> DEFINE i == CHOOSE k \in DOMAIN clients : clients[k] = nxt
        <4>0. \E k \in DOMAIN clients : clients[k] = nxt
          BY <2>0, <2>2 DEF Listed, Range
        <4>1. i \in DOMAIN clients /\ clients[i] = nxt
          BY <4>0
        <4>2. nxt' = IF i = Len(clients) THEN HEAD ELSE clients[i + 1]
          BY <3>1 DEF Successor
        <4> HIDE DEF i
        <4>3. DOMAIN clients = 1..Len(clients)
          BY LenProperties DEF TypeInv
        <4>4. i # Len(clients) => clients[i + 1] # clients[i]
          BY <1>0, <4>1, <4>3 DEF ListInv, Distinct
        <4> QED
          BY <4>1, <4>2, <4>4
      <3>4. At(nxt, "serving")
        BY <1>1, <2>0, <2>2
      <3>5. MemoryInv'
        BY <2>0, <2>2, <3>1, <3>2, <3>3, <3>4 DEF MemoryInv, Live, Listed, At
      <3>6. CallCount' /\ CallFlags'
        BY <2>0, <3>1 DEF CallCount, CallFlags, Calls
      <3> QED
        BY <3>1, <3>5, <3>6
    <2> QED
      BY <2>1, <2>2
  <1>4. CASE Hangup
    <2>1. /\ at = "hangup" /\ at' = "join" /\ bad' = ~Live(cli)
          /\ sock' = [sock EXCEPT ![cli] = FALSE]
          /\ UNCHANGED <<cli, nxt, read, srvvars, memory, thread>>
      BY <1>4 DEF Hangup
    <2>2. ~bad'
      BY <1>1, <2>1 DEF MemoryInv
    <2>3. MemoryInv'
      BY <2>1 DEF MemoryInv, Live, Listed, At, TypeInv
    <2>4. CallCount' /\ CallFlags'
      BY <2>1 DEF CallCount, CallFlags, Calls
    <2> QED
      BY <2>2, <2>3, <2>4
  <1>5. CASE Join
    <2>1. /\ at = "join" /\ at' = "wait" /\ bad' = (~Live(cli) \/ thread[cli] = "none")
          /\ UNCHANGED <<cli, nxt, read, srvvars, connvars>>
      BY <1>5 DEF Join
    <2>2. ~bad'
      BY <1>1, <2>1 DEF MemoryInv, At
    <2>3. MemoryInv'
      BY <2>1 DEF MemoryInv, Live, Listed, At
    <2>4. CallCount' /\ CallFlags'
      BY <2>1 DEF CallCount, CallFlags, Calls
    <2> QED
      BY <2>2, <2>3, <2>4
  <1>6. CASE Joined
    <2>1. /\ at = "wait" /\ at' = "walk" /\ ~bad'
          /\ UNCHANGED <<cli, nxt, read, srvvars, connvars>>
      BY <1>6 DEF Joined
    <2>2. MemoryInv'
      BY <2>1 DEF MemoryInv, Live, Listed, At
    <2>3. CallCount' /\ CallFlags'
      BY <2>1 DEF CallCount, CallFlags, Calls
    <2> QED
      BY <2>1, <2>2, <2>3
  <1>7. CASE Shut
    <2>1. /\ at = "shut" /\ at' = "unlock" /\ ~bad' /\ srvsock' = FALSE
          /\ UNCHANGED <<cli, nxt, read, flags, trans, clients, num_clients, connvars, lockcnt>>
      BY <1>7 DEF Shut
    <2>2. Len(clients) = 0
      <3>1. \A c : ~Listed(c)
        BY <1>1, <2>1 DEF WalkInv
      <3>2. DOMAIN clients = 1..Len(clients)
        BY LenProperties DEF TypeInv
      <3>3. 1 \notin DOMAIN clients
        BY <3>1 DEF Listed, Range
      <3> QED
        BY <1>0, <3>2, <3>3
    <2>3. flags.running /\ lockcnt > 0
      BY <2>1 DEF CallFlags, LockInv
    <2>4. MemoryInv'
      BY <2>1 DEF MemoryInv, Live, Listed, At
    <2>5. CallCount' /\ CallFlags'
      BY <2>1, <2>2, <2>3 DEF CallCount, CallFlags, Calls
    <2> QED
      BY <2>1, <2>4, <2>5
  <1>8. CASE GiveBack
    <2>1. /\ at = "unlock" /\ at' = "clear" /\ ~bad'
          /\ read' = [read EXCEPT !.flags = flags]
          /\ UNCHANGED <<cli, nxt, srvvars, connvars>>
      BY <1>8 DEF GiveBack, CallFlags
    <2>2. read'.flags = flags
      BY <2>1 DEF TypeInv, Regs
    <2>3. MemoryInv'
      BY <2>1 DEF MemoryInv, Live, Listed, At
    <2>4. CallCount' /\ CallFlags'
      BY <2>1, <2>2 DEF CallCount, CallFlags, Calls
    <2> QED
      BY <2>1, <2>3, <2>4
  <1>9. CASE ClearFlags
    <2>1. /\ at = "clear" /\ at' \in {"free", "idle"} /\ ~bad'
          /\ flags' = [flags EXCEPT !.running = FALSE, !.active = FALSE]
          /\ UNCHANGED <<cli, nxt, trans, clients, num_clients, srvsock, connvars>>
      BY <1>9 DEF ClearFlags, CallFlags, Stopped
    <2>2. flags'.running = FALSE /\ flags'.active = FALSE
      BY <1>0, <2>1, BitValues
    <2>3. ~srvsock /\ Len(clients) = 0
      BY <2>1 DEF LockInv, CallFlags
    <2>4. MemoryInv'
      BY <2>1 DEF MemoryInv, Live, Listed, At
    <2>5. CallCount' /\ CallFlags'
      BY <2>1, <2>2, <2>3 DEF CallCount, CallFlags, Calls
    <2> QED
      BY <2>1, <2>4, <2>5
  <1>10. CASE FreeTransport
    <2>1. /\ at \in {"idle", "free"} /\ (at = "idle" => ~flags.running)
          /\ at' = "idle" /\ ~bad' /\ trans' = FALSE
          /\ UNCHANGED <<cli, nxt, read, flags, clients, num_clients, srvsock, connvars>>
      BY <1>10 DEF FreeTransport
    <2>2. ~srvsock /\ Len(clients) = 0
      BY <2>1 DEF LockInv, CallFlags
    <2>3. \A c \in Clients : thread[c] \in {"none", "done"}
      BY <2>1, <2>2, CalmList
    <2>4. MemoryInv'
      BY <2>1, <2>3 DEF MemoryInv, Live, Listed, At
    <2>5. CallCount' /\ CallFlags'
      BY <2>1, <2>2 DEF CallCount, CallFlags, Calls
    <2> QED
      BY <2>1, <2>4, <2>5
  <1> QED
    BY <1>2, <1>3, <1>4, <1>5, <1>6, <1>7, <1>8, <1>9, <1>10

LEMMA AppAlone ==
    ASSUME ~Posix, TypeInv, ServeInv, AloneInv, App, ~overlap'
    PROVE  OrderInv' /\ MemoryInv' /\ CountInv' /\ FlagInv'
  <1>1. ~bad /\ ~overlap
    BY DEF App, TypeInv
  <1>2. Calm /\ Calm'
    BY AppIsCalm
  <1>3. ListInv /\ WalkInv /\ LockInv
    BY <1>1 DEF ServeInv
  <1>4. CallInv
    BY <1>1, <1>2, CalmCounts, CalmFlags DEF AloneInv, CallInv
  <1>5. ~bad' /\ CallInv'
    BY <1>1, <1>2, <1>3, <1>4, ProcessAlone, StopAlone DEF App, AppStep, CallStep
  <1>6. OrderInv'
    BY <1>2, <1>5 DEF OrderInv, Calm
  <1> QED
    BY <1>2, <1>5, <1>6, CalmCounts, CalmFlags DEF CallInv

-----------------------------------------------------------------------------
(* AloneInv: a thread that frees its client, while nothing else does.      *)

Only(c) ==
    /\ at = "idle" \/ WaitsFor(c)
    /\ \A d \in Clients : d # c => ~Ending(d)

ThreadCount(c) ==
    /\ Lowering(c) => num_clients = Len(clients) + 1
    /\ ~Lowering(c) => num_clients = Len(clients)
    /\ At(c, "store") => reg[c].count = Len(clients)

ThreadFlags(c) ==
    /\ Clearing(c) => clients = <<>>
    /\ At(c, "clear") => reg[c].flags = flags
    /\ Lowering(c) \/ Clearing(c) => flags.active
    /\ ~Lowering(c) /\ ~Clearing(c) => (flags.active <=> Len(clients) > 0)
    /\ flags.running <=> srvsock
    /\ at = "wait" => srvsock
    /\ ~srvsock => Len(clients) = 0

(* What the invariants say of the one thread.                              *)
LEMMA OnlyCounts ==
    ASSUME NEW c \in Clients
    PROVE  /\ Only(c) /\ CountInv => ThreadCount(c)
           /\ Only(c)' /\ ThreadCount(c)' => CountInv'
  <1>1. ASSUME Only(c), CountInv PROVE ThreadCount(c)
    <2>1. at \notin {"count", "store"} /\ \A d \in Clients : d # c => ~Lowering(d)
      BY <1>1 DEF Only, WaitsFor, Ending, Lowering
    <2> QED
      BY <1>1, <2>1 DEF CountInv, ThreadCount
  <1>2. ASSUME Only(c)', ThreadCount(c)' PROVE CountInv'
    <2>1. at' \notin {"count", "store"} /\ \A d \in Clients : d # c => ~Lowering(d)'
      BY <1>2 DEF Only, WaitsFor, Ending, Lowering
    <2>2. \A d \in Clients : At(d, "store")' => d = c
      BY <2>1 DEF At, Lowering
    <2> QED
      BY <1>2, <2>1, <2>2 DEF CountInv, ThreadCount, Lowering, At
  <1> QED
    BY <1>1, <1>2

LEMMA OnlyFlags ==
    ASSUME NEW c \in Clients
    PROVE  /\ Only(c) /\ FlagInv => ThreadFlags(c)
           /\ Only(c)' /\ ThreadFlags(c)' => FlagInv'
  <1>1. ASSUME Only(c), FlagInv PROVE ThreadFlags(c)
    <2>1. at \in {"idle", "wait"} /\ \A d \in Clients : d # c => ~Lowering(d) /\ ~Clearing(d)
      BY <1>1 DEF Only, WaitsFor, Ending, Lowering, Clearing
    <2> QED
      BY <1>1, <2>1 DEF FlagInv, ThreadFlags
  <1>2. ASSUME Only(c)', ThreadFlags(c)' PROVE FlagInv'
    <2>1. at' \in {"idle", "wait"} /\ \A d \in Clients : d # c => ~Lowering(d)' /\ ~Clearing(d)'
      BY <1>2 DEF Only, WaitsFor, Ending, Lowering, Clearing
    <2>2. \A d \in Clients : At(d, "clear")' => d = c
      BY <2>1 DEF At, Clearing
    <2> QED
      BY <1>2, <2>1, <2>2 DEF FlagInv, ThreadFlags, Lowering, Clearing, At, Calls
  <1> QED
    BY <1>1, <1>2

(* The thread moves on and leaves its client's memory and the list alone.  *)
LEMMA OnlyMoves ==
    ASSUME TypeInv, MemoryInv, NEW c \in Clients, NEW pc, Only(c),
           Move(c, pc), pc \notin {"none", "done"}, thread[c] \notin {"none", "done"},
           UNCHANGED <<at, cli, nxt, clients, memory, sock, trans>>
    PROVE  MemoryInv' /\ Only(c)'
  <1>1. Only(c)'
    BY DEF Only, WaitsFor, Ending, Move, TypeInv
  <1>2. at \in {"idle", "wait"}
    BY DEF Only, WaitsFor
  <1>3. MemoryInv'
    BY <1>2 DEF MemoryInv, Live, Listed, At, Move, TypeInv
  <1> QED
    BY <1>1, <1>3

LEMMA ThreadAlone ==
    ASSUME TypeInv, ServeInv, AloneInv, NEW c \in Clients, Thread(c), ~overlap'
    PROVE  OrderInv' /\ MemoryInv' /\ CountInv' /\ FlagInv'
  <1> USE DEF drvvars, appvars, srvvars
  <1>1. ~bad /\ ~overlap /\ Only(c)
    BY DEF Thread, TypeInv, Only
  <1>2. ListInv /\ MemoryInv
    BY <1>1 DEF ServeInv, AloneInv
  <1>3. ThreadCount(c) /\ ThreadFlags(c)
    BY <1>1, OnlyCounts, OnlyFlags DEF AloneInv
  <1>4. at \in {"idle", "wait"} /\ (at = "wait" => cli = c)
    BY <1>1 DEF Only, WaitsFor
  <1>5. Len(clients) \in Nat /\ num_clients \in Int /\ flags \in FlagSet /\ reg[c] \in Regs
    BY LenProperties DEF TypeInv
  <1>6. SUFFICES ~bad' /\ MemoryInv' /\ Only(c)' /\ ThreadCount(c)' /\ ThreadFlags(c)'
    <2>1. ASSUME ~bad', Only(c)' PROVE OrderInv'
      <3>1. \A d \in Clients : Ending(d)' => d = c
        BY <2>1 DEF Only, Ending
      <3>2. at' = "idle" \/ WaitsFor(c)'
        BY <2>1 DEF Only
      <3> QED
        BY <2>1, <3>1, <3>2 DEF OrderInv, Ending, WaitsFor
    <2> QED
      BY <2>1, OnlyCounts, OnlyFlags
  <1>7. CASE EndServe(c)
    <2>1. At(c, "serving") /\ bad' = ~Live(c) /\ Move(c, "unlink")
      BY <1>7 DEF EndServe
    <2>2. UNCHANGED <<at, cli, nxt, flags, trans, clients, num_clients, srvsock, memory, sock, reg>>
      BY <1>7 DEF EndServe
    <2>3. MemoryInv' /\ Only(c)'
      BY <1>1, <1>2, <2>1, <2>2, OnlyMoves DEF At
    <2>4. ~bad'
      BY <1>2, <2>1 DEF MemoryInv, At
    <2>5. thread'[c] = "unlink" /\ thread[c] = "serving"
      BY <2>1 DEF Move, TypeInv, At
    <2>6. ThreadCount(c)' /\ ThreadFlags(c)'
      BY <1>3, <2>2, <2>5 DEF ThreadCount, ThreadFlags, Lowering, Clearing, At
    <2> QED
      BY <2>3, <2>4, <2>6
  <1>8. CASE Unlink(c)
    <2>1. /\ At(c, "unlink") /\ bad' = ~(Live(c) /\ Listed(c) /\ trans) /\ Move(c, "count")
          /\ UNCHANGED <<at, cli, nxt, flags, trans, num_clients, srvsock, memory, sock, reg>>
      BY <1>8 DEF Unlink
    <2>2. Listed(c) /\ ~bad'
      BY <1>2, <1>4, <2>1 DEF ListInv, Bound, MemoryInv, At
    <2>3. PICK i \in DOMAIN clients : clients[i] = c /\ clients' = RemoveAt(clients, i)
      BY <1>8, <2>2 DEF Unlink
    <2>4. /\ Range(clients') = Range(clients) \ {c}
          /\ Len(clients') = Len(clients) - 1
          /\ Len(clients) > 0
      <3>1. clients \in Seq(Clients) /\ Distinct(clients)
        BY <1>2 DEF TypeInv, ListInv
      <3>2. Len(clients) > 0
        BY <1>5, <2>3, <3>1, LenProperties
      <3> QED
        BY <2>3, <3>1, <3>2, RemoveAtOrder, RemoveAtProperties
    <2>5. thread'[c] = "count" /\ thread[c] = "unlink" /\ \A d \in Clients : d # c => thread'[d] = thread[d]
      BY <2>1 DEF Move, TypeInv, At
    <2>6. Only(c)'
      BY <1>1, <2>1, <2>5 DEF Only, WaitsFor, Ending
    <2>7. MemoryInv'
      BY <1>2, <1>4, <2>1, <2>4, <2>5 DEF MemoryInv, Live, Listed, At
    <2>8. ThreadCount(c)' /\ ThreadFlags(c)'
      BY <1>3, <1>5, <2>1, <2>4, <2>5 DEF ThreadCount, ThreadFlags, Lowering, Clearing, At
    <2> QED
      BY <2>2, <2>6, <2>7, <2>8
  <1>9. CASE ListRace(c)
    <2>1. Listed(c) /\ at # "link" /\ \E d \in Clients : At(d, "unlink") /\ Successor(c) = d
      BY <1>4, <1>9 DEF ListRace
    <2>2. Successor(c) = c
      BY <1>1, <2>1 DEF Only, Ending, At
    <2> DEFINE i == CHOOSE k \in DOMAIN clients : clients[k] = c
    <2>3. \E k \in DOMAIN clients : clients[k] = c
      BY <2>1 DEF Listed, Range
    <2>4. i \in DOMAIN clients /\ clients[i] = c
      BY <2>3
    <2>5. c = IF i = Len(clients) THEN HEAD ELSE clients[i + 1]
      BY <2>2 DEF Successor
    <2> HIDE DEF i
    <2>6. DOMAIN clients = 1..Len(clients)
      BY LenProperties DEF TypeInv
    <2>7. i # Len(clients) => clients[i + 1] # clients[i]
      BY <1>2, <1>5, <2>4, <2>6 DEF ListInv, Distinct
    <2> QED
      BY <2>4, <2>5, <2>7, ServerAssumption
  <1>10. CASE CountDown(c)
    <2>1. /\ At(c, "count") /\ bad' = ~trans /\ Move(c, "store")
          /\ reg' = [reg EXCEPT ![c].count = num_clients - 1]
          /\ UNCHANGED <<at, cli, nxt, flags, trans, clients, num_clients, srvsock, memory, sock>>
      BY <1>10 DEF CountDown
    <2>2. MemoryInv' /\ Only(c)'
      BY <1>1, <1>2, <2>1, OnlyMoves DEF At
    <2>3. ~bad'
      BY <1>2, <2>1 DEF MemoryInv, At
    <2>4. thread'[c] = "store" /\ thread[c] = "count"
      BY <2>1 DEF Move, TypeInv, At
    <2>5. reg'[c].count = num_clients - 1
      BY <2>1, <1>5 DEF TypeInv, Regs
    <2>6. ThreadCount(c)' /\ ThreadFlags(c)'
      BY <1>3, <1>5, <2>1, <2>4, <2>5 DEF ThreadCount, ThreadFlags, Lowering, Clearing, At
    <2> QED
      BY <2>2, <2>3, <2>6
  <1>11. CASE StoreDown(c)
    <2> DEFINE pc == IF reg[c].count = 0 THEN "flag" ELSE "close"
    <2>1. /\ At(c, "store") /\ bad' = ~trans /\ Move(c, pc)
          /\ num_clients' = reg[c].count
          /\ UNCHANGED <<at, cli, nxt, flags, trans, clients, srvsock, memory, sock>>
      BY <1>11 DEF StoreDown
    <2>2. MemoryInv' /\ Only(c)'
      BY <1>1, <1>2, <2>1, OnlyMoves DEF At
    <2>3. ~bad'
      BY <1>2, <2>1 DEF MemoryInv, At
    <2>4. thread'[c] = pc /\ thread[c] = "store"
      BY <2>1 DEF Move, TypeInv, At
    <2>5. reg[c].count = Len(clients) /\ (Len(clients) = 0 => clients = <<>>)
      BY <1>3, <2>4, EmptySeq DEF ThreadCount, At, TypeInv
    <2>6. ThreadCount(c)' /\ ThreadFlags(c)'
      BY <1>3, <1>5, <2>1, <2>4, <2>5 DEF ThreadCount, ThreadFlags, Lowering, Clearing, At
    <2> QED
      BY <2>2, <2>3, <2>6
  <1>12. CASE FlagRead(c)
    <2>1. /\ At(c, "flag") /\ bad' = ~trans /\ Move(c, "clear")
          /\ reg' = [reg EXCEPT ![c].flags = flags]
          /\ UNCHANGED <<at, cli, nxt, flags, trans, clients, num_clients, srvsock, memory, sock>>
      BY <1>12 DEF FlagRead
    <2>2. MemoryInv' /\ Only(c)'
      BY <1>1, <1>2, <2>1, OnlyMoves DEF At
    <2>3. ~bad'
      BY <1>2, <2>1 DEF MemoryInv, At
    <2>4. thread'[c] = "clear" /\ thread[c] = "flag"
      BY <2>1 DEF Move, TypeInv, At
    <2>5. reg'[c].flags = flags
      BY <2>1, <1>5 DEF TypeInv, Regs
    <2>6. ThreadCount(c)' /\ ThreadFlags(c)'
      BY <1>3, <1>5, <2>1, <2>4, <2>5 DEF ThreadCount, ThreadFlags, Lowering, Clearing, At
    <2> QED
      BY <2>2, <2>3, <2>6
  <1>13. CASE FlagWrite(c)
    <2>1. /\ At(c, "clear") /\ bad' = ~trans /\ Move(c, "close")
          /\ flags' = [reg[c].flags EXCEPT !.active = FALSE]
          /\ UNCHANGED <<at, cli, nxt, trans, clients, num_clients, srvsock, memory, sock>>
      BY <1>13 DEF FlagWrite
    <2>2. MemoryInv' /\ Only(c)'
      BY <1>1, <1>2, <2>1, OnlyMoves DEF At
    <2>3. ~bad'
      BY <1>2, <2>1 DEF MemoryInv, At
    <2>4. thread'[c] = "close" /\ thread[c] = "clear"
      BY <2>1 DEF Move, TypeInv, At
    <2>5. flags'.active = FALSE /\ flags'.running = flags.running /\ Len(clients) = 0
      BY <1>3, <1>5, <2>1, <2>4, BitValues, EmptySeq DEF ThreadFlags, Clearing, At
    <2>6. ThreadCount(c)' /\ ThreadFlags(c)'
      BY <1>3, <1>5, <2>1, <2>4, <2>5 DEF ThreadCount, ThreadFlags, Lowering, Clearing, At
    <2> QED
      BY <2>2, <2>3, <2>6
  <1>14. CASE CloseFree(c)
    <2>1. /\ At(c, "close") /\ bad' = bad /\ Move(c, "done")
          /\ sock' = [sock EXCEPT ![c] = FALSE]
          /\ memory' = [memory EXCEPT ![c] = "freed"]
          /\ UNCHANGED <<at, cli, nxt, flags, trans, clients, num_clients, srvsock, reg>>
      BY <1>14 DEF CloseFree
    <2>2. thread'[c] = "done" /\ thread[c] = "close" /\ \A d \in Clients : d # c => thread'[d] = thread[d]
      BY <2>1 DEF Move, TypeInv, At
    <2>3. Only(c)'
      BY <1>1, <2>1, <2>2 DEF Only, WaitsFor, Ending
    <2>4. MemoryInv'
      BY <1>2, <1>4, <2>1, <2>2 DEF MemoryInv, Live, Listed, At, TypeInv
    <2>5. ThreadCount(c)' /\ ThreadFlags(c)'
      BY <1>3, <2>1, <2>2 DEF ThreadCount, ThreadFlags, Lowering, Clearing, At
    <2> QED
      BY <1>1, <2>1, <2>3, <2>4, <2>5
  <1> QED
    BY <1>7, <1>8, <1>9, <1>10, <1>11, <1>12, <1>13, <1>14 DEF Thread, FreeStep

LEMMA AloneInit == Init => AloneInv
  <1> SUFFICES ASSUME Init PROVE OrderInv /\ MemoryInv /\ CountInv /\ FlagInv
    BY DEF AloneInv
  <1>1. /\ clients = <<>> /\ Len(clients) = 0 /\ num_clients = 0 /\ at = "idle"
        /\ ~bad /\ ~srvsock /\ flags = NoFlags
    BY EmptySeq DEF Init
  <1>2. \A c \in Clients : thread[c] = "none" /\ memory[c] = "free" /\ ~sock[c]
    BY DEF Init
  <1>3. ~flags.running /\ ~flags.active
    BY <1>1 DEF NoFlags
  <1>4. OrderInv /\ MemoryInv
    BY <1>1, <1>2 DEF OrderInv, MemoryInv, Ending, Live
  <1>5. CountInv /\ FlagInv
    BY <1>1, <1>2, <1>3 DEF CountInv, FlagInv, Lowering, Clearing, At, Calls
  <1> QED
    BY <1>4, <1>5

LEMMA AloneStep ==
    ASSUME ~Posix, TypeInv, ServeInv, AloneInv, [Next]_vars
    PROVE  AloneInv'
  <1>1. CASE UNCHANGED vars
    <2>1. UNCHANGED <<bad, overlap, at, cli, nxt, read, flags, trans, clients, num_clients, srvsock,
                      memory, sock, thread, reg, lockcnt>>
      BY <1>1 DEF vars, drvvars, appvars, srvvars, connvars
    <2>2. OrderInv => OrderInv'
      BY <2>1 DEF OrderInv, Ending, WaitsFor
    <2>3. MemoryInv => MemoryInv'
      BY <2>1 DEF MemoryInv, Live, Listed, At
    <2>4. CountInv => CountInv'
      BY <2>1 DEF CountInv, Lowering, At
    <2>5. FlagInv => FlagInv'
      BY <2>1 DEF FlagInv, Lowering, Clearing, At
    <2> QED
      BY <2>1, <2>2, <2>3, <2>4, <2>5 DEF AloneInv
  <1>2. CASE App
    BY <1>2, AppAlone DEF AloneInv
  <1>3. ASSUME NEW c \in Clients, Thread(c) PROVE AloneInv'
    BY <1>3, ThreadAlone DEF AloneInv
  <1> QED
    BY <1>1, <1>2, <1>3 DEF Next

(* As long as no thread frees its client at the same time as another or    *)
(* inside a call of the application, nothing is used after it was freed,   *)
(* and between the calls the list, the count, the flags and the memory     *)
(* agree: for any number of clients, and for any length of use.            *)
THEOREM ServerCallsAloneAreSafe ==
    ASSUME ~Posix
    PROVE  Spec => []CallsAloneAreSafe
  <1>1. TypeInv /\ ServeInv /\ AloneInv /\ [Next]_vars => AloneInv'
    BY AloneStep
  <1>2. TypeInv /\ ServeInv /\ AloneInv => CallsAloneAreSafe
    <2> SUFFICES ASSUME TypeInv, ServeInv, AloneInv, ~overlap PROVE CallsAloneAreSafe
      BY DEF CallsAloneAreSafe
    <2>1. ~bad /\ MemoryInv /\ CountInv /\ FlagInv
      BY DEF AloneInv, OrderInv
    <2>2. ListInv
      BY <2>1 DEF ServeInv
    <2>3. ASSUME Quiet
          PROVE  /\ Range(clients) = {c \in Clients : At(c, "serving")}
                 /\ num_clients = Len(clients)
                 /\ flags.active = (clients # <<>>)
                 /\ flags.running = srvsock
                 /\ srvsock \/ clients = <<>>
                 /\ \A c \in Clients : ~Listed(c) => ~Live(c) /\ ~sock[c]
      <3>1. Calm /\ at = "idle"
        BY <2>3 DEF Quiet, Calm
      <3>2. CallCount /\ CallFlags
        BY <2>1, <3>1, CalmCounts, CalmFlags
      <3>3. \A c \in Clients : Listed(c) <=> At(c, "serving")
        BY <2>2, <3>1 DEF ListInv, Bound, Calm, Ending, At
      <3>4. Range(clients) = {c \in Clients : At(c, "serving")}
        <4>1. Range(clients) \subseteq Clients
          BY LenProperties, ElementOfSeq DEF Range, TypeInv
        <4> QED
          BY <3>3, <4>1 DEF Listed
      <3>5. Len(clients) \in Nat /\ (Len(clients) = 0 <=> clients = <<>>)
        BY LenProperties, EmptySeq DEF TypeInv
      <3>6. (flags.active <=> clients # <<>>) /\ (flags.running <=> srvsock)
        BY <3>1, <3>2, <3>5 DEF CallFlags
      <3>7. flags.active \in BOOLEAN /\ flags.running \in BOOLEAN /\ srvsock \in BOOLEAN
        BY DEF TypeInv, FlagSet
      <3>8. flags.active = (clients # <<>>) /\ flags.running = srvsock
        BY <3>6, <3>7
      <3>9. num_clients = Len(clients) /\ (srvsock \/ clients = <<>>)
        BY <3>1, <3>2, <3>5 DEF CallCount, CallFlags
      <3>10. \A c \in Clients : ~Listed(c) => ~Live(c) /\ ~sock[c]
        <4>1. \A c \in Clients : ~Listed(c) => thread[c] \in {"none", "done"}
          BY <3>1, <3>3 DEF Calm, Ending, At, TypeInv, Pcs
        <4> QED
          BY <2>1, <3>1, <4>1 DEF MemoryInv
      <3> QED
        BY <3>4, <3>8, <3>9, <3>10
    <2> QED
      BY <2>1, <2>3 DEF CallsAloneAreSafe
  <1> QED
    BY <1>1, <1>2, AloneInit, ServeInvariant, PTL DEF Spec
=============================================================================
