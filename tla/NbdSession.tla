----------------------------- MODULE NbdSession -----------------------------
(***************************************************************************)
(* One NBD connection, request by request: the loop of client_threadfunc() *)
(* in transport/nbd_server.c and nbdcli_process() of transport/            *)
(* nbd_client.c, which read the same protocol the same way, and            *)
(* sock_read() and sock_write() of vdf_sock.c under them.                  *)
(*                                                                         *)
(* driver tells them apart: "server" keeps its struct nbd_request over the *)
(* loop; "client" and "client nonblock" have a new one in every call, and  *)
(* the latter returns to the application when nothing has arrived.  A      *)
(* request is two units, <<n, 1>> with magic, type and handle, <<n, 2>>    *)
(* with offset and length; a unit of the data of a write is <<n, 3>>.      *)
(*                                                                         *)
(* A recv() may return less than it was asked for and the next one asks    *)
(* for the full count again; what it writes past the structure or the      *)
(* buffer leaves the program undefined, and the model stops (broken).  A   *)
(* send() on a blocking socket sends all or fails.                         *)
(***************************************************************************)
EXTENDS Integers, Sequences, SequencesExt

CONSTANTS
    Requests,     \* records [cmd, off, len] that the peer may send
    Bytes,        \* drv->bytes
    OffMod,       \* 2^64, where a driveoff_t wraps
    BuffLen,      \* drv->bpc, the length of buff
    Drivers,      \* the drivers to model
    MaxAsked      \* bound on the requests of the peer

ASSUME SessionAssumption ==
    /\ Bytes \in Nat /\ BuffLen \in Nat \ {0} /\ MaxAsked \in Nat
    /\ Drivers \subseteq {"server", "client", "client nonblock"}
    /\ OffMod \in Nat
    /\ \A r \in Requests : r.off \in 0..(OffMod - 1) /\ r.len \in Nat /\ Bytes + r.len < OffMod

VARIABLES
    driver,
    asked, got, strayed, broken,   \* as in NbdService
    peer,         \* "open"; "closed" by the peer; "poked" with data since
                  \* then, to be answered by a "reset"
    net,          \* units that were sent and are not read; some of them have arrived
    pc,
    request,      \* the two halves of the struct
    total,        \* of the sock_read() under way
    cur           \* handle, cmd, off, len

vars == <<driver, asked, got, strayed, broken, peer, net, pc, request, total, cur>>

Service == INSTANCE NbdService WITH gone <- peer # "open"

Size    == 2
Garbage == <<0, 0>>
NoCur   == [to |-> 0, cmd |-> "none", off |-> 0, len |-> 0]
Least(a, b) == IF a < b THEN a ELSE b

Init ==
    /\ driver \in Drivers
    /\ asked = <<>> /\ got = <<>> /\ strayed = FALSE /\ broken = FALSE
    /\ peer = "open" /\ net = <<>>
    /\ pc = "recv" /\ total = 0
    /\ request = <<Garbage, Garbage>>
    /\ cur = NoCur

-----------------------------------------------------------------------------
(* The peer sends a request, with the data of a write, or leaves.  It has  *)
(* strayed when something is under way or was never answered, or when the  *)
(* end of its read wraps (see NbdService).                                 *)
UnitsOf(n, r) ==
    <<<<n, 1>>, <<n, 2>>>> \o [i \in 1..(IF r.cmd = "WRITE" THEN r.len ELSE 0) |-> <<n, 3>>]

PeerAsks(r) ==
    /\ Len(asked) < MaxAsked
    /\ peer = "open"
    /\ asked' = Append(asked, r)
    /\ strayed' = (\/ strayed \/ ~Service!AllAnswered
                   \/ Len(UnitsOf(1, r)) > Size \/ Service!Wrapped(r)
                   \/ asked # <<>> /\ Service!ReplyTo(Len(asked)) = <<>>)
    /\ net' = net \o UnitsOf(Len(asked) + 1, r)
    /\ UNCHANGED <<driver, got, broken, peer, pc, request, total, cur>>

PeerLeaves ==
    /\ peer = "open"
    /\ peer' = "closed"
    /\ UNCHANGED <<driver, asked, got, strayed, broken, net, pc, request, total, cur>>

Reset ==
    /\ peer = "poked"
    /\ peer' = "reset"
    /\ UNCHANGED <<driver, asked, got, strayed, broken, net, pc, request, total, cur>>

-----------------------------------------------------------------------------
(* The end: free_client(), or vdf_transport_stop() with or without the     *)
(* error set.                                                              *)
Over == pc' = "over" /\ UNCHANGED <<got, peer, net, request, total, cur, broken>>

(* sock_write(): units reach a peer that is there, and provoke a reset     *)
(* from one that is not.                                                   *)
Send(units) ==
    /\ peer # "reset"
    /\ got' = IF peer = "open" THEN got \o units ELSE got
    /\ peer' = IF peer = "open" THEN "open" ELSE "poked"

(* What is left of a read is on the drive.                                 *)
OnDrive == cur.off + cur.len <= Bytes

(* Mistake: the result of sock_write() is not looked at.  The error was    *)
(* reported with it, and recv() returns 0 again.                           *)
SendFails_Ignored ==
    /\ peer = "reset" /\ pc \in {"reply", "data"}
    /\ peer' = "poked"
    /\ pc' = "recv" /\ total' = 0
    /\ UNCHANGED <<got, net, request, cur, broken>>

SendFails == peer = "reset" /\ (pc = "reply" \/ (pc = "data" /\ OnDrive)) /\ Over

(* recv() in sock_read() of a request: k units, up to Size of them         *)
(* wherever the pointer is.                                                *)
Recv(k) ==
    /\ pc = "recv" /\ k <= Least(Size, Len(net))
    /\ request' = [i \in 1..Size |-> IF i \in (total + 1)..(total + k)
                                     THEN net[i - total] ELSE request[i]]
    /\ total' = total + k
    /\ net' = SubSeq(net, k + 1, Len(net))
    /\ broken' = (total + k > Size)
    /\ pc' = IF total + k >= Size THEN "decode" ELSE "recv"
    /\ UNCHANGED <<got, peer, cur>>

(* A closed connection: sock_read() returns what it has, which its caller  *)
(* takes for a whole request.  The rest is left from the request before,   *)
(* or whatever a new structure holds.                                      *)
RecvEnd ==
    /\ pc = "recv" /\ net = <<>> /\ peer \in {"closed", "poked"}
    /\ pc' = "decode"
    /\ \/ UNCHANGED request
       \/ /\ driver # "server"
          /\ request' = [i \in 1..Size |-> IF i <= total THEN request[i] ELSE Garbage]
    /\ UNCHANGED <<got, peer, net, total, cur, broken>>

RecvFails == peer = "reset" /\ net = <<>> /\ pc \in {"recv", "drain"} /\ Over

(* EAGAIN: nothing more has arrived yet.  The call returns, and what was   *)
(* read of a request is forgotten.                                         *)
WouldBlock ==
    /\ driver = "client nonblock"
    /\ pc = "recv" /\ total > 0
    /\ net # <<>> \/ peer = "open"
    /\ total' = 0
    /\ UNCHANGED <<got, peer, net, pc, request, cur, broken>>

-----------------------------------------------------------------------------
(* The magic number is in the first half.  An offset and a length that are *)
(* not from a request may be anything.                                     *)
RightMagic == request[1] # Garbage /\ request[1][2] = 1

BadMagic == pc = "decode" /\ ~RightMagic /\ Over

Decode ==
    /\ pc = "decode" /\ RightMagic
    /\ LET n == request[1][1]
           m == request[2][1]
       IN \E r \in (IF request[2][2] = 2 THEN {asked[m]} ELSE Requests) :
            cur' = [to |-> n, cmd |-> asked[n].cmd, off |-> r.off, len |-> r.len]
    /\ pc' = "switch" /\ total' = 0
    /\ UNCHANGED <<got, peer, net, request, broken>>

Disconnect == pc = "switch" /\ cur.cmd = "DISC" /\ Over

(* The sum of offset and length wraps, so a read far behind the drive may  *)
(* pass the test of its range.                                             *)
Answered(c) == Service!Acked(c) \/ (c.cmd = "READ" /\ Service!Passes(c))

(* Any other read behind the end of the drive and a command that is not    *)
(* known get no answer.                                                    *)
Ignore ==
    /\ pc = "switch"
    /\ cur.cmd \notin {"DISC", "WRITE"} /\ ~Answered(cur)
    /\ pc' = "recv"
    /\ UNCHANGED <<got, peer, net, request, total, cur, broken>>

Answer ==
    /\ pc = "switch" /\ Answered(cur)
    /\ pc' = "reply"
    /\ UNCHANGED <<got, peer, net, request, total, cur, broken>>

SendReply ==
    /\ pc = "reply"
    /\ Send(<<<<"reply", cur.to>>>>)
    /\ pc' = IF cur.cmd = "READ" /\ cur.len > 0 THEN "data" ELSE "recv"
    /\ UNCHANGED <<net, request, total, cur, broken>>

Data(off, cnt) == [i \in 1..cnt |-> <<"byte", off + i - 1>>]

(* Mistake: the offset is not moved with the data.                         *)
SendData_SameOffset ==
    /\ pc = "data"
    /\ LET read == Least(cur.len, BuffLen)
       IN  /\ Send(Data(cur.off, read))
           /\ cur' = [cur EXCEPT !.len = @ - read]
           /\ pc' = IF cur.len = read THEN "recv" ELSE "data"
    /\ UNCHANGED <<net, request, total, broken>>

(* Mistake: one buffer is sent and no more.                                *)
SendData_OneBuffer ==
    /\ pc = "data"
    /\ Send(Data(cur.off, Least(cur.len, BuffLen)))
    /\ pc' = "recv"
    /\ UNCHANGED <<net, request, total, cur, broken>>

(* Mistake: the last buffer is sent in full.                               *)
SendData_FullBuffers ==
    /\ pc = "data"
    /\ Send(Data(cur.off, BuffLen))
    /\ cur' = [cur EXCEPT !.len = @ - BuffLen, !.off = @ + BuffLen]
    /\ pc' = IF cur.len <= BuffLen THEN "recv" ELSE "data"
    /\ UNCHANGED <<net, request, total, broken>>

(* The data goes out in pieces of at most a buffer, which vdf_read_bytes() *)
(* fills (Read).                                                           *)
SendData ==
    /\ pc = "data" /\ OnDrive
    /\ LET read == Least(cur.len, BuffLen)
       IN  /\ Send(Data(cur.off, read))
           /\ cur' = [cur EXCEPT !.len = @ - read, !.off = @ + read]
           /\ pc' = IF cur.len = read THEN "recv" ELSE "data"
    /\ UNCHANGED <<net, request, total, broken>>

(* vdf_read_sectors() of a sector behind the drive: the sectors from there *)
(* to the end of the drive are a negative number that wraps, and so many   *)
(* zeros are written to the buffer.                                        *)
ReadBeyond ==
    /\ pc = "data" /\ ~OnDrive
    /\ broken' = TRUE
    /\ UNCHANGED <<got, peer, net, pc, request, total, cur>>

DriveReadFails == pc = "data" /\ OnDrive /\ Over

(* The loop over the data of a write does not lower len: once it has begun *)
(* it takes whatever arrives, a buffer at a time, for ever.  A write       *)
(* without data is answered.                                               *)
WriteBegin ==
    /\ pc = "switch" /\ cur.cmd = "WRITE" /\ cur.len > 0
    /\ pc' = "drain"
    /\ UNCHANGED <<got, peer, net, request, total, cur, broken>>

Drain(k) ==
    LET cnt == Least(cur.len, BuffLen)
    IN  /\ pc = "drain" /\ k <= Least(cnt, Len(net))
        /\ net' = SubSeq(net, k + 1, Len(net))
        /\ broken' = (total + k > cnt)
        /\ total' = IF total + k >= cnt THEN 0 ELSE total + k
        /\ UNCHANGED <<got, peer, pc, request, cur>>

-----------------------------------------------------------------------------
(* The application stops the transport: the thread of a server in its      *)
(* recv(), a client between two calls.                                     *)
AppStops == pc = "recv" /\ (driver # "server" => total = 0) /\ Over

DriverStep ==
    \/ \E k \in 1..Size : Recv(k)
    \/ \E k \in 1..BuffLen : Drain(k)
    \/ RecvEnd \/ RecvFails \/ WouldBlock
    \/ BadMagic \/ Decode \/ Disconnect \/ Ignore \/ Answer \/ WriteBegin
    \/ SendReply \/ SendData \/ SendFails \/ ReadBeyond \/ DriveReadFails

Driver == ~broken /\ DriverStep /\ UNCHANGED <<driver, asked, strayed>>
Stop   == ~broken /\ AppStops /\ UNCHANGED <<driver, asked, strayed>>

Peer == ~broken /\ (PeerLeaves \/ Reset \/ \E r \in Requests : PeerAsks(r))

Next == Peer \/ Driver \/ Stop

(* The driver's thread runs, or the application calls                      *)
(* vdf_transport_process() again and again; a peer's system answers data   *)
(* for a closed connection with a reset.  The peer may stop any time.      *)
Spec == Init /\ [][Next]_vars /\ WF_vars(Driver) /\ WF_vars(~broken /\ Reset)

-----------------------------------------------------------------------------
(* The fields keep their types: the unsigned length that is left to send   *)
(* does not pass zero, and sock_read() fills no more than the structure.   *)
TypeOK ==
    /\ driver \in Drivers /\ asked \in Seq(Requests)
    /\ {strayed, broken} \subseteq BOOLEAN
    /\ peer \in {"open", "closed", "poked", "reset"}
    /\ pc \in {"recv", "decode", "switch", "reply", "data", "drain", "over"}
    /\ total \in 0..(Size + BuffLen)
    /\ ~broken /\ pc \notin {"drain", "over"} => total <= Size
    /\ cur.len \in Nat /\ cur.off \in Nat

(* Whatever the recv() calls return, wherever the peer closes and whatever *)
(* an unfinished or repeated request makes the driver do, the peer sees    *)
(* what NbdService promises: right answers, in order, none twice, and, if  *)
(* it waits for them and asks for no read whose end wraps, none missing    *)
(* and no overrun.                                                         *)
ImplementsService == Service!Spec

(* A peer that waits for its answers gets them, from a driver that blocks, *)
(* unless it leaves or the connection is ended under it.                   *)
Waiting == ~strayed /\ driver # "client nonblock" /\ ~Service!AllAnswered
AnswersArrive == Waiting ~> (Service!AllAnswered \/ peer # "open" \/ pc = "over" \/ strayed)

(* A connection that the peer has closed is ended, although sock_read()    *)
(* does not report the end and the last request is served again: the       *)
(* answers to it meet the reset.  When the last request is one that gets   *)
(* no answer, the loop over the closed connection does not end.            *)
Unanswerable ==
    \/ pc = "drain"
    \/ cur # NoCur /\ ~Answered(cur)
SessionEnds == (peer # "open") ~> (pc = "over" \/ broken \/ []Unanswerable)
=============================================================================
