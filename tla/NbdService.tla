----------------------------- MODULE NbdService -----------------------------
(***************************************************************************)
(* What an NBD connection to a drive promises to its peer, with buffers,   *)
(* short transfers and chunks left out.  The peer asks and receives; what  *)
(* it receives is right, in the order of its requests and never twice.  A  *)
(* peer that waits for every answer is answered without gaps.              *)
(*                                                                         *)
(* Two kinds of peers stray from what the promise covers.  One that sends  *)
(* ahead, further requests or the data of a write, may lose whole requests *)
(* and may break the connection.  One that asks for a read so far behind   *)
(* the drive that its end wraps around gets a reply without data and may   *)
(* break the connection as well.                                           *)
(***************************************************************************)
EXTENDS Integers, Sequences, SequencesExt

CONSTANTS
    Requests,     \* records [cmd, off, len]
    Bytes,        \* drv->bytes
    OffMod        \* 2^64, where a driveoff_t wraps

VARIABLES
    asked,        \* the requests sent by the peer
    got,          \* what it has received behind the handshake
    gone,         \* it has closed the connection
    strayed,      \* it has sent something that the promise does not cover
    broken        \* the behaviour of the driver is undefined

servicevars == <<asked, got, gone, strayed, broken>>

InRange(r) == r.off + r.len <= Bytes

(* The sum that the drivers compare with the size is a driveoff_t.  A read *)
(* whose sum wraps is taken for one on the drive.                          *)
Passes(r)  == (r.off + r.len) % OffMod <= Bytes
Wrapped(r) == r.cmd = "READ" /\ Passes(r) /\ ~InRange(r)

(* Answered by a header alone: also a write without data.                  *)
Acked(r) == r.cmd \in {"FLUSH", "TRIM"} \/ (r.cmd = "WRITE" /\ r.len = 0)

(* The answer to request i: a reply header, and the bytes asked for, if    *)
(* there are such bytes.                                                   *)
ReplyTo(i) ==
    LET r == asked[i]
        Header == <<<<"reply", i>>>>
    IN  CASE Acked(r) -> Header
          [] r.cmd = "READ" /\ InRange(r) ->
                 Header \o [b \in 1..r.len |-> <<"byte", r.off + b - 1>>]
          [] Wrapped(r) -> Header
          [] OTHER -> <<>>

Replies(S) ==
    FlattenSeq([i \in DOMAIN asked |-> IF i \in S THEN ReplyTo(i) ELSE <<>>])

AllAnswered == got = Replies(DOMAIN asked)

Init ==
    /\ asked = <<>> /\ got = <<>>
    /\ gone = FALSE /\ strayed = FALSE /\ broken = FALSE

Ask ==
    /\ ~gone
    /\ \E r \in Requests :
        /\ asked' = Append(asked, r)
        /\ strayed' = (\/ strayed \/ ~AllAnswered
                       \/ (r.cmd = "WRITE" /\ r.len > 0) \/ Wrapped(r)
                       \/ asked # <<>> /\ ReplyTo(Len(asked)) = <<>>)
    /\ UNCHANGED <<got, gone, broken>>

Deliver ==
    /\ ~gone
    /\ IsStrictPrefix(got, got')
    /\ \E S \in SUBSET DOMAIN asked :
        /\ strayed \/ S = DOMAIN asked
        /\ IsPrefix(got', Replies(S))
    /\ UNCHANGED <<asked, gone, strayed, broken>>

Leave == gone' = TRUE /\ UNCHANGED <<asked, got, strayed, broken>>

(* What a peer leaves behind when it goes in the middle of a request may   *)
(* break the driver, too.                                                  *)
Break == (strayed \/ gone) /\ broken' = TRUE /\ UNCHANGED <<asked, got, gone, strayed>>

Next == Ask \/ Deliver \/ Leave \/ Break

Spec == Init /\ [][Next]_servicevars
=============================================================================
