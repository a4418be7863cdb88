---------------------------- MODULE StreamBuffer ----------------------------
(***************************************************************************)
(* The circular buffer between libcurl and a never-ending file on a drive, *)
(* in the two examples that use it: examples/vdf_stream.c (variant 1) and  *)
(* examples/vdf_stream2.c (variant 2).  Two threads share it without a     *)
(* lock: the curl thread appends in curl_cback(), and file_cback(), called *)
(* by the transport's thread when the host reads, takes sectors out.  In   *)
(* variant 2 the main thread pauses, stops and opens streams.              *)
(*                                                                         *)
(* The bytes of the stream are numbered, modulo Period.  ++bend and        *)
(* ++bstart are a step before the one that sets them to zero at the end of *)
(* the buffer, as in the code.  How long a thread sleeps is left open: 20  *)
(* sleeps in a row on a full buffer may or may not be over.                *)
(*                                                                         *)
(* next, lost and glitch are history: the byte that the file is to         *)
(* continue with; whether bytes were given up on purpose, overwritten in a *)
(* full buffer or thrown away by a stop; and whether a thread has misread  *)
(* the buffer between the two stores of the other: an empty one for one    *)
(* with data, because bend was BUFFCNT and bstart 0, or a full one for one *)
(* with room, because bstart was BUFFCNT.  After either the bytes are no   *)
(* longer numbered.                                                        *)
(***************************************************************************)
EXTENDS Integers, Sequences

CONSTANTS
    BUFFCNT,      \* sectors in the buffer
    Bps,          \* bytes in a sector
    Period,       \* bytes are numbered modulo this
    Sizes,        \* numbers of bytes that libcurl passes to curl_cback()
    Lens          \* numbers of sectors that the host asks for

ASSUME StreamAssumption ==
    /\ BUFFCNT \in Nat \ {0, 1} /\ Bps \in Nat \ {0}
    /\ Period \in Nat /\ Period > BUFFCNT * Bps
    /\ Sizes \subseteq Nat \ {0} /\ Lens \subseteq Nat \ {0}

VARIABLES
    variant,
    buffer, bstart, bend, writeoff,
    paused, stopped,
    handle,       \* the transfer: "none", "added", or "done" and not removed
    wpc, size,    \* the curl thread, and what is left of its curl_cback()
    rpc, len,     \* file_cback(), and the sectors it is still to fill
    mpc,          \* the main thread, within a command
    sent,         \* the number of the next byte of the stream
    next, lost, glitch, out

ringvars   == <<buffer, bstart, bend, writeoff>>
ctlvars    == <<paused, stopped, handle, mpc>>
writervars == <<wpc, size, sent>>
readervars == <<rpc, len, next, out>>
vars       == <<variant, ringvars, ctlvars, writervars, readervars, lost, glitch>>

Sectors == 0..(BUFFCNT - 1)
Numbered == ~lost /\ ~glitch
Silence == <<>>
Empty   == [i \in 1..Bps |-> -1]

Init ==
    /\ variant \in {1, 2}
    /\ buffer = [s \in Sectors |-> Empty] /\ bstart = 0 /\ bend = 0 /\ writeoff = 0
    /\ paused = (variant = 2) /\ stopped = (variant = 2)
    /\ handle = IF variant = 1 THEN "added" ELSE "none"
    /\ wpc = "outer" /\ size = 0 /\ sent = 0
    /\ rpc = "idle" /\ len = 0 /\ mpc = "idle"
    /\ next = 0 /\ lost = FALSE /\ glitch = FALSE /\ out = Silence

-----------------------------------------------------------------------------
will_overflow ==
    LET n == IF bend + 1 = BUFFCNT THEN 0 ELSE bend + 1
    IN  n = bstart

(* Mistake: the sleeps on a full buffer are not counted.                   *)
MayWrite_NoTimeout == ~will_overflow /\ ~paused /\ ~stopped

(* The condition that ends the waiting before a transfer goes on and       *)
(* before each piece of its data: in variant 2 a full buffer is written to *)
(* after 20 sleeps.                                                        *)
MayWrite == (will_overflow => variant = 2) /\ ~paused /\ ~stopped

(* curl_threadfunc(): curl_easy_perform(), or curl_multi_perform() with    *)
(* what it reports.                                                        *)
Perform ==
    /\ wpc = "outer" /\ MayWrite
    /\ wpc' = "perform"
    /\ UNCHANGED <<variant, ringvars, ctlvars, size, sent, readervars, lost, glitch>>

(* Mistake: writeoff is local to curl_cback().                             *)
CurlData_BeginsAnew(n) ==
    /\ wpc = "perform" /\ handle = "added"
    /\ size' = n /\ writeoff' = 0
    /\ wpc' = "test"
    /\ UNCHANGED <<variant, buffer, bstart, bend, ctlvars, sent, readervars, lost, glitch>>

(* libcurl has data and calls curl_cback().                                *)
CurlData(n) ==
    /\ wpc = "perform" /\ handle = "added"
    /\ size' = n
    /\ wpc' = "test"
    /\ UNCHANGED <<variant, ringvars, ctlvars, sent, readervars, lost, glitch>>

(* curl_multi_perform() returns with nothing to report.                    *)
PerformReturns ==
    /\ wpc = "perform" /\ variant = 2
    /\ wpc' = "outer"
    /\ UNCHANGED <<variant, ringvars, ctlvars, size, sent, readervars, lost, glitch>>

(* The transfer fails.  Variant 1 starts it again; in variant 2 nothing    *)
(* but a new URL does.                                                     *)
TransferFails ==
    /\ wpc = "perform" /\ handle = "added"
    /\ handle' = IF variant = 1 THEN "added" ELSE "done"
    /\ wpc' = "outer"
    /\ UNCHANGED <<variant, ringvars, paused, stopped, mpc, size, sent, readervars, lost, glitch>>

(* The transfer is complete: variant 2 stops itself.                       *)
TransferEnds ==
    /\ wpc = "perform" /\ handle = "added"
    /\ wpc' = "outer"
    /\ IF variant = 1 THEN UNCHANGED <<paused, stopped, handle>>
       ELSE paused' = TRUE /\ stopped' = TRUE /\ handle' = "none"
    /\ UNCHANGED <<variant, ringvars, mpc, size, sent, readervars, lost, glitch>>

(* The loop of curl_cback() begins a piece.                                *)
WriteTest ==
    /\ wpc = "test" /\ MayWrite
    /\ wpc' = "copy"
    /\ glitch' = (glitch \/ (bstart = BUFFCNT /\ bend + 1 = BUFFCNT))
    /\ UNCHANGED <<variant, ringvars, ctlvars, size, sent, readervars, lost>>

(* A stop while it waits: it returns 0, which ends the transfer.           *)
WriteStopped ==
    /\ wpc = "test" /\ stopped
    /\ size' = 0 /\ wpc' = "outer"
    /\ handle' = IF handle = "added" THEN "done" ELSE handle
    /\ lost' = TRUE
    /\ UNCHANGED <<variant, ringvars, paused, stopped, mpc, sent, readervars, glitch>>

Least(a, b) == IF a < b THEN a ELSE b

WriteCopy ==
    /\ wpc = "copy"
    /\ LET want == Least(Bps - writeoff, size)
           Byte(i) == IF Numbered THEN (sent + i - writeoff - 1) % Period ELSE -1
       IN  /\ buffer' = [buffer EXCEPT ![bend] =
                  [i \in 1..Bps |-> IF i \in (writeoff + 1)..(writeoff + want)
                                    THEN Byte(i) ELSE @[i]]]
           /\ writeoff' = writeoff + want
           /\ size' = size - want
           /\ sent' = IF Numbered THEN (sent + want) % Period ELSE sent
           /\ wpc' = CASE writeoff + want = Bps -> "advance"
                       [] writeoff + want < Bps /\ size = want -> "perform"
                       [] writeoff + want < Bps /\ size > want -> "test"
    /\ UNCHANGED <<variant, bstart, bend, ctlvars, readervars, lost, glitch>>

(* When bend reaches bstart in a full buffer, the buffer is empty: all of  *)
(* it is given up.                                                         *)
WriteAdvance ==
    /\ wpc = "advance"
    /\ bend' = bend + 1
    /\ lost' = (lost \/ (bend + 1) % BUFFCNT = bstart % BUFFCNT)
    /\ wpc' = "wrap"
    /\ UNCHANGED <<variant, buffer, bstart, writeoff, ctlvars, size, sent, readervars, glitch>>

(* Mistake: bend is not set back.                                          *)
WriteWrap_NotBack ==
    /\ wpc = "wrap"
    /\ writeoff' = 0
    /\ wpc' = IF size = 0 THEN "perform" ELSE "test"
    /\ UNCHANGED <<variant, buffer, bstart, bend, ctlvars, size, sent, readervars, lost, glitch>>

WriteWrap ==
    /\ wpc = "wrap"
    /\ bend' = IF bend = BUFFCNT THEN 0 ELSE bend
    /\ writeoff' = 0
    /\ wpc' = IF size = 0 THEN "perform" ELSE "test"
    /\ UNCHANGED <<variant, buffer, bstart, ctlvars, size, sent, readervars, lost, glitch>>

-----------------------------------------------------------------------------
(* The host reads n sectors of the file.                                   *)
ReadBegin(n) ==
    /\ rpc = "idle"
    /\ len' = n
    /\ rpc' = "test"
    /\ UNCHANGED <<variant, ringvars, ctlvars, writervars, next, out, lost, glitch>>

ReadNext(l) == len' = l /\ rpc' = IF l = 0 THEN "idle" ELSE "test"

(* Mistake: variant 2 waits for data as well.                              *)
ReadSilence_Waits ==
    /\ rpc = "test" /\ variant = 2 /\ (paused \/ stopped)
    /\ out' = Silence
    /\ ReadNext(len - 1)
    /\ UNCHANGED <<variant, ringvars, ctlvars, writervars, next, lost, glitch>>

(* Without data variant 2 feeds in silence; variant 1 waits.               *)
ReadSilence ==
    /\ rpc = "test" /\ variant = 2 /\ (bstart = bend \/ paused \/ stopped)
    /\ out' = Silence
    /\ ReadNext(len - 1)
    /\ UNCHANGED <<variant, ringvars, ctlvars, writervars, next, lost, glitch>>

ReadTest ==
    /\ rpc = "test" /\ bstart # bend /\ ~paused /\ ~stopped
    /\ rpc' = "copy"
    /\ glitch' = (glitch \/ bend % BUFFCNT = bstart)
    /\ UNCHANGED <<variant, ringvars, ctlvars, writervars, len, next, out, lost>>

ReadCopy ==
    /\ rpc = "copy"
    /\ out' = buffer[bstart]
    /\ rpc' = "advance"
    /\ UNCHANGED <<variant, ringvars, ctlvars, writervars, len, next, lost, glitch>>

ReadAdvance ==
    /\ rpc = "advance"
    /\ bstart' = bstart + 1
    /\ next' = IF Numbered THEN (next + Bps) % Period ELSE next
    /\ rpc' = "wrap"
    /\ UNCHANGED <<variant, buffer, bend, writeoff, ctlvars, writervars, len, out, lost, glitch>>

ReadWrap ==
    /\ rpc = "wrap"
    /\ bstart' = IF bstart = BUFFCNT THEN 0 ELSE bstart
    /\ ReadNext(len - 1)
    /\ UNCHANGED <<variant, buffer, bend, writeoff, ctlvars, writervars, next, out, lost, glitch>>

-----------------------------------------------------------------------------
(* The commands of variant 2.  A URL or a resumption begins with a pause,  *)
(* and what the curl thread has set in between, it sets back.              *)
Command(place) ==
    /\ variant = 2 /\ mpc = "idle"
    /\ paused' = TRUE
    /\ mpc' = place
    /\ UNCHANGED <<variant, ringvars, handle, writervars, readervars, lost, glitch>>

Pause == Command("idle") /\ UNCHANGED stopped

OpenUrl == (Command("url") \/ Command("resume")) /\ UNCHANGED stopped

AddUrl ==
    /\ mpc = "url"
    /\ stopped' = FALSE /\ handle' = "added"
    /\ mpc' = "go"
    /\ UNCHANGED <<variant, ringvars, paused, writervars, readervars, lost, glitch>>

TestStopped ==
    /\ mpc = "resume"
    /\ mpc' = IF stopped THEN "idle" ELSE "go"
    /\ UNCHANGED <<variant, ringvars, paused, stopped, handle, writervars, readervars, lost, glitch>>

Resume ==
    /\ mpc = "go"
    /\ paused' = FALSE /\ stopped' = FALSE
    /\ mpc' = "idle"
    /\ UNCHANGED <<variant, ringvars, handle, writervars, readervars, lost, glitch>>

(* The stop empties the buffer after a sleep, one index after the other,   *)
(* and keeps writeoff.  A thread that is about to store its index again    *)
(* has read it before and undoes this.                                     *)
StopUrl == Command("sleep") /\ stopped' = TRUE

EmptyStart ==
    /\ mpc = "sleep"
    /\ bstart' = 0 \/ (rpc = "advance" /\ bstart' = bstart)
    /\ lost' = TRUE
    /\ mpc' = "empty"
    /\ UNCHANGED <<variant, buffer, bend, writeoff, paused, stopped, handle, writervars, readervars, glitch>>

EmptyEnd ==
    /\ mpc = "empty"
    /\ bend' = 0 \/ (wpc = "advance" /\ bend' = bend)
    /\ handle' = "none"
    /\ mpc' = "idle"
    /\ UNCHANGED <<variant, buffer, bstart, writeoff, paused, stopped, writervars, readervars, lost, glitch>>

-----------------------------------------------------------------------------
Writer == WriteTest \/ WriteStopped \/ WriteCopy \/ WriteAdvance \/ WriteWrap
Reader == ReadSilence \/ ReadTest \/ ReadCopy \/ ReadAdvance \/ ReadWrap
Data   == \E n \in Sizes : CurlData(n)

Next ==
    \/ Perform \/ Data \/ PerformReturns \/ TransferFails \/ TransferEnds
    \/ Writer \/ Reader \/ (\E n \in Lens : ReadBegin(n))
    \/ Pause \/ OpenUrl \/ AddUrl \/ TestStopped \/ Resume
    \/ StopUrl \/ EmptyStart \/ EmptyEnd

(* The threads run.  Whether data comes, and what the host and the user of *)
(* variant 2 do, is left open.                                             *)
Fairness == WF_vars(Writer) /\ WF_vars(Perform) /\ WF_vars(Reader)

Spec == Init /\ [][Next]_vars /\ Fairness

-----------------------------------------------------------------------------
(* The fields keep their types, and whoever copies does so inside the      *)
(* buffer although bstart and bend pass its end in between.                *)
TypeOK ==
    /\ bstart \in 0..BUFFCNT /\ bend \in 0..BUFFCNT /\ writeoff \in 0..Bps
    /\ rpc = "copy" => bstart < BUFFCNT
    /\ wpc = "copy" => bend < BUFFCNT /\ writeoff < Bps
    /\ size \in Nat /\ len \in Nat

Used    == (bend - bstart) % BUFFCNT
Partial == IF wpc = "wrap" THEN 0 ELSE writeoff

(* As long as no bytes have been given up on purpose, the buffer holds     *)
(* exactly the bytes between the last sector the file has got and the last *)
(* byte that has come, in order, and what the file has got last is the     *)
(* sector before them, or silence: nothing is lost, repeated or torn by    *)
(* the steps of the two threads, but by the glitches at the end of the     *)
(* buffer.                                                                 *)
RingInOrder ==
    Numbered =>
        /\ \A k \in 0..(Used - 1) : \A i \in 1..Bps :
               buffer[(bstart + k) % BUFFCNT][i] = (next + k * Bps + i - 1) % Period
        /\ \A i \in 1..Partial :
               buffer[bend % BUFFCNT][i] = (next + Used * Bps + i - 1) % Period
        /\ sent = (next + Used * Bps + Partial) % Period
        /\ rpc \in {"idle", "test"} /\ out # Silence =>
               \A i \in 1..Bps : out[i] = (next - Bps + i - 1) % Period

(* A read of the file returns, in vdf_stream.c unless the buffer stays     *)
(* empty for ever: no other wait and no index that has gone astray keeps   *)
(* it.                                                                     *)
ReadReturns ==
    (rpc # "idle") ~> (rpc = "idle" \/ (variant = 1 /\ [](bstart = bend)))

(* In vdf_stream2.c data is taken from libcurl even if the host reads no   *)
(* more, until the user pauses or stops.                                   *)
StreamGoesOn == (variant = 2 /\ wpc = "test") ~> (wpc = "copy" \/ paused \/ stopped)
=============================================================================
