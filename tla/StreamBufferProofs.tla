------------------------- MODULE StreamBufferProofs -------------------------
(***************************************************************************)
(* The circular buffer of the streaming examples, for any number and size  *)
(* of sectors: proofs about StreamBuffer.                                  *)
(***************************************************************************)
EXTENDS StreamBuffer, TLAPS

(* The types, and where the two threads may leave their indices: past the  *)
(* end of the buffer only between the store that moves an index and the    *)
(* one that sets it back.                                                  *)
PlaceInv ==
    /\ variant \in {1, 2} /\ paused \in BOOLEAN /\ stopped \in BOOLEAN
    /\ lost \in BOOLEAN /\ glitch \in BOOLEAN
    /\ buffer \in [Sectors -> [1..Bps -> Int]]
    /\ bstart \in 0..BUFFCNT /\ bend \in 0..BUFFCNT /\ writeoff \in 0..Bps
    /\ size \in Nat /\ len \in Nat /\ sent \in Int /\ next \in Int
    /\ wpc \in {"outer", "perform", "test", "copy", "advance", "wrap"}
    /\ rpc \in {"idle", "test", "copy", "advance", "wrap"}
    /\ bstart = BUFFCNT => rpc = "wrap"
    /\ bend = BUFFCNT => wpc = "wrap"
    /\ wpc \in {"advance", "wrap"} <=> writeoff = Bps
    /\ wpc \in {"test", "copy"} => size > 0
    /\ rpc # "idle" => len > 0
    /\ variant = 1 => ~paused /\ ~stopped /\ mpc = "idle"
    /\ mpc = "empty" => lost

(* The numbers of the bytes.  A sector that the reader has tested for      *)
(* stays there, whatever the other thread does in between.                 *)
Number(n) == n % Period

Full(k, i)  == buffer[(bstart + k) % BUFFCNT][i] = Number(next + k * Bps + i - 1)
Begun(i)    == buffer[bend % BUFFCNT][i] = Number(next + Used * Bps + i - 1)

OrderInv ==
    /\ \A k \in 0..(Used - 1) : \A i \in 1..Bps : Full(k, i)
    /\ \A i \in 1..Partial : Begun(i)
    /\ sent = Number(next + Used * Bps + Partial)
    /\ rpc \in {"copy", "advance"} => Used > 0
    /\ rpc = "advance" => \A i \in 1..Bps : out[i] = Number(next + i - 1)
    /\ rpc = "wrap" \/ (rpc \in {"idle", "test"} /\ out # Silence) =>
           \A i \in 1..Bps : out[i] = Number(next - Bps + i - 1)

RingInv == PlaceInv /\ (Numbered => OrderInv)

-----------------------------------------------------------------------------
(* Arithmetic modulo N, for indices that run around the buffer and for the *)
(* numbers of the bytes.                                                   *)

LEMMA ModRange ==
    ASSUME NEW N \in Nat, N > 0, NEW x \in Int
    PROVE  x % N \in Int /\ 0 <= x % N /\ x % N < N
  OBVIOUS

LEMMA ModSplit ==
    ASSUME NEW N \in Nat, N > 0, NEW x \in Int
    PROVE  \E q \in Int : x = N * q + (x % N)
  <1>1. x = N * (x \div N) + (x % N) /\ x \div N \in Int
    OBVIOUS
  <1> QED
    BY <1>1

LEMMA ModIs ==
    ASSUME NEW N \in Nat, N > 0, NEW x \in Int, NEW q \in Int, NEW r \in Int,
           x = N * q + r, 0 <= r, r < N
    PROVE  x % N = r
  OBVIOUS

(* A remainder may be taken early.                                         *)
LEMMA ModShift ==
    ASSUME NEW N \in Nat, N > 0, NEW x \in Int, NEW y \in Int
    PROVE  ((x % N) + y) % N = (x + y) % N
  <1>1. PICK q \in Int : x = N * q + (x % N)
    BY ModSplit
  <1>2. x % N \in Int
    BY ModRange
  <1>3. PICK r \in Int : r = x % N
    BY <1>2
  <1>4. PICK p \in Int : r + y = N * p + ((r + y) % N)
    BY ModSplit
  <1>5. PICK t \in Int : t = (r + y) % N /\ 0 <= t /\ t < N
    BY ModRange
  <1>6. x + y = N * (p + q) + t /\ x + y \in Int /\ p + q \in Int
    BY <1>1, <1>3, <1>4, <1>5
  <1>7. (x + y) % N = t
    BY <1>5, <1>6, ModIs
  <1> QED
    BY <1>3, <1>5, <1>7

(* Numbers with the same remainder are a multiple of N apart.              *)
LEMMA SameRest ==
    ASSUME NEW N \in Nat, N > 0, NEW c \in Int, NEW d \in Int, NEW e \in Int,
           c % N = d % N, e = d - c
    PROVE  e % N = 0
  <1>1. PICK r \in Int : c = N * r + (c % N)
    BY ModSplit
  <1>2. PICK t \in Int : d = N * t + (d % N)
    BY ModSplit
  <1>3. PICK m \in Int : m = c % N
    BY ModRange
  <1>4. PICK p \in Int : p = t - r
    OBVIOUS
  <1>5. e = N * p + 0
    BY <1>1, <1>2, <1>3, <1>4
  <1> QED
    BY <1>5, ModIs, SMTT(40)

(* The distance u from a to b around the buffer, and how it changes when b *)
(* or a moves on.                                                          *)
Turns(N, a, b, u) ==
    /\ u + 1 < N => (b + 1 - a) % N = u + 1
    /\ u > 0 => (b - (a + 1)) % N = u - 1
    /\ (a + u) % N = b % N
    /\ \A k \in 0..(u - 1) : (a + k) % N # b % N
    /\ u + 1 = N => (b + 1) % N = a % N
    /\ u + 1 < N => (b + 1) % N # a % N
    /\ u = 0 => b % N = a % N
    /\ u > 0 => b % N # a % N

LEMMA Distance ==
    ASSUME NEW N \in Nat, N > 0, NEW a \in Int, NEW b \in Int,
           NEW u \in Int, u = (b - a) % N
    PROVE  Turns(N, a, b, u)
  <1>1. PICK q \in Int : b - a = N * q + u
    BY ModSplit
  <1>2. 0 <= u /\ u < N
    BY ModRange
  <1>3. u + 1 < N => (b + 1 - a) % N = u + 1
    <2>1. PICK z \in Int, r \in Int : z = b + 1 - a /\ r = u + 1
      OBVIOUS
    <2>2. z = N * q + r
      BY <1>1, <2>1
    <2>3. 0 <= r /\ (u + 1 < N => r < N)
      BY <1>2, <2>1
    <2>4. u + 1 < N => z % N = r
      BY <2>2, <2>3, ModIs
    <2> QED
      BY <2>1, <2>4
  <1>4. u > 0 => (b - (a + 1)) % N = u - 1
    <2>1. PICK z \in Int, r \in Int : z = b - (a + 1) /\ r = u - 1
      OBVIOUS
    <2>2. z = N * q + r
      BY <1>1, <2>1
    <2>3. r < N /\ (u > 0 => 0 <= r)
      BY <1>2, <2>1
    <2>4. u > 0 => z % N = r
      BY <2>2, <2>3, ModIs
    <2> QED
      BY <2>1, <2>4
  <1>5. (a + u) % N = b % N
    <2>1. PICK d \in Int : d = b - a
      OBVIOUS
    <2>2. ((d % N) + a) % N = (d + a) % N
      BY ModShift
    <2>3. d % N = u /\ d + a = b /\ u + a = a + u
      BY <2>1
    <2> QED
      BY <2>2, <2>3
  <1>7. ASSUME NEW k \in 0..(u - 1) PROVE (a + k) % N # b % N
    <2>1. PICK c \in Int, z \in Int, r \in Int : c = a + k /\ z = b - c /\ r = u - k
      OBVIOUS
    <2>2. z = N * q + r /\ 0 < r /\ r < N
      BY <1>1, <1>2, <2>1
    <2>3. z % N = r
      BY <2>2, ModIs
    <2>4. c % N # b % N
      BY <2>1, <2>2, <2>3, SameRest
    <2> QED
      BY <2>1, <2>4
  <1>8. u + 1 = N => (b + 1) % N = a % N
    <2>1. SUFFICES ASSUME u + 1 = N PROVE (b + 1) % N = a % N
      OBVIOUS
    <2>2. b + 1 = N * (q + 1) + a
      BY <1>1, <2>1
    <2>3. PICK r \in Int : a = N * r + (a % N)
      BY ModSplit
    <2>4. a % N \in Int /\ 0 <= a % N /\ a % N < N
      BY ModRange
    <2>5. b + 1 = N * (q + 1 + r) + (a % N) /\ q + 1 + r \in Int
      BY <2>2, <2>3, <2>4
    <2> QED
      BY <2>4, <2>5, ModIs
  <1>9. u + 1 < N => (b + 1) % N # a % N
    <2>1. PICK z \in Int, d \in Int : z = b + 1 /\ d = z - a
      OBVIOUS
    <2>2. ASSUME a % N = z % N PROVE d % N = 0
      <3>1. d = z - a
        BY <2>1
      <3>2. N > 0
        OBVIOUS
      <3> QED
        BY ONLY <2>2, <3>1, <3>2, N \in Nat, a \in Int, z \in Int, d \in Int, SameRest, ZenonT(30)
    <2>3. u + 1 < N => d % N = u + 1
      BY <1>3, <2>1
    <2>4. u + 1 < N => z % N # a % N
      BY <1>2, <2>2, <2>3
    <2> QED
      BY <2>1, <2>4
  <1>10. u = 0 => b % N = a % N
    BY <1>5
  <1>11. u > 0 => b % N # a % N
    <2>1. PICK d \in Int : d = b - a
      OBVIOUS
    <2>2. ASSUME a % N = b % N PROVE d % N = 0
      <3>1. d = b - a
        BY <2>1
      <3>2. N > 0
        OBVIOUS
      <3> QED
        BY ONLY <2>2, <3>1, <3>2, N \in Nat, a \in Int, b \in Int, d \in Int, SameRest, ZenonT(30)
    <2> QED
      BY <1>2, <2>1, <2>2
  <1> QED
    BY <1>3, <1>4, <1>5, <1>7, <1>8, <1>9, <1>10, <1>11 DEF Turns

(* An index that is set back at the end of the buffer is where it was.     *)
LEMMA SetBack ==
    ASSUME NEW N \in Nat, N > 0, NEW x \in Int
    PROVE  (N + x) % N = x % N /\ (x - N) % N = x % N
  <1>1. PICK q \in Int : x = N * q + (x % N)
    BY ModSplit
  <1>2. x % N \in Int /\ 0 <= x % N /\ x % N < N
    BY ModRange
  <1>3. PICK r \in Int : r = x % N
    BY <1>2
  <1>4. PICK y \in Int, z \in Int, p \in Int, t \in Int :
            y = N + x /\ z = x - N /\ p = q + 1 /\ t = q - 1
    OBVIOUS
  <1>5. y = N * p + r /\ z = N * t + r
    BY <1>1, <1>3, <1>4
  <1>6. y % N = r /\ z % N = r
    BY <1>2, <1>3, <1>5, ModIs
  <1> QED
    BY <1>3, <1>4, <1>6

LEMMA ModSmall ==
    ASSUME NEW N \in Nat, N > 0, NEW x \in Int, 0 <= x, x < N
    PROVE  x % N = x
  OBVIOUS

-----------------------------------------------------------------------------
(* The places of the threads.                                              *)

LEMMA Sized ==
    /\ BUFFCNT \in Nat /\ BUFFCNT > 1 /\ Bps \in Nat /\ Bps > 0
    /\ Period \in Nat /\ Period > 0
  <1>1. BUFFCNT \in Nat /\ BUFFCNT > 1 /\ Bps \in Nat /\ Bps > 0 /\ Period \in Nat
    BY StreamAssumption
  <1>2. BUFFCNT * Bps >= 0 /\ BUFFCNT * Bps \in Int
    BY <1>1
  <1> QED
    BY <1>1, <1>2, StreamAssumption

LEMMA PlaceInit == Init => PlaceInv
  <1> SUFFICES ASSUME Init PROVE PlaceInv
    OBVIOUS
  <1>1. buffer \in [Sectors -> [1..Bps -> Int]]
    BY DEF Init, Empty
  <1>2. variant \in {1, 2} /\ paused \in BOOLEAN /\ stopped \in BOOLEAN
    BY DEF Init
  <1>3. (paused <=> variant = 2) /\ (stopped <=> variant = 2) /\ mpc = "idle"
    BY DEF Init
  <1>4. bstart = 0 /\ bend = 0 /\ writeoff = 0 /\ size = 0 /\ len = 0 /\ sent = 0 /\ next = 0
    BY DEF Init
  <1>5. wpc = "outer" /\ rpc = "idle" /\ lost = FALSE /\ glitch = FALSE
    BY DEF Init
  <1>6. bstart \in 0..BUFFCNT /\ bend \in 0..BUFFCNT /\ writeoff \in 0..Bps
    BY <1>4, Sized
  <1>7. variant = 1 => ~paused /\ ~stopped /\ mpc = "idle"
    BY <1>3
  <1>8. lost \in BOOLEAN /\ glitch \in BOOLEAN
    BY <1>5
  <1>9. /\ bstart # BUFFCNT /\ bend # BUFFCNT /\ writeoff # Bps
        /\ size \in Nat /\ len \in Nat /\ sent \in Int /\ next \in Int
    BY <1>4, Sized
  <1> QED
    BY <1>1, <1>2, <1>3, <1>5, <1>6, <1>7, <1>8, <1>9 DEF PlaceInv

(* What curl_cback() copies: want bytes to the end of what is begun.       *)
Copied(want) ==
    [i \in 1..Bps |-> IF i \in (writeoff + 1)..(writeoff + want)
                      THEN IF Numbered THEN (sent + i - writeoff - 1) % Period ELSE -1
                      ELSE buffer[bend][i]]

LEMMA CopyEffect ==
    ASSUME PlaceInv, WriteCopy
    PROVE  \E want \in Int :
              /\ want > 0 /\ want <= size /\ writeoff + want <= Bps
              /\ wpc = "copy" /\ bend \in Sectors /\ writeoff \in Nat /\ size \in Nat
              /\ buffer' = [buffer EXCEPT ![bend] = Copied(want)]
              /\ writeoff' = writeoff + want /\ size' = size - want
              /\ sent' = IF Numbered THEN (sent + want) % Period ELSE sent
              /\ wpc' \in {"advance", "perform", "test"}
              /\ wpc' = "advance" <=> writeoff + want = Bps
              /\ wpc' = "test" => size > want
              /\ UNCHANGED <<variant, bstart, bend, paused, stopped, mpc, rpc, len, next, out,
                             lost, glitch>>
  <1> USE DEF PlaceInv, ctlvars, readervars
  <1>0. /\ wpc = "copy" /\ writeoff \in Nat /\ writeoff <= Bps /\ writeoff # Bps
        /\ size \in Nat /\ size > 0 /\ bend \in Nat /\ bend <= BUFFCNT /\ bend # BUFFCNT
    BY Sized DEF WriteCopy
  <1>1. PICK want \in Int : /\ want = Least(Bps - writeoff, size)
                            /\ want > 0 /\ want <= size /\ writeoff + want <= Bps
    <2>1. PICK room \in Int : room = Bps - writeoff /\ room > 0
      BY <1>0, Sized
    <2>2. Least(room, size) = room \/ Least(room, size) = size
      BY DEF Least
    <2>3. Least(room, size) \in Int /\ Least(room, size) <= room /\ Least(room, size) <= size
      BY <1>0, <2>1 DEF Least
    <2> QED
      BY <1>0, <2>1, <2>2, <2>3, Sized
  <1>2. bend \in Sectors
    BY <1>0, Sized DEF Sectors
  <1>3. /\ writeoff' = writeoff + want /\ size' = size - want
        /\ sent' = IF Numbered THEN (sent + want) % Period ELSE sent
        /\ wpc' = CASE writeoff + want = Bps -> "advance"
                    [] writeoff + want < Bps /\ size = want -> "perform"
                    [] writeoff + want < Bps /\ size > want -> "test"
        /\ UNCHANGED <<variant, bstart, bend, paused, stopped, mpc, rpc, len, next, out, lost, glitch>>
    BY <1>1 DEF WriteCopy
  <1>4. buffer' = [buffer EXCEPT ![bend] = Copied(want)]
    BY <1>1, <1>2 DEF WriteCopy, Copied
  <1>5. /\ wpc' \in {"advance", "perform", "test"}
        /\ wpc' = "advance" <=> writeoff + want = Bps
        /\ wpc' = "test" => size > want
    <2>1. CASE writeoff + want = Bps
      BY <1>0, <1>3, <2>1, Sized
    <2>2. CASE writeoff + want < Bps /\ size = want
      BY <1>0, <1>3, <2>2, Sized
    <2>3. CASE writeoff + want < Bps /\ size > want
      BY <1>0, <1>3, <2>3, Sized
    <2> QED
      BY <1>0, <1>1, <2>1, <2>2, <2>3, Sized
  <1> QED
    BY <1>0, <1>1, <1>2, <1>3, <1>4, <1>5

LEMMA CopyPlaces ==
    ASSUME PlaceInv, WriteCopy
    PROVE  PlaceInv'
  <1>1. PICK want \in Int :
              /\ want > 0 /\ want <= size /\ writeoff + want <= Bps
              /\ wpc = "copy" /\ bend \in Sectors /\ writeoff \in Nat /\ size \in Nat
              /\ buffer' = [buffer EXCEPT ![bend] = Copied(want)]
              /\ writeoff' = writeoff + want /\ size' = size - want
              /\ sent' = IF Numbered THEN (sent + want) % Period ELSE sent
              /\ wpc' \in {"advance", "perform", "test"}
              /\ wpc' = "advance" <=> writeoff + want = Bps
              /\ wpc' = "test" => size > want
              /\ UNCHANGED <<variant, bstart, bend, paused, stopped, mpc, rpc, len, next, lost, glitch>>
    BY CopyEffect
  <1>2. buffer' \in [Sectors -> [1..Bps -> Int]]
    <2>1. \A i \in 1..Bps : (sent + i - writeoff - 1) % Period \in Int /\ buffer[bend][i] \in Int
      BY <1>1, Sized, ModRange DEF PlaceInv
    <2>2. Copied(want) \in [1..Bps -> Int]
      BY <2>1 DEF Copied
    <2> QED
      BY <1>1, <2>2 DEF PlaceInv
  <1>3. sent' \in Int
    BY <1>1, Sized, ModRange DEF PlaceInv
  <1>4. writeoff' \in 0..Bps /\ size' \in Nat
    BY <1>1, Sized
  <1>5. /\ wpc' \in {"advance", "wrap"} <=> writeoff' = Bps
        /\ wpc' \in {"test", "copy"} => size' > 0
    BY <1>1
  <1>6. bend' # BUFFCNT
    BY <1>1, Sized DEF Sectors
  <1> QED
    BY <1>1, <1>2, <1>3, <1>4, <1>5, <1>6 DEF PlaceInv

LEMMA PlaceStep == PlaceInv /\ [Next]_vars => PlaceInv'
  <1> SUFFICES ASSUME PlaceInv, [Next]_vars PROVE PlaceInv'
    OBVIOUS
  <1> USE Sized DEF PlaceInv, ringvars, ctlvars, writervars, readervars
  <1>1. CASE UNCHANGED vars
    BY <1>1 DEF vars
  <1>2. CASE Perform
    BY <1>2 DEF Perform
  <1>3. CASE Data
    <2>1. PICK n \in Sizes : CurlData(n)
      BY <1>3 DEF Data
    <2>2. n \in Nat /\ n > 0
      BY StreamAssumption
    <2> QED
      BY <2>1, <2>2 DEF CurlData
  <1>4. CASE PerformReturns
    BY <1>4 DEF PerformReturns
  <1>5. CASE TransferFails
    BY <1>5 DEF TransferFails
  <1>6. CASE TransferEnds
    BY <1>6 DEF TransferEnds
  <1>7. CASE WriteTest
    BY <1>7 DEF WriteTest
  <1>8. CASE WriteStopped
    BY <1>8 DEF WriteStopped
  <1>9. CASE WriteCopy
    BY <1>9, CopyPlaces
  <1>10. CASE WriteAdvance
    BY <1>10 DEF WriteAdvance
  <1>11. CASE WriteWrap
    BY <1>11 DEF WriteWrap
  <1>12. ASSUME NEW n \in Lens, ReadBegin(n) PROVE PlaceInv'
    <2>1. n \in Nat /\ n > 0
      BY StreamAssumption
    <2> QED
      BY <1>12, <2>1 DEF ReadBegin
  <1>13. CASE ReadSilence
    BY <1>13 DEF ReadSilence, ReadNext
  <1>14. CASE ReadTest
    BY <1>14 DEF ReadTest
  <1>15. CASE ReadCopy
    BY <1>15 DEF ReadCopy
  <1>16. CASE ReadAdvance
    <2>1. next' \in Int
      BY <1>16, ModRange DEF ReadAdvance
    <2> QED
      BY <1>16, <2>1 DEF ReadAdvance
  <1>17. CASE ReadWrap
    BY <1>17 DEF ReadWrap, ReadNext
  <1>18. CASE Pause
    BY <1>18 DEF Pause, Command
  <1>19. CASE OpenUrl
    <2>1. PICK place \in {"url", "resume"} : Command(place) /\ UNCHANGED stopped
      BY <1>19 DEF OpenUrl
    <2> QED
      BY <2>1 DEF Command
  <1>20. CASE AddUrl
    BY <1>20 DEF AddUrl
  <1>21. CASE TestStopped
    BY <1>21 DEF TestStopped
  <1>22. CASE Resume
    BY <1>22 DEF Resume
  <1>23. CASE StopUrl
    BY <1>23 DEF StopUrl, Command
  <1>24. CASE EmptyStart
    BY <1>24 DEF EmptyStart
  <1>25. CASE EmptyEnd
    BY <1>25 DEF EmptyEnd
  <1> HIDE DEF PlaceInv
  <1> QED
    BY <1>1, <1>2, <1>3, <1>4, <1>5, <1>6, <1>7, <1>8, <1>9, <1>10, <1>11, <1>12, <1>13, <1>14,
       <1>15, <1>16, <1>17, <1>18, <1>19, <1>20, <1>21, <1>22, <1>23, <1>24, <1>25
       DEF Next, Writer, Reader

LEMMA PlaceInvariant == Spec => []PlaceInv
  BY PlaceInit, PlaceStep, PTL DEF Spec

(* Whoever copies does so inside the buffer, for any buffer and however    *)
(* the threads interleave, although bstart and bend pass its end.          *)
THEOREM StreamTypeOK == Spec => []TypeOK
  <1>1. PlaceInv => TypeOK
    BY Sized DEF PlaceInv, TypeOK
  <1> QED
    BY <1>1, PlaceInvariant, PTL

-----------------------------------------------------------------------------
(* The bytes in the buffer.                                                *)

LEMMA UsedType ==
    ASSUME PlaceInv
    PROVE  /\ Used \in Int /\ 0 <= Used /\ Used < BUFFCNT
           /\ bend \in Int /\ bstart \in Int /\ bend - bstart \in Int
  <1>1. bend \in Int /\ bstart \in Int /\ bend - bstart \in Int
    BY DEF PlaceInv
  <1> QED
    BY <1>1, Sized, ModRange DEF Used

(* Distance, for the two indices of the buffer.                            *)
LEMMA Around == PlaceInv => Turns(BUFFCNT, bstart, bend, Used)
  <1> SUFFICES ASSUME PlaceInv PROVE Turns(BUFFCNT, bstart, bend, Used)
    OBVIOUS
  <1>1. BUFFCNT \in Nat /\ BUFFCNT > 0
    BY Sized
  <1>2. Used = (bend - bstart) % BUFFCNT
    BY DEF Used
  <1> QED
    BY <1>1, <1>2, UsedType, Distance

(* A step that leaves the buffer and its indices alone.                    *)
LEMMA OrderFrame ==
    ASSUME OrderInv, UNCHANGED <<buffer, bstart, bend, sent, next>>, Partial' = Partial,
           \/ UNCHANGED <<rpc, out>>
           \/ rpc = "idle" /\ rpc' = "test" /\ UNCHANGED out
           \/ rpc' \in {"idle", "test"} /\ out' = Silence
    PROVE  OrderInv'
  <1>1. Used' = Used
    BY DEF Used
  <1>2. (\A k \in 0..(Used - 1) : \A i \in 1..Bps : Full(k, i))'
    BY <1>1 DEF OrderInv, Full, Number
  <1>3. (\A i \in 1..Partial : Begun(i))' /\ (sent = Number(next + Used * Bps + Partial))'
    BY <1>1 DEF OrderInv, Begun, Number
  <1>4. /\ (rpc \in {"copy", "advance"} => Used > 0)'
        /\ (rpc = "advance" => \A i \in 1..Bps : out[i] = Number(next + i - 1))'
        /\ (rpc = "wrap" \/ (rpc \in {"idle", "test"} /\ out # Silence) =>
                \A i \in 1..Bps : out[i] = Number(next - Bps + i - 1))'
    BY <1>1 DEF OrderInv, Number
  <1> QED
    BY <1>2, <1>3, <1>4 DEF OrderInv

(* A part of a sector is written where none is kept.                       *)
LEMMA CopyOrders ==
    ASSUME PlaceInv, OrderInv, WriteCopy, Numbered
    PROVE  OrderInv'
  <1>1. PICK want \in Int :
              /\ want > 0 /\ writeoff + want <= Bps
              /\ wpc = "copy" /\ bend \in Sectors /\ writeoff \in Nat
              /\ buffer' = [buffer EXCEPT ![bend] = Copied(want)]
              /\ writeoff' = writeoff + want
              /\ sent' = IF Numbered THEN (sent + want) % Period ELSE sent
              /\ wpc' \in {"advance", "perform", "test"}
              /\ UNCHANGED <<bstart, bend, rpc, next, out>>
    BY CopyEffect
  <1>2. Used' = Used /\ Partial = writeoff /\ Partial' = writeoff + want
    BY <1>1 DEF Used, Partial
  <1>3. bend % BUFFCNT = bend
    BY <1>1, Sized, ModSmall DEF Sectors
  <1>4. PICK base \in Int : base = next + Used * Bps
    BY UsedType, Sized DEF PlaceInv
  <1>5. sent = (base + writeoff) % Period /\ base + writeoff \in Int
    BY <1>1, <1>2, <1>4 DEF OrderInv, Number
  <1>6. ASSUME NEW k \in 0..(Used - 1), NEW i \in 1..Bps PROVE Full(k, i)'
    <2>1. (bstart + k) % BUFFCNT # bend
      BY <1>3, UsedType, Sized, Around DEF Turns
    <2>2. (bstart + k) % BUFFCNT \in Sectors
      BY UsedType, Sized, ModRange DEF Sectors
    <2>3. buffer'[(bstart + k) % BUFFCNT] = buffer[(bstart + k) % BUFFCNT]
      BY <1>1, <2>1, <2>2 DEF PlaceInv
    <2>4. Full(k, i)
      BY DEF OrderInv
    <2> QED
      BY <1>1, <2>3, <2>4 DEF Full, Number
  <1>7. ASSUME NEW i \in 1..(writeoff + want) PROVE Begun(i)'
    <2>1. i \in 1..Bps
      BY <1>1, Sized
    <2>2. buffer'[bend][i] = Copied(want)[i]
      BY <1>1 DEF PlaceInv
    <2>3. Copied(want)[i] = (base + i - 1) % Period
      <3>1. CASE i <= writeoff
        <4>1. Copied(want)[i] = buffer[bend][i]
          BY <1>1, <2>1, <3>1 DEF Copied
        <4>2. Begun(i)
          BY <1>1, <1>2, <3>1 DEF OrderInv
        <4> QED
          BY <1>3, <1>4, <4>1, <4>2 DEF Begun, Number
      <3>2. CASE i > writeoff
        <4>1. Copied(want)[i] = (sent + i - writeoff - 1) % Period
          BY <1>1, <2>1, <3>2 DEF Copied
        <4>2. PICK x \in Int, y \in Int : x = base + writeoff /\ y = i - writeoff - 1
          BY <1>1
        <4>3. ((x % Period) + y) % Period = (x + y) % Period
          BY Sized, ModShift
        <4>4. sent + i - writeoff - 1 = (x % Period) + y /\ x + y = base + i - 1
          BY <1>1, <1>5, <4>2, Sized, ModRange
        <4> QED
          BY <4>1, <4>3, <4>4
      <3> QED
        BY <1>1, <3>1, <3>2
    <2> QED
      BY <1>1, <1>2, <1>3, <1>4, <2>2, <2>3 DEF Begun, Number
  <1>8. sent' = (base + (writeoff + want)) % Period
    <2>1. PICK x \in Int : x = base + writeoff
      BY <1>1
    <2>2. ((x % Period) + want) % Period = (x + want) % Period
      BY Sized, ModShift
    <2>3. x + want = base + (writeoff + want)
      BY <1>1, <2>1
    <2> QED
      BY <1>1, <1>5, <2>1, <2>2, <2>3
  <1>9. (sent = Number(next + Used * Bps + Partial))'
    BY <1>1, <1>2, <1>4, <1>8 DEF Number
  <1>10. (\A k \in 0..(Used - 1) : \A i \in 1..Bps : Full(k, i))'
    BY <1>2, <1>6
  <1>11. (\A i \in 1..Partial : Begun(i))'
    BY <1>2, <1>7
  <1>12. /\ (rpc \in {"copy", "advance"} => Used > 0)'
         /\ (rpc = "advance" => \A i \in 1..Bps : out[i] = Number(next + i - 1))'
         /\ (rpc = "wrap" \/ (rpc \in {"idle", "test"} /\ out # Silence) =>
                 \A i \in 1..Bps : out[i] = Number(next - Bps + i - 1))'
    BY <1>1, <1>2 DEF OrderInv, Number
  <1> QED
    BY <1>9, <1>10, <1>11, <1>12 DEF OrderInv

(* A sector is complete: what was begun is the last one that is kept.      *)
LEMMA AdvanceOrders ==
    ASSUME PlaceInv, OrderInv, WriteAdvance, Numbered'
    PROVE  OrderInv'
  <1>1. /\ wpc = "advance" /\ wpc' = "wrap" /\ bend' = bend + 1
        /\ (bend + 1) % BUFFCNT # bstart % BUFFCNT
        /\ UNCHANGED <<buffer, bstart, sent, rpc, next, out>>
    BY DEF WriteAdvance, Numbered, PlaceInv, ctlvars, readervars
  <1>2. Partial = Bps /\ Partial' = 0
    BY <1>1 DEF Partial, PlaceInv
  <1>3. Used + 1 < BUFFCNT
    <2>1. Used + 1 # BUFFCNT
      BY <1>1, Around DEF Turns
    <2> QED
      BY <2>1, UsedType, Sized
  <1>4. Used' = Used + 1
    <2>1. bend' - bstart' = bend + 1 - bstart
      BY <1>1, UsedType
    <2>2. Used' = (bend + 1 - bstart) % BUFFCNT
      BY <2>1 DEF Used
    <2> QED
      BY <1>3, <2>2, Around DEF Turns
  <1>5. PICK u \in Int : u = Used /\ u >= 0
    BY UsedType
  <1>6. (u + 1) * Bps = u * Bps + Bps /\ u * Bps \in Int /\ next \in Int
    BY <1>5, Sized DEF PlaceInv
  <1>7. ASSUME NEW k \in 0..u, NEW i \in 1..Bps PROVE Full(k, i)'
    <2>1. CASE k < u
      <3>1. Full(k, i)
        BY <1>5, <2>1 DEF OrderInv
      <3> QED
        BY <1>1, <3>1 DEF Full, Number
    <2>2. CASE k = u
      <3>1. Begun(i)
        BY <1>2 DEF OrderInv
      <3>2. (bstart + k) % BUFFCNT = bend % BUFFCNT
        BY <1>5, <2>2, Around DEF Turns
      <3> QED
        BY <1>1, <1>5, <2>2, <3>1, <3>2 DEF Full, Begun, Number
    <2> QED
      BY <1>5, <2>1, <2>2
  <1>8. (\A k \in 0..(Used - 1) : \A i \in 1..Bps : Full(k, i))'
    <2>1. Used' - 1 = u
      BY <1>4, <1>5
    <2> QED
      BY <1>7, <2>1
  <1>9. (\A i \in 1..Partial : Begun(i))'
    BY <1>2
  <1>10. (sent = Number(next + Used * Bps + Partial))'
    <2>1. sent = (next + u * Bps + Bps) % Period
      BY <1>2, <1>5 DEF OrderInv, Number
    <2>2. next + u * Bps + Bps = next + (u + 1) * Bps + 0
      BY <1>6, Sized
    <2>3. Used' = u + 1
      BY <1>4, <1>5
    <2> QED
      BY <1>1, <1>2, <2>1, <2>2, <2>3 DEF Number
  <1>11. /\ (rpc \in {"copy", "advance"} => Used > 0)'
         /\ (rpc = "advance" => \A i \in 1..Bps : out[i] = Number(next + i - 1))'
         /\ (rpc = "wrap" \/ (rpc \in {"idle", "test"} /\ out # Silence) =>
                 \A i \in 1..Bps : out[i] = Number(next - Bps + i - 1))'
    BY <1>1, <1>4, <1>5 DEF OrderInv, Number
  <1> QED
    BY <1>8, <1>9, <1>10, <1>11 DEF OrderInv

(* An index is set back: nothing moves.                                    *)
LEMMA WrapOrders ==
    ASSUME PlaceInv, WriteWrap
    PROVE  /\ Used' = Used /\ (OrderInv => OrderInv')
           /\ wpc' \in {"perform", "test"} /\ UNCHANGED <<variant, lost, glitch>>
  <1>1. /\ wpc = "wrap" /\ wpc' \in {"perform", "test"} /\ writeoff' = 0
        /\ bend' = IF bend = BUFFCNT THEN 0 ELSE bend
        /\ UNCHANGED <<buffer, bstart, sent, rpc, next, out, variant, lost, glitch>>
    BY DEF WriteWrap, readervars
  <1>2. Partial = 0 /\ Partial' = 0
    BY <1>1 DEF Partial
  <1>3. Used' = Used /\ bend' % BUFFCNT = bend % BUFFCNT
    <2>1. CASE bend = BUFFCNT
      <3>1. PICK x \in Int : x = 0 - bstart
        BY UsedType
      <3>2. (BUFFCNT + x) % BUFFCNT = x % BUFFCNT
        BY Sized, SetBack
      <3>3. BUFFCNT + x = bend - bstart /\ bend' - bstart' = x
        BY <1>1, <2>1, <3>1, UsedType, Sized
      <3>4. BUFFCNT % BUFFCNT = 0 /\ 0 % BUFFCNT = 0
        BY Sized
      <3> QED
        BY <1>1, <2>1, <3>2, <3>3, <3>4 DEF Used
    <2>2. CASE bend # BUFFCNT
      BY <1>1, <2>2 DEF Used
    <2> QED
      BY <2>1, <2>2
  <1>4. ASSUME OrderInv PROVE OrderInv'
    <2>1. (\A k \in 0..(Used - 1) : \A i \in 1..Bps : Full(k, i))'
      BY <1>1, <1>3, <1>4 DEF OrderInv, Full, Number
    <2>2. (\A i \in 1..Partial : Begun(i))'
      BY <1>2
    <2>3. (sent = Number(next + Used * Bps + Partial))'
      BY <1>1, <1>2, <1>3, <1>4 DEF OrderInv, Number
    <2>4. /\ (rpc \in {"copy", "advance"} => Used > 0)'
          /\ (rpc = "advance" => \A i \in 1..Bps : out[i] = Number(next + i - 1))'
          /\ (rpc = "wrap" \/ (rpc \in {"idle", "test"} /\ out # Silence) =>
                  \A i \in 1..Bps : out[i] = Number(next - Bps + i - 1))'
      BY <1>1, <1>3, <1>4 DEF OrderInv, Number
    <2> QED
      BY <2>1, <2>2, <2>3, <2>4 DEF OrderInv
  <1> QED
    BY <1>1, <1>3, <1>4

(* The reader finds a sector: there is one, but for the glitch.            *)
LEMMA ReadTestOrders ==
    ASSUME PlaceInv, OrderInv, ReadTest, Numbered'
    PROVE  OrderInv'
  <1>1. /\ rpc = "test" /\ rpc' = "copy" /\ bend % BUFFCNT # bstart
        /\ UNCHANGED <<buffer, bstart, bend, writeoff, wpc, sent, next, out>>
    BY DEF ReadTest, Numbered, PlaceInv, ringvars, writervars
  <1>2. Used' = Used /\ Partial' = Partial
    BY <1>1 DEF Used, Partial
  <1>3. Used > 0
    <2>1. bstart \in Int /\ 0 <= bstart /\ bstart < BUFFCNT
      BY <1>1, Sized DEF PlaceInv
    <2>2. bstart % BUFFCNT = bstart
      BY <2>1, Sized, ModSmall
    <2> QED
      BY <1>1, <2>2, UsedType, Around DEF Turns
  <1>4. (\A k \in 0..(Used - 1) : \A i \in 1..Bps : Full(k, i))'
    BY <1>1, <1>2 DEF OrderInv, Full, Number
  <1>5. (\A i \in 1..Partial : Begun(i))' /\ (sent = Number(next + Used * Bps + Partial))'
    BY <1>1, <1>2 DEF OrderInv, Begun, Number
  <1> QED
    BY <1>1, <1>2, <1>3, <1>4, <1>5 DEF OrderInv

LEMMA ReadCopyOrders ==
    ASSUME PlaceInv, OrderInv, ReadCopy
    PROVE  OrderInv'
  <1>1. /\ rpc = "copy" /\ rpc' = "advance" /\ out' = buffer[bstart]
        /\ UNCHANGED <<buffer, bstart, bend, writeoff, wpc, sent, next>>
    BY DEF ReadCopy, ringvars, writervars
  <1>2. Used' = Used /\ Partial' = Partial
    BY <1>1 DEF Used, Partial
  <1>3. Used > 0 /\ Used \in Int
    BY <1>1, UsedType DEF OrderInv
  <1>4. (\A k \in 0..(Used - 1) : \A i \in 1..Bps : Full(k, i))'
    BY <1>1, <1>2 DEF OrderInv, Full, Number
  <1>5. (\A i \in 1..Partial : Begun(i))' /\ (sent = Number(next + Used * Bps + Partial))'
    BY <1>1, <1>2 DEF OrderInv, Begun, Number
  <1>6. ASSUME NEW i \in 1..Bps PROVE out'[i] = Number(next + i - 1)
    <2>1. 0 \in 0..(Used - 1)
      BY <1>3
    <2>2. Full(0, i)
      BY <2>1 DEF OrderInv
    <2>3. bstart + 0 = bstart /\ next + 0 * Bps + i - 1 = next + i - 1
      BY Sized DEF PlaceInv
    <2>4. bstart % BUFFCNT = bstart
      <3>1. bstart \in Int /\ 0 <= bstart /\ bstart < BUFFCNT
        BY <1>1, Sized DEF PlaceInv
      <3> QED
        BY <3>1, Sized, ModSmall
    <2> QED
      BY <1>1, <2>2, <2>3, <2>4 DEF Full
  <1> QED
    BY <1>1, <1>2, <1>3, <1>4, <1>5, <1>6 DEF OrderInv, Number

(* The reader gives a sector back: the ones behind it move up.             *)
LEMMA ReadAdvanceOrders ==
    ASSUME PlaceInv, OrderInv, ReadAdvance, Numbered
    PROVE  OrderInv' /\ Used' = Used - 1 /\ Used > 0
  <1>1. /\ rpc = "advance" /\ rpc' = "wrap" /\ bstart' = bstart + 1
        /\ next' = (next + Bps) % Period
        /\ UNCHANGED <<buffer, bend, writeoff, wpc, sent, out>>
    BY DEF ReadAdvance, writervars
  <1>2. Partial' = Partial
    BY <1>1 DEF Partial
  <1>3. Used > 0
    BY <1>1 DEF OrderInv
  <1>4. Used' = Used - 1
    <2>1. Used' = (bend - (bstart + 1)) % BUFFCNT
      BY <1>1 DEF Used
    <2> QED
      BY <1>3, <2>1, Around DEF Turns
  <1>5. PICK u \in Int : u = Used /\ u > 0
    BY <1>3, UsedType
  <1>6. next \in Int /\ next + Bps \in Int
    BY Sized DEF PlaceInv
  <1>7. PICK p \in Int : p = Partial
    BY Sized DEF Partial, PlaceInv
  <1>8. \A y \in Int : (((next + Bps) % Period) + y) % Period = (next + Bps + y) % Period
    <2>1. PICK x \in Int : x = next + Bps
      BY <1>6
    <2> QED
      BY <2>1, Sized, ModShift
  <1>9. ASSUME NEW k \in 0..(u - 2), NEW i \in 1..Bps PROVE Full(k, i)'
    <2>1. PICK m \in Int : m = k + 1 /\ m \in 0..(u - 1)
      BY <1>5
    <2>2. buffer[(bstart + m) % BUFFCNT][i] = (next + m * Bps + i - 1) % Period
      BY <1>5, <2>1 DEF OrderInv, Full, Number
    <2>3. PICK y \in Int : y = k * Bps + i - 1
      BY Sized
    <2>4. bstart + m = bstart + 1 + k /\ next + m * Bps + i - 1 = next + Bps + y
      BY <1>6, <2>1, <2>3, Sized, UsedType
    <2>5. next' + k * Bps + i - 1 = ((next + Bps) % Period) + y
      BY <1>1, <1>6, <2>3, Sized, ModRange
    <2> QED
      BY <1>1, <1>8, <2>2, <2>4, <2>5 DEF Full, Number
  <1>10. (\A k \in 0..(Used - 1) : \A i \in 1..Bps : Full(k, i))'
    <2>1. Used' - 1 = u - 2
      BY <1>4, <1>5
    <2> QED
      BY <1>9, <2>1
  <1>11. ASSUME NEW y \in Int PROVE (next + u * Bps + y) % Period = (next' + Used' * Bps + y) % Period
    <2>1. PICK z \in Int : z = (u - 1) * Bps + y
      BY Sized
    <2>2. next + Bps + z = next + u * Bps + y
      BY <1>6, <2>1, Sized
    <2>3. Used' = u - 1
      BY <1>4, <1>5
    <2>4. next' + Used' * Bps + y = ((next + Bps) % Period) + z
      BY <1>1, <1>6, <2>1, <2>3, Sized, ModRange
    <2> QED
      BY <1>8, <2>2, <2>4
  <1>12. (\A i \in 1..Partial : Begun(i))'
    <2> SUFFICES ASSUME NEW i \in 1..p PROVE Begun(i)'
      BY <1>2, <1>7
    <2>1. PICK y \in Int : y = i - 1
      OBVIOUS
    <2>2. buffer[bend % BUFFCNT][i] = (next + u * Bps + i - 1) % Period
      BY <1>5, <1>7 DEF OrderInv, Begun, Number
    <2>3. next + u * Bps + i - 1 = next + u * Bps + y
      BY <1>6, <2>1, Sized
    <2>4. next' + Used' * Bps + i - 1 = next' + Used' * Bps + y
      BY <1>1, <1>4, <1>5, <1>6, <2>1, Sized, ModRange
    <2> QED
      BY <1>1, <1>11, <2>2, <2>3, <2>4 DEF Begun, Number
  <1>13. (sent = Number(next + Used * Bps + Partial))'
    BY <1>1, <1>2, <1>5, <1>7, <1>11 DEF OrderInv, Number
  <1>14. ASSUME NEW i \in 1..Bps PROVE out[i] = (next' - Bps + i - 1) % Period
    <2>1. PICK y \in Int : y = i - 1 - Bps
      BY Sized
    <2>2. next + Bps + y = next + i - 1
      BY <1>6, <2>1, Sized
    <2>3. next' - Bps + i - 1 = ((next + Bps) % Period) + y
      BY <1>1, <1>6, <2>1, Sized, ModRange
    <2>4. out[i] = (next + i - 1) % Period
      BY <1>1 DEF OrderInv, Number
    <2> QED
      BY <1>8, <2>2, <2>3, <2>4
  <1>15. OrderInv'
    BY <1>1, <1>10, <1>12, <1>13, <1>14 DEF OrderInv, Number
  <1> QED
    BY <1>3, <1>4, <1>15

LEMMA ReadWrapOrders ==
    ASSUME PlaceInv, ReadWrap
    PROVE  /\ Used' = Used /\ (OrderInv => OrderInv')
           /\ UNCHANGED <<variant, lost, glitch, wpc>>
  <1>1. /\ rpc = "wrap" /\ rpc' \in {"idle", "test"}
        /\ bstart' = IF bstart = BUFFCNT THEN 0 ELSE bstart
        /\ UNCHANGED <<buffer, bend, writeoff, wpc, sent, next, out, variant, lost, glitch>>
    BY DEF ReadWrap, ReadNext, writervars
  <1>2. Partial' = Partial
    BY <1>1 DEF Partial
  <1>3. Used' = Used
    <2>1. CASE bstart = BUFFCNT
      <3>1. PICK x \in Int : x = bend
        BY UsedType
      <3>2. (x - BUFFCNT) % BUFFCNT = x % BUFFCNT
        BY Sized, SetBack
      <3>3. x - BUFFCNT = bend - bstart /\ bend' - bstart' = x
        BY <1>1, <2>1, <3>1, UsedType, Sized
      <3> QED
        BY <3>2, <3>3 DEF Used
    <2>2. CASE bstart # BUFFCNT
      BY <1>1, <2>2 DEF Used
    <2> QED
      BY <2>1, <2>2
  <1>4. ASSUME OrderInv PROVE OrderInv'
    <2>1. ASSUME NEW k \in 0..(Used - 1), NEW i \in 1..Bps PROVE Full(k, i)'
      <3>1. Full(k, i)
        BY <1>4 DEF OrderInv
      <3>2. (bstart' + k) % BUFFCNT = (bstart + k) % BUFFCNT
        <4>1. CASE bstart = BUFFCNT
          <5>1. (BUFFCNT + k) % BUFFCNT = k % BUFFCNT
            BY Sized, UsedType, SetBack
          <5>2. bstart' + k = k
            BY <1>1, <4>1, UsedType
          <5> QED
            BY <4>1, <5>1, <5>2
        <4>2. CASE bstart # BUFFCNT
          BY <1>1, <4>2
        <4> QED
          BY <4>1, <4>2
      <3> QED
        BY <1>1, <3>1, <3>2 DEF Full, Number
    <2>2. (\A k \in 0..(Used - 1) : \A i \in 1..Bps : Full(k, i))'
      BY <1>3, <2>1
    <2>3. (\A i \in 1..Partial : Begun(i))' /\ (sent = Number(next + Used * Bps + Partial))'
      BY <1>1, <1>2, <1>3, <1>4 DEF OrderInv, Begun, Number
    <2>4. /\ (rpc \in {"copy", "advance"} => Used > 0)'
          /\ (rpc = "advance" => \A i \in 1..Bps : out[i] = Number(next + i - 1))'
          /\ (rpc = "wrap" \/ (rpc \in {"idle", "test"} /\ out # Silence) =>
                  \A i \in 1..Bps : out[i] = Number(next - Bps + i - 1))'
      BY <1>1, <1>4 DEF OrderInv, Number
    <2> QED
      BY <2>2, <2>3, <2>4 DEF OrderInv
  <1> QED
    BY <1>1, <1>3, <1>4

-----------------------------------------------------------------------------
(* Together.                                                               *)

LEMMA OrderStep == RingInv /\ [Next]_vars /\ Numbered' => OrderInv'
  <1> SUFFICES ASSUME PlaceInv, Numbered => OrderInv, [Next]_vars, Numbered' PROVE OrderInv'
    BY DEF RingInv
  <1> USE DEF ringvars, ctlvars, writervars, readervars, Partial
  <1>1. CASE UNCHANGED vars
    BY <1>1, OrderFrame DEF vars, Numbered
  <1>2. CASE Perform
    BY <1>2, OrderFrame DEF Perform, Numbered
  <1>3. CASE Data
    <2>1. PICK n \in Sizes : CurlData(n)
      BY <1>3 DEF Data
    <2> QED
      BY <2>1, OrderFrame DEF CurlData, Numbered
  <1>4. CASE PerformReturns
    BY <1>4, OrderFrame DEF PerformReturns, Numbered
  <1>5. CASE TransferFails
    BY <1>5, OrderFrame DEF TransferFails, Numbered
  <1>6. CASE TransferEnds
    BY <1>6, OrderFrame DEF TransferEnds, Numbered
  <1>7. CASE WriteTest
    <2>1. glitch => glitch'
      BY <1>7 DEF WriteTest, PlaceInv
    <2> QED
      BY <1>7, <2>1, OrderFrame DEF WriteTest, Numbered
  <1>8. CASE WriteStopped
    BY <1>8 DEF WriteStopped, Numbered
  <1>9. CASE WriteCopy
    <2>1. Numbered
      BY <1>9 DEF WriteCopy, Numbered
    <2> QED
      BY <1>9, <2>1, CopyOrders
  <1>10. CASE WriteAdvance
    <2>1. Numbered
      BY <1>10 DEF WriteAdvance, Numbered, PlaceInv
    <2> QED
      BY <1>10, <2>1, AdvanceOrders
  <1>11. CASE WriteWrap
    BY <1>11, WrapOrders DEF Numbered
  <1>12. ASSUME NEW n \in Lens, ReadBegin(n) PROVE OrderInv'
    BY <1>12, OrderFrame DEF ReadBegin, Numbered
  <1>13. CASE ReadSilence
    BY <1>13, OrderFrame DEF ReadSilence, ReadNext, Numbered
  <1>14. CASE ReadTest
    <2>1. Numbered
      BY <1>14 DEF ReadTest, Numbered, PlaceInv
    <2> QED
      BY <1>14, <2>1, ReadTestOrders
  <1>15. CASE ReadCopy
    BY <1>15, ReadCopyOrders DEF ReadCopy, Numbered
  <1>16. CASE ReadAdvance
    <2>1. Numbered
      BY <1>16 DEF ReadAdvance, Numbered
    <2> QED
      BY <1>16, <2>1, ReadAdvanceOrders
  <1>17. CASE ReadWrap
    BY <1>17, ReadWrapOrders DEF Numbered
  <1>18. CASE Pause
    BY <1>18, OrderFrame DEF Pause, Command, Numbered
  <1>19. CASE OpenUrl
    BY <1>19, OrderFrame DEF OpenUrl, Command, Numbered
  <1>20. CASE AddUrl
    BY <1>20, OrderFrame DEF AddUrl, Numbered
  <1>21. CASE TestStopped
    BY <1>21, OrderFrame DEF TestStopped, Numbered
  <1>22. CASE Resume
    BY <1>22, OrderFrame DEF Resume, Numbered
  <1>23. CASE StopUrl
    BY <1>23, OrderFrame DEF StopUrl, Command, Numbered
  <1>24. CASE EmptyStart
    BY <1>24 DEF EmptyStart, Numbered
  <1>25. CASE EmptyEnd
    BY <1>25 DEF EmptyEnd, Numbered, PlaceInv
  <1> QED
    BY <1>1, <1>2, <1>3, <1>4, <1>5, <1>6, <1>7, <1>8, <1>9, <1>10, <1>11, <1>12, <1>13, <1>14,
       <1>15, <1>16, <1>17, <1>18, <1>19, <1>20, <1>21, <1>22, <1>23, <1>24, <1>25
       DEF Next, Writer, Reader

LEMMA RingInit == Init => RingInv
  <1> SUFFICES ASSUME Init PROVE RingInv
    OBVIOUS
  <1>1. /\ bstart = 0 /\ bend = 0 /\ writeoff = 0 /\ sent = 0 /\ next = 0
        /\ wpc = "outer" /\ rpc = "idle" /\ out = Silence /\ lost = FALSE
    BY DEF Init
  <1>2. Used = 0 /\ Partial = 0
    <2>1. bend - bstart = 0 /\ 0 % BUFFCNT = 0
      BY <1>1, Sized
    <2> QED
      BY <1>1, <2>1 DEF Used, Partial
  <1>4. sent = Number(next + Used * Bps + Partial)
    <2>1. next + Used * Bps + Partial = 0 /\ 0 % Period = 0
      BY <1>1, <1>2, Sized
    <2> QED
      BY <1>1, <2>1 DEF Number
  <1>5. OrderInv
    BY <1>1, <1>2, <1>4 DEF OrderInv
  <1> QED
    BY <1>5, PlaceInit DEF RingInv

LEMMA RingStep == RingInv /\ [Next]_vars => RingInv'
  <1>1. RingInv /\ [Next]_vars => PlaceInv'
    BY PlaceStep DEF RingInv
  <1>2. RingInv /\ [Next]_vars => (Numbered => OrderInv)'
    BY OrderStep
  <1> QED
    BY <1>1, <1>2 DEF RingInv

(* The bytes stay in order in a buffer of any size, however the threads    *)
(* interleave: what the file has got and what the buffer holds follow each *)
(* other, unless bytes are overwritten or thrown away, and glitches        *)
(* excepted.                                                               *)
THEOREM StreamRingInOrder == Spec => []RingInOrder
  <1>1. RingInv => RingInOrder
    BY DEF RingInv, OrderInv, RingInOrder, Full, Begun, Number
  <1>2. Spec => []RingInv
    BY RingInit, RingStep, PTL DEF Spec
  <1> QED
    BY <1>1, <1>2, PTL
=============================================================================
