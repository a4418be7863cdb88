------------------------------- MODULE Word32 -------------------------------
(***************************************************************************)
(* The unsigned 32-bit integers in which libvdf counts sectors and         *)
(* clusters (sectcnt_t, clustcnt_t, sector_t of include/vdf.h).  TLC's own *)
(* integers have 32 bits and a sign, so a word is a pair <<high, low>> of  *)
(* halves below 2^16.  Every operation wraps at 2^32 as C's does.  A pair  *)
(* whose high half is larger stands for a 64-bit drive size (drivesz_t).   *)
(***************************************************************************)
EXTENDS Integers

Half == 65536

Word == (0 .. Half - 1) \X (0 .. Half - 1)

(* The word of a number below 2^31.                                        *)
W(n) == <<n \div Half, n % Half>>

(* The conversion of a 64-bit value to 32 bits.                            *)
Truncated(w) == <<w[1] % Half, w[2]>>

Plus(a, b) ==
    LET low == a[2] + b[2]
    IN  <<(a[1] + b[1] + low \div Half) % Half, low % Half>>

(* a - b: a borrow below zero comes back as a value close to 2^32.         *)
Minus(a, b) ==
    LET low == a[2] - b[2]
    IN  <<(a[1] - b[1] + low \div Half) % Half, low % Half>>

(* a * k and a / d for factors up to 2^14; the first one in 64 bits.       *)
WideTimes(a, k) ==
    LET low == a[2] * k
    IN  <<a[1] * k + low \div Half, low % Half>>

Times(a, k) == Truncated(WideTimes(a, k))

Over(a, d) == <<a[1] \div d, ((a[1] % d) * Half + a[2]) \div d>>

Remainder(a, d) == ((a[1] % d) * Half + a[2]) % d

Below(a, b) == a[1] < b[1] \/ (a[1] = b[1] /\ a[2] < b[2])

WidePlus(a, n) == <<a[1] + (a[2] + n) \div Half, (a[2] + n) % Half>>

(* a += d - 1; a /= d, and a += d - 1; a &= ~(d - 1) for a power of two d. *)
CeilOver(a, d) == Over(Plus(a, W(d - 1)), d)
RoundUp(a, d) == Times(CeilOver(a, d), d)
=============================================================================
