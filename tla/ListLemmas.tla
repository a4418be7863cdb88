----------------------------- MODULE ListLemmas -----------------------------
(***************************************************************************)
(* The lists of libvdf/list.h are sequences in the models: list_add() and  *)
(* list_add_tail() put an element at an end, list_del() takes one out.     *)
(* These are the facts about them that the proofs share.                   *)
(***************************************************************************)
EXTENDS Integers, FiniteSets, SequencesExt, FiniteSetTheorems, SequenceTheorems,
        WellFoundedInduction, TLAPS

(* No element is on the list twice.                                        *)
Distinct(s) == \A i, j \in DOMAIN s : s[i] = s[j] => i = j

(* RemoveAt() is list_del(): everything else stays, in order.              *)
LEMMA RemoveAtProperties ==
    ASSUME NEW S, NEW s \in Seq(S), NEW i \in DOMAIN s
    PROVE  /\ RemoveAt(s, i) \in Seq(S)
           /\ Len(RemoveAt(s, i)) = Len(s) - 1
           /\ \A j \in 1..(Len(s) - 1) : RemoveAt(s, i)[j] = IF j < i THEN s[j] ELSE s[j + 1]
  <1> DEFINE front == SubSeq(s, 1, i - 1)
             back  == SubSeq(s, i + 1, Len(s))
  <1>1. i \in 1..Len(s) /\ Len(s) \in Nat
    BY LenProperties
  <1>2. \A j \in 1..Len(s) : s[j] \in S
    BY ElementOfSeq
  <1>3. /\ front \in Seq(S)
        /\ Len(front) = i - 1
        /\ \A j \in 1..(i - 1) : front[j] = s[j]
    <2>1. \A j \in 1..(i - 1) : s[j] \in S
      BY <1>1, <1>2
    <2>2. /\ front \in Seq(S)
          /\ Len(front) = IF 1 <= i - 1 THEN i - 1 - 1 + 1 ELSE 0
          /\ \A j \in 1..(i - 1 - 1 + 1) : front[j] = s[1 + j - 1]
      BY <1>1, <2>1, SubSeqProperties, SMT
    <2> QED
      BY <1>1, <2>2
  <1>4. /\ back \in Seq(S)
        /\ Len(back) = Len(s) - i
        /\ \A j \in 1..(Len(s) - i) : back[j] = s[i + j]
    <2>1. \A j \in (i + 1)..Len(s) : s[j] \in S
      BY <1>1, <1>2
    <2>2. /\ back \in Seq(S)
          /\ Len(back) = IF i + 1 <= Len(s) THEN Len(s) - (i + 1) + 1 ELSE 0
          /\ \A j \in 1..(Len(s) - (i + 1) + 1) : back[j] = s[i + 1 + j - 1]
      BY <1>1, <2>1, SubSeqProperties, SMT
    <2> QED
      BY <1>1, <2>2
  <1>5. RemoveAt(s, i) = front \o back
    BY DEF RemoveAt
  <1>6. /\ front \o back \in Seq(S)
        /\ Len(front \o back) = Len(front) + Len(back)
        /\ \A j \in 1..(Len(front) + Len(back)) :
               (front \o back)[j] = IF j <= Len(front) THEN front[j] ELSE back[j - Len(front)]
    BY <1>3, <1>4, ConcatProperties
  <1> HIDE DEF front, back
  <1>7. ASSUME NEW j \in 1..(Len(s) - 1)
        PROVE  RemoveAt(s, i)[j] = IF j < i THEN s[j] ELSE s[j + 1]
    <2>1. j \in 1..(Len(front) + Len(back))
      BY <1>1, <1>3, <1>4
    <2>2. (front \o back)[j] = IF j <= Len(front) THEN front[j] ELSE back[j - Len(front)]
      BY <1>6, <2>1
    <2>3. CASE j < i
      BY <1>1, <1>3, <1>5, <2>2, <2>3
    <2>4. CASE j >= i
      <3>1. j - (i - 1) \in 1..(Len(s) - i) /\ i + (j - (i - 1)) = j + 1
        BY <1>1, <2>4
      <3>2. back[j - (i - 1)] = s[j + 1]
        BY <1>4, <3>1
      <3> QED
        BY <1>1, <1>3, <1>5, <2>2, <2>4, <3>2
    <2> QED
      BY <1>1, <2>3, <2>4
  <1>8. RemoveAt(s, i) \in Seq(S) /\ Len(RemoveAt(s, i)) = Len(s) - 1
    BY <1>1, <1>3, <1>4, <1>5, <1>6
  <1> QED
    BY <1>7, <1>8

(* A list without one of its elements: no other element leaves it, none    *)
(* enters, and none is there twice.                                        *)
LEMMA RemoveAtDistinct ==
    ASSUME NEW S, NEW s \in Seq(S), Distinct(s), NEW i \in DOMAIN s
    PROVE  /\ Distinct(RemoveAt(s, i))
           /\ \A j \in DOMAIN s : j # i => \E k \in DOMAIN RemoveAt(s, i) : RemoveAt(s, i)[k] = s[j]
  <1> DEFINE r == RemoveAt(s, i)
  <1>1. /\ r \in Seq(S)
        /\ Len(r) = Len(s) - 1
        /\ \A j \in 1..(Len(s) - 1) : r[j] = IF j < i THEN s[j] ELSE s[j + 1]
    BY RemoveAtProperties
  <1>2. DOMAIN r = 1..(Len(s) - 1) /\ DOMAIN s = 1..Len(s) /\ Len(s) \in Nat
    BY <1>1, LenProperties
  <1> HIDE DEF r
  <1>3. Distinct(r)
    <2>1. SUFFICES ASSUME NEW j \in DOMAIN r, NEW k \in DOMAIN r, r[j] = r[k]
                   PROVE  j = k
      BY DEF Distinct
    <2> DEFINE old(a) == IF a < i THEN a ELSE a + 1
    <2>2. \A a, b \in 1..Len(s) : s[a] = s[b] => a = b
      BY <1>2 DEF Distinct
    <2>3. old(j) \in 1..Len(s) /\ old(k) \in 1..Len(s)
      BY <1>2
    <2>4. r[j] = s[old(j)] /\ r[k] = s[old(k)]
      BY <1>1, <1>2
    <2>5. old(j) = old(k)
      BY <2>1, <2>2, <2>3, <2>4
    <2> QED
      BY <1>2, <2>5
  <1>4. ASSUME NEW j \in DOMAIN s, j # i
        PROVE  \E k \in DOMAIN r : r[k] = s[j]
    <2>1. CASE j < i
      BY <1>1, <1>2, <2>1
    <2>2. CASE j > i
      <3>1. j - 1 \in DOMAIN r /\ r[j - 1] = s[j]
        BY <1>1, <1>2, <2>2
      <3> QED
        BY <3>1
    <2> QED
      BY <1>2, <1>4, <2>1, <2>2
  <1> QED
    BY <1>3, <1>4 DEF r

(* What is left is in the order it was in, and it is all but the element   *)
(* that was taken out.                                                     *)
LEMMA RemoveAtOrder ==
    ASSUME NEW S, NEW s \in Seq(S), Distinct(s), NEW i \in DOMAIN s
    PROVE  /\ Range(RemoveAt(s, i)) = Range(s) \ {s[i]}
           /\ \A j, k \in DOMAIN s :
                  j <= k /\ j # i /\ k # i =>
                      \E a, b \in DOMAIN RemoveAt(s, i) :
                          a <= b /\ RemoveAt(s, i)[a] = s[j] /\ RemoveAt(s, i)[b] = s[k]
  <1> DEFINE r == RemoveAt(s, i)
             new(a) == IF a < i THEN a ELSE a - 1
             old(a) == IF a < i THEN a ELSE a + 1
  <1>1. /\ r \in Seq(S)
        /\ Len(r) = Len(s) - 1
        /\ \A j \in 1..(Len(s) - 1) : r[j] = IF j < i THEN s[j] ELSE s[j + 1]
    BY RemoveAtProperties
  <1>2. DOMAIN r = 1..(Len(s) - 1) /\ DOMAIN s = 1..Len(s) /\ Len(s) \in Nat
    BY <1>1, LenProperties
  <1> HIDE DEF r
  <1>3. \A j \in DOMAIN s : j # i => new(j) \in DOMAIN r /\ r[new(j)] = s[j]
    BY <1>1, <1>2
  <1>4. \A j, k \in DOMAIN s : j <= k /\ j # i /\ k # i => new(j) <= new(k)
    BY <1>2
  <1>5. \A j \in DOMAIN r : old(j) \in DOMAIN s /\ old(j) # i /\ r[j] = s[old(j)]
    BY <1>1, <1>2
  <1> HIDE DEF new, old
  <1>6. Range(r) = Range(s) \ {s[i]}
    <2>1. ASSUME NEW x \in Range(r) PROVE x \in Range(s) \ {s[i]}
      <3>1. PICK j \in DOMAIN r : x = r[j]
        BY <2>1 DEF Range
      <3>2. old(j) \in DOMAIN s /\ old(j) # i /\ x = s[old(j)]
        BY <1>5, <3>1
      <3> QED
        BY <3>2 DEF Range, Distinct
    <2>2. ASSUME NEW x \in Range(s), x # s[i] PROVE x \in Range(r)
      <3>1. PICK j \in DOMAIN s : x = s[j]
        BY <2>2 DEF Range
      <3>2. new(j) \in DOMAIN r /\ r[new(j)] = x
        BY <1>3, <2>2, <3>1
      <3> QED
        BY <3>2 DEF Range
    <2> QED
      BY <2>1, <2>2
  <1>7. \A j, k \in DOMAIN s : j <= k /\ j # i /\ k # i =>
            \E a, b \in DOMAIN r : a <= b /\ r[a] = s[j] /\ r[b] = s[k]
    BY <1>3, <1>4
  <1> QED
    BY <1>6, <1>7 DEF r

(* An element is appended to a list that it is not on.                     *)
LEMMA AppendDistinct ==
    ASSUME NEW S, NEW s \in Seq(S), Distinct(s), NEW e \in S, e \notin Range(s)
    PROVE  /\ Append(s, e) \in Seq(S) /\ Distinct(Append(s, e))
           /\ Len(Append(s, e)) = Len(s) + 1
           /\ Range(Append(s, e)) = Range(s) \cup {e}
  <1> DEFINE r == Append(s, e)
  <1>1. /\ r \in Seq(S) /\ Len(r) = Len(s) + 1
        /\ \A i \in 1..Len(s) : r[i] = s[i]
        /\ r[Len(s) + 1] = e
    BY AppendProperties
  <1>2. DOMAIN r = 1..(Len(s) + 1) /\ DOMAIN s = 1..Len(s) /\ Len(s) \in Nat
    BY <1>1, LenProperties
  <1>3. \A i \in 1..Len(s) : s[i] # e
    BY <1>2 DEF Range
  <1> HIDE DEF r
  <1>4. Distinct(r)
    BY <1>1, <1>2, <1>3 DEF Distinct
  <1>5. Range(r) = Range(s) \cup {e}
    <2>1. ASSUME NEW i \in DOMAIN r PROVE r[i] \in Range(s) \cup {e}
      BY <1>1, <1>2 DEF Range
    <2>2. ASSUME NEW i \in DOMAIN s PROVE s[i] \in Range(r)
      BY <1>1, <1>2 DEF Range
    <2>3. e \in Range(r)
      BY <1>1, <1>2 DEF Range
    <2> QED
      BY <2>1, <2>2, <2>3 DEF Range
  <1> QED
    BY <1>1, <1>4, <1>5 DEF r

(* RemoveFirst() is list_del() of an element that is known by its name.    *)
LEMMA RemoveFirstIs ==
    ASSUME NEW S, NEW s \in Seq(S), Distinct(s), NEW e \in Range(s)
    PROVE  \E i \in DOMAIN s : s[i] = e /\ RemoveFirst(s, e) = RemoveAt(s, i)
  <1>1. DOMAIN s = 1..Len(s) /\ Len(s) \in Nat
    BY LenProperties
  <1>2. PICK i \in DOMAIN s : s[i] = e
    BY DEF Range
  <1>3. {j \in 1..Len(s) : s[j] = e} = {i}
    BY <1>1, <1>2 DEF Distinct
  <1>4. Min({i}) = i
    <2>1. i \in Int /\ i <= i
      BY <1>1
    <2> QED
      BY <2>1 DEF Min
  <1>5. SelectInSeq(s, LAMBDA v : v = e) = i
    BY <1>3, <1>4 DEF SelectInSeq
  <1>6. RemoveFirst(s, e) = RemoveAt(s, i)
    BY <1>1, <1>2, <1>5 DEF RemoveFirst
  <1> QED
    BY <1>2, <1>6

LEMMA RemoveFirstDistinct ==
    ASSUME NEW S, NEW s \in Seq(S), Distinct(s), NEW e \in Range(s)
    PROVE  /\ RemoveFirst(s, e) \in Seq(S) /\ Distinct(RemoveFirst(s, e))
           /\ Range(RemoveFirst(s, e)) = Range(s) \ {e}
  <1>1. PICK i \in DOMAIN s : s[i] = e /\ RemoveFirst(s, e) = RemoveAt(s, i)
    BY RemoveFirstIs
  <1> QED
    BY <1>1, RemoveAtProperties, RemoveAtDistinct, RemoveAtOrder

LEMMA RemoveFirstLength ==
    ASSUME NEW S, NEW s \in Seq(S), Distinct(s), NEW e \in Range(s)
    PROVE  Len(RemoveFirst(s, e)) = Len(s) - 1
  <1>1. PICK i \in DOMAIN s : s[i] = e /\ RemoveFirst(s, e) = RemoveAt(s, i)
    BY RemoveFirstIs
  <1> QED
    BY <1>1, RemoveAtProperties

(* An element is put before a list that it is not on.                      *)
LEMMA PrependDistinct ==
    ASSUME NEW S, NEW s \in Seq(S), Distinct(s), NEW e \in S, e \notin Range(s)
    PROVE  /\ <<e>> \o s \in Seq(S) /\ Distinct(<<e>> \o s)
           /\ Range(<<e>> \o s) = Range(s) \cup {e}
  <1> DEFINE r == <<e>> \o s
  <1>0. <<e>> \in Seq(S) /\ Len(<<e>>) = 1 /\ <<e>>[1] = e
    OBVIOUS
  <1>1. /\ r \in Seq(S) /\ Len(r) = 1 + Len(s)
        /\ \A i \in 1..Len(r) : r[i] = IF i <= 1 THEN <<e>>[i] ELSE s[i - 1]
    BY <1>0, ConcatProperties
  <1>2. DOMAIN r = 1..(Len(s) + 1) /\ DOMAIN s = 1..Len(s) /\ Len(s) \in Nat
    BY <1>1, LenProperties
  <1>3. \A i \in 1..Len(s) : s[i] # e
    BY <1>2 DEF Range
  <1> HIDE DEF r
  <1>4. r[1] = e /\ \A i \in 2..(Len(s) + 1) : r[i] = s[i - 1] /\ i - 1 \in DOMAIN s
    BY <1>0, <1>1, <1>2
  <1>5. \A i \in DOMAIN s : r[i + 1] = s[i] /\ i + 1 \in DOMAIN r
    BY <1>2, <1>4
  <1>6. Distinct(r)
    <2>1. SUFFICES ASSUME NEW i \in DOMAIN r, NEW j \in DOMAIN r, r[i] = r[j] PROVE i = j
      BY DEF Distinct
    <2>2. CASE i = 1 \/ j = 1
      BY <1>2, <1>3, <1>4, <2>1, <2>2
    <2>3. CASE i # 1 /\ j # 1
      <3>1. s[i - 1] = s[j - 1] /\ i - 1 \in DOMAIN s /\ j - 1 \in DOMAIN s
        BY <1>2, <1>4, <2>1, <2>3
      <3>2. i - 1 = j - 1
        BY <3>1 DEF Distinct
      <3> QED
        BY <1>2, <3>2
    <2> QED
      BY <2>2, <2>3
  <1>7. Range(r) = Range(s) \cup {e}
    <2>1. ASSUME NEW i \in DOMAIN r PROVE r[i] \in Range(s) \cup {e}
      BY <1>2, <1>4 DEF Range
    <2>2. ASSUME NEW i \in DOMAIN s PROVE s[i] \in Range(r)
      BY <1>5 DEF Range
    <2>3. e \in Range(r)
      BY <1>2, <1>4 DEF Range
    <2> QED
      BY <2>1, <2>2, <2>3 DEF Range
  <1> QED
    BY <1>1, <1>6, <1>7 DEF r

(* A list without duplicates is no longer than the set of its elements.    *)
LEMMA DistinctIsShort ==
    ASSUME NEW S, IsFiniteSet(S), NEW s \in Seq(S), Distinct(s)
    PROVE  Len(s) <= Cardinality(S)
  <1>1. Len(s) \in Nat /\ s \in [1..Len(s) -> S] /\ DOMAIN s = 1..Len(s)
    BY LenProperties
  <1>2. s \in Injection(1..Len(s), S)
    BY <1>1 DEF Distinct, Injection, IsInjective
  <1>3. Cardinality(1..Len(s)) <= Cardinality(S)
    BY <1>2, FS_Injection
  <1>4. Cardinality(1..Len(s)) = IF 1 > Len(s) THEN 0 ELSE Len(s) - 1 + 1
    BY <1>1, FS_Interval, SMTT(40)
  <1> QED
    BY <1>1, <1>3, <1>4

-----------------------------------------------------------------------------
(* Every set of natural numbers has a least element.                       *)
LEMMA NatLeast ==
    ASSUME NEW T \in SUBSET Nat, T # {}
    PROVE  \E x \in T : \A y \in T : x <= y
  <1> DEFINE R == OpToRel(<, Nat)
  <1>1. IsWellFoundedOn(R, Nat)
    BY NatLessThanWellFounded
  <1>2. \A x, y \in Nat : y < x => <<y, x>> \in R
    BY DEF OpToRel
  <1> HIDE DEF R
  <1>3. PICK x \in T : \A y \in T : ~(<<y, x>> \in R)
    BY <1>1, WFMin
  <1>4. x \in Nat /\ \A y \in T : y \in Nat /\ ~(y < x)
    BY <1>2, <1>3
  <1> QED
    BY <1>4

(* Induction over the natural numbers, for a set of them.                  *)
LEMMA SetInduction ==
    ASSUME NEW S, 0 \in S, \A n \in Nat : n \in S => n + 1 \in S
    PROVE  Nat \subseteq S
  <1> DEFINE T == Nat \ S
  <1>1. SUFFICES ASSUME T # {} PROVE FALSE
    OBVIOUS
  <1>2. PICK x \in T : \A y \in T : x <= y
    BY <1>1, NatLeast
  <1>3. x - 1 \in Nat /\ x - 1 \notin T
    BY <1>2
  <1>4. (x - 1) + 1 = x
    BY <1>2
  <1> QED
    BY <1>2, <1>3, <1>4

-----------------------------------------------------------------------------
(* Sequences: given by their elements, joined and cut.                     *)
LEMMA Listing ==
    ASSUME NEW U, NEW n \in Nat, NEW f \in [1..n -> U]
    PROVE  f \in Seq(U) /\ Len(f) = n /\ DOMAIN f = 1..n
  OBVIOUS

LEMMA SingleList ==
    ASSUME NEW U, NEW x \in U
    PROVE  <<x>> \in Seq(U) /\ Len(<<x>>) = 1 /\ <<x>>[1] = x
  OBVIOUS

LEMMA JoinedList ==
    ASSUME NEW U, NEW a \in Seq(U), NEW b \in Seq(U)
    PROVE  /\ a \o b \in Seq(U)
           /\ Len(a) \in Nat /\ Len(b) \in Nat
           /\ Len(a \o b) = Len(a) + Len(b)
           /\ \A i \in 1..Len(a) : (a \o b)[i] = a[i]
           /\ \A i \in 1..Len(b) : (a \o b)[Len(a) + i] = b[i]
  <1>1. Len(a) \in Nat /\ Len(b) \in Nat
    BY LenProperties
  <1>2. /\ a \o b \in Seq(U) /\ Len(a \o b) = Len(a) + Len(b)
        /\ \A i \in 1..(Len(a) + Len(b)) :
               (a \o b)[i] = IF i <= Len(a) THEN a[i] ELSE b[i - Len(a)]
    BY ConcatProperties
  <1>3. ASSUME NEW i \in 1..Len(b) PROVE (a \o b)[Len(a) + i] = b[i]
    <2>1. Len(a) + i \in 1..(Len(a) + Len(b)) /\ ~(Len(a) + i <= Len(a)) /\ (Len(a) + i) - Len(a) = i
      BY <1>1
    <2> QED
      BY <1>2, <2>1
  <1> QED
    BY <1>1, <1>2, <1>3

LEMMA CutList ==
    ASSUME NEW U, NEW s \in Seq(U), NEW m \in Nat, NEW n \in Nat, NEW last, last = m + n,
           last <= Len(s)
    PROVE  /\ SubSeq(s, m + 1, last) \in Seq(U)
           /\ Len(SubSeq(s, m + 1, last)) = n
           /\ \A i \in 1..n : SubSeq(s, m + 1, last)[i] = s[m + i]
  <1>1. Len(s) \in Nat
    BY LenProperties
  <1>2. \A i \in (m + 1)..(m + n) : s[i] \in U
    BY <1>1, ElementOfSeq
  <1>3. /\ SubSeq(s, m + 1, m + n) \in Seq(U)
        /\ Len(SubSeq(s, m + 1, m + n)) = IF m + 1 <= m + n THEN (m + n) - (m + 1) + 1 ELSE 0
        /\ \A i \in 1..((m + n) - (m + 1) + 1) : SubSeq(s, m + 1, m + n)[i] = s[(m + 1) + i - 1]
    BY <1>1, <1>2, SubSeqProperties, SMT
  <1> QED
    BY <1>3

-----------------------------------------------------------------------------
(* FlattenSeq() puts the parts of q one behind the other.  Flattens(F, q,  *)
(* n) says that F[i] is what the first i parts make.                       *)
Concat(a, b) == a \o b

Agree(q, r, n)    == \A i \in 1..n : q[i] = r[i]
EmptyBehind(q, n) == \A i \in (n + 1)..Len(q) : q[i] = <<>>

Flattens(F, q, n) == F[0] = <<>> /\ \A i \in 1..n : F[i] = Concat(F[i - 1], q[i])

LEMMA ConcatType ==
    ASSUME NEW U, NEW a \in Seq(U), NEW b \in Seq(U)
    PROVE  Concat(a, b) \in Seq(U) /\ Concat(<<>>, b) = b /\ Concat(a, <<>>) = a
  BY ConcatEmptySeq, ConcatProperties DEF Concat

LEMMA FlattenExists ==
    ASSUME NEW U, NEW q \in Seq(Seq(U))
    PROVE  \E F \in [0..Len(q) -> Seq(U)] : Flattens(F, q, Len(q))
  <1> DEFINE Is(F, m) == F \in [0..m -> Seq(U)] /\ Flattens(F, q, m)
             S == {m \in Nat : m <= Len(q) => \E F : Is(F, m)}
  <1>0. Len(q) \in Nat /\ \A i \in 1..Len(q) : q[i] \in Seq(U)
    BY LenProperties, ElementOfSeq
  <1>1. 0 \in S
    <2>1. <<>> \in Seq(U)
      OBVIOUS
    <2>2. Is([i \in 0..0 |-> <<>>], 0)
      BY <2>1 DEF Flattens
    <2> HIDE DEF Is
    <2> QED
      BY <2>2
  <1>2. ASSUME NEW m \in Nat, m \in S PROVE m + 1 \in S
    <2> HIDE DEF Is
    <2>1. SUFFICES ASSUME m + 1 <= Len(q) PROVE \E F : Is(F, m + 1)
      OBVIOUS
    <2>2. PICK F : Is(F, m)
      BY <1>0, <1>2, <2>1
    <2> DEFINE G == [i \in 0..(m + 1) |-> IF i <= m THEN F[i] ELSE Concat(F[m], q[m + 1])]
    <2>3. q[m + 1] \in Seq(U) /\ F[m] \in Seq(U)
      BY <1>0, <2>1, <2>2 DEF Is
    <2>4. Concat(F[m], q[m + 1]) \in Seq(U)
      BY <2>3, ConcatType
    <2>5. G \in [0..(m + 1) -> Seq(U)] /\ G[0] = <<>>
      BY <2>2, <2>4 DEF Is, Flattens
    <2>6. ASSUME NEW i \in 1..(m + 1) PROVE G[i] = Concat(G[i - 1], q[i])
      <3>1. CASE i = m + 1
        BY <3>1
      <3>2. CASE i <= m
        BY <2>2, <3>2 DEF Is, Flattens
      <3> QED
        BY <3>1, <3>2
    <2>7. Is(G, m + 1)
      BY <2>5, <2>6 DEF Is, Flattens
    <2> HIDE DEF G
    <2> QED
      BY <2>7
  <1>3. Len(q) \in S
    <2> HIDE DEF S
    <2> QED
      BY <1>0, <1>1, <1>2, SetInduction
  <1> QED
    BY <1>0, <1>3

LEMMA FlattenIs ==
    ASSUME NEW U, NEW q \in Seq(Seq(U)), NEW F, F \in [0..Len(q) -> Seq(U)],
           Flattens(F, q, Len(q))
    PROVE  FlattenSeq(q) = F[Len(q)]
  <1>0. Len(q) \in Nat /\ \A i \in 1..Len(q) : q[i] \in Seq(U)
    BY LenProperties, ElementOfSeq
  <1>1. PICK n \in Nat : n = Len(q)
    BY <1>0
  <1> DEFINE Is(f) == f = [i \in 1..n |-> IF i = 1 THEN q[i] ELSE Concat(f[i - 1], q[i])]
             f == CHOOSE g : Is(g)
             S == {m \in Nat : m \in 1..n => f[m] = F[m]}
  <1>2. CASE n = 0
    <2>1. q = <<>>
      BY <1>1, <1>2, EmptySeq
    <2> QED
      BY <1>1, <1>2, <2>1 DEF FlattenSeq, Flattens
  <1>3. CASE n > 0
    <2>0. F[1] = q[1]
      <3>1. F[1] = Concat(F[0], q[1]) /\ F[0] = <<>> /\ q[1] \in Seq(U)
        BY <1>0, <1>1, <1>3 DEF Flattens
      <3> QED
        BY <3>1, ConcatType
    <2>1. Is([i \in 1..n |-> F[i]])
      BY <1>1, <2>0 DEF Flattens
    <2>2. Is(f)
      <3> HIDE DEF Is
      <3> QED
        BY <2>1
    <2>7. FlattenSeq(q) = f[n]
      BY <1>1, <1>3 DEF FlattenSeq, Concat
    <2> HIDE DEF f
    <2>3. 0 \in S
      OBVIOUS
    <2>4. ASSUME NEW m \in Nat, m \in S PROVE m + 1 \in S
      <3>1. SUFFICES ASSUME m + 1 \in 1..n PROVE f[m + 1] = F[m + 1]
        OBVIOUS
      <3>2. CASE m = 0
        BY <1>3, <2>0, <2>2, <3>2
      <3>3. CASE m > 0
        <4>1. m \in 1..n /\ f[m] = F[m]
          BY <2>4, <3>1, <3>3
        <4>2. f[m + 1] = Concat(f[m], q[m + 1])
          BY <2>2, <3>1, <3>3
        <4>3. F[m + 1] = Concat(F[m], q[m + 1])
          BY <1>1, <3>1 DEF Flattens
        <4> QED
          BY <4>1, <4>2, <4>3
      <3> QED
        BY <3>2, <3>3
    <2>5. n \in S
      <3> HIDE DEF S
      <3> QED
        BY <2>3, <2>4, SetInduction
    <2> QED
      BY <1>1, <1>3, <2>5, <2>7
  <1> QED
    BY <1>2, <1>3

(* Empty sequences at the end add nothing.                                 *)
LEMMA FlattenTail ==
    ASSUME NEW U, NEW q \in Seq(Seq(U)), NEW F \in [0..Len(q) -> Seq(U)],
           Flattens(F, q, Len(q)), NEW n \in 0..Len(q),
           EmptyBehind(q, n)
    PROVE  F[Len(q)] = F[n]
  <1> DEFINE S == {m \in Nat : n + m <= Len(q) => F[n + m] = F[n]}
  <1>0. Len(q) \in Nat
    BY LenProperties
  <1>1. 0 \in S
    OBVIOUS
  <1>2. ASSUME NEW m \in Nat, m \in S PROVE m + 1 \in S
    <2>1. SUFFICES ASSUME n + (m + 1) <= Len(q) PROVE F[n + (m + 1)] = F[n]
      OBVIOUS
    <2>2. PICK k \in 1..Len(q) : k = n + (m + 1)
      BY <1>0, <2>1
    <2>3. k \in (n + 1)..Len(q) /\ k - 1 \in 0..Len(q)
      BY <1>0, <2>2
    <2>5. F[k] = Concat(F[k - 1], q[k])
      BY <2>2 DEF Flattens
    <2>6. F[k - 1] \in Seq(U) /\ q[k] = <<>>
      BY <2>3 DEF EmptyBehind
    <2>4. F[k] = F[k - 1]
      BY <2>5, <2>6, ConcatType
    <2>7. k - 1 = n + m /\ n + m <= Len(q)
      BY <1>0, <2>2
    <2> QED
      BY <1>2, <2>2, <2>4, <2>7
  <1>3. Len(q) - n \in S
    <2>1. Len(q) - n \in Nat
      BY <1>0
    <2> HIDE DEF S
    <2>2. Nat \subseteq S
      BY <1>1, <1>2, SetInduction
    <2> QED
      BY <2>1, <2>2
  <1> QED
    BY <1>0, <1>3

(* Sequences that agree on the first n parts are flattened to the same.    *)
LEMMA FlattenAgree ==
    ASSUME NEW q, NEW r, NEW F, NEW G, NEW n \in Nat,
           Flattens(F, q, n), Flattens(G, r, n), Agree(q, r, n)
    PROVE  F[n] = G[n]
  <1> DEFINE S == {m \in Nat : m <= n => F[m] = G[m]}
  <1>1. 0 \in S
    BY DEF Flattens
  <1>2. ASSUME NEW m \in Nat, m \in S PROVE m + 1 \in S
    BY <1>2 DEF Flattens, Agree
  <1>3. n \in S
    <2> HIDE DEF S
    <2> QED
      BY <1>1, <1>2, SetInduction
  <1> QED
    BY <1>3

(* Two sequences of sequences that differ in empty ones at the end.        *)
LEMMA FlattenSame ==
    ASSUME NEW U, NEW q \in Seq(Seq(U)), NEW r \in Seq(Seq(U)), NEW n \in Nat,
           n <= Len(q), n <= Len(r), Agree(q, r, n), EmptyBehind(q, n), EmptyBehind(r, n)
    PROVE  FlattenSeq(q) = FlattenSeq(r)
  <1>0. Len(q) \in Nat /\ Len(r) \in Nat
    BY LenProperties
  <1>1. PICK F \in [0..Len(q) -> Seq(U)] : Flattens(F, q, Len(q))
    BY FlattenExists
  <1>2. PICK G \in [0..Len(r) -> Seq(U)] : Flattens(G, r, Len(r))
    BY FlattenExists
  <1>3. n \in 0..Len(q) /\ n \in 0..Len(r)
    BY <1>0
  <1>4. FlattenSeq(q) = F[Len(q)] /\ FlattenSeq(r) = G[Len(r)]
    BY <1>1, <1>2, FlattenIs
  <1>5. F[Len(q)] = F[n] /\ G[Len(r)] = G[n]
    BY <1>1, <1>2, <1>3, FlattenTail
  <1>6. Flattens(F, q, n) /\ Flattens(G, r, n)
    BY <1>0, <1>1, <1>2, SMTT(40) DEF Flattens
  <1>7. F[n] = G[n]
    BY <1>6, FlattenAgree
  <1> QED
    BY <1>4, <1>5, <1>7

(* One more part behind all others.                                        *)
LEMMA FlattenOneMore ==
    ASSUME NEW U, NEW q \in Seq(Seq(U)), NEW r \in Seq(Seq(U)), NEW m \in Nat,
           NEW n \in 1..Len(q), n = m + 1, Len(r) = Len(q), Agree(q, r, m),
           EmptyBehind(q, n), EmptyBehind(r, m)
    PROVE  FlattenSeq(q) = FlattenSeq(r) \o q[n]
  <1>0. Len(q) \in Nat
    BY LenProperties
  <1>1. PICK F \in [0..Len(q) -> Seq(U)] : Flattens(F, q, Len(q))
    BY FlattenExists
  <1>2. PICK G \in [0..Len(r) -> Seq(U)] : Flattens(G, r, Len(r))
    BY FlattenExists
  <1>3. n \in 0..Len(q) /\ m \in 0..Len(r)
    BY <1>0
  <1>4. FlattenSeq(q) = F[Len(q)] /\ FlattenSeq(r) = G[Len(r)]
    BY <1>1, <1>2, FlattenIs
  <1>5. F[Len(q)] = F[n]
    BY <1>1, <1>3, FlattenTail
  <1>6. G[Len(r)] = G[m]
    BY <1>2, <1>3, FlattenTail
  <1>7. Flattens(F, q, m) /\ Flattens(G, r, m) /\ Agree(q, r, m) /\ m \in Nat
    <2>1. \A i \in 1..m : i \in 1..Len(q) /\ i \in 1..Len(r)
      BY <1>0, <1>3
    <2>2. Flattens(F, q, m)
      BY <1>1, <2>1 DEF Flattens
    <2>3. Flattens(G, r, m)
      BY <1>2, <2>1 DEF Flattens
    <2> QED
      BY <2>2, <2>3
  <1>8. F[m] = G[m]
    BY ONLY <1>7, FlattenAgree, SMTT(40)
  <1>9. F[n] = Concat(F[m], q[n])
    BY <1>0, <1>1 DEF Flattens
  <1> QED
    BY <1>4, <1>5, <1>6, <1>8, <1>9 DEF Concat
=============================================================================
