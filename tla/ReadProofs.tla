----------------------------- MODULE ReadProofs -----------------------------
(***************************************************************************)
(* Theorems about Read, for every set of drives and requests.              *)
(***************************************************************************)
EXTENDS Read, ListLemmas, TLAPS

(* What a buffer may hold.                                                 *)
Units(d) ==
    LET H == DOMAIN d.file
    IN  {Zero, EndMark, Garbage, <<"media">>, <<"reserved">>}
        \cup {<<s, n>> : s \in {"link", "boot", "fsinfo", "mbr"}, n \in Int}
        \cup {<<s, h, n>> : s \in {"lfn", "data"}, h \in H, n \in Int}
        \cup {<<s, h>> : s \in {"dirent", "dot"}, h \in H}
        \cup {<<"dotdot", d.file[h].parent>> : h \in H}

LEMMA UnitsHave ==
    ASSUME NEW d, NEW h \in DOMAIN d.file
    PROVE  /\ <<"dirent", h>> \in Units(d) /\ <<"dot", h>> \in Units(d)
           /\ <<"dotdot", d.file[h].parent>> \in Units(d)
           /\ \A n \in Int : <<"lfn", h, n>> \in Units(d) /\ <<"data", h, n>> \in Units(d)
  BY DEF Units

LEMMA UnitsAlwaysHave ==
    ASSUME NEW d
    PROVE  /\ Zero \in Units(d) /\ EndMark \in Units(d) /\ Garbage \in Units(d)
           /\ <<"media">> \in Units(d) /\ <<"reserved">> \in Units(d)
           /\ \A n \in Int : /\ Link(n) \in Units(d) /\ <<"boot", n>> \in Units(d)
                             /\ <<"fsinfo", n>> \in Units(d) /\ <<"mbr", n>> \in Units(d)
  BY DEF Units, Link

(* The fields of a drive have their types.                                 *)
LEMMA FileFields ==
    ASSUME NEW d, Shaped(d), NEW h \in DOMAIN d.file
    PROVE  /\ d.file[h].size \in Nat /\ d.file[h].disk \in Nat
           /\ d.file[h].fent_cnt \in Nat /\ d.file[h].fent_start \in Nat
           /\ d.file[h].dir_fent_cnt \in Nat
           /\ d.file[h].start \in Nat /\ d.file[h].end \in Nat
           /\ d.file[h].startsect \in Nat /\ d.file[h].endsect \in Nat
           /\ d.file[h].entries \in Seq(DOMAIN d.file)
  BY DEF Shaped

-----------------------------------------------------------------------------
(* Directories.  The entries that fill_dirent() writes are a piece of the  *)
(* entry of the file.                                                      *)
LEMMA DirEntryIs ==
    ASSUME NEW d, Shaped(d), NEW h \in DOMAIN d.file
    PROVE  /\ DirEntry(d, h) \in Seq(Units(d))
           /\ Len(DirEntry(d, h)) = d.file[h].fent_cnt + 1
           /\ \A i \in 1..d.file[h].fent_cnt :
                  DirEntry(d, h)[i] = <<"lfn", h, d.file[h].fent_cnt + 1 - i>>
           /\ DirEntry(d, h)[d.file[h].fent_cnt + 1] = <<"dirent", h>>
  <1>1. PICK c \in Nat : c = d.file[h].fent_cnt
    BY FileFields
  <1> DEFINE ps == [e \in 1..c |-> <<"lfn", h, c + 1 - e>>]
             de == <<<<"dirent", h>>>>
  <1>2. ps \in [1..c -> Units(d)]
    <2>1. \A m \in Int : <<"lfn", h, m>> \in Units(d)
      BY UnitsHave
    <2> QED
      BY <2>1
  <1>3. ps \in Seq(Units(d)) /\ Len(ps) = c
    BY <1>2, Listing
  <1>4. de \in Seq(Units(d)) /\ Len(de) = 1 /\ de[1] = <<"dirent", h>>
    <2>1. <<"dirent", h>> \in Units(d)
      BY UnitsHave
    <2> QED
      BY <2>1, SingleList
  <1>5. DirEntry(d, h) = ps \o de
    BY <1>1 DEF DirEntry
  <1>6. \A i \in 1..c : ps[i] = <<"lfn", h, c + 1 - i>>
    OBVIOUS
  <1> HIDE DEF ps, de
  <1>7. /\ ps \o de \in Seq(Units(d)) /\ Len(ps \o de) = c + 1
        /\ \A i \in 1..c : (ps \o de)[i] = ps[i]
        /\ \A i \in 1..Len(de) : (ps \o de)[c + i] = de[i]
    <2>1. ps \in Seq(Units(d))
      BY <1>3
    <2>2. de \in Seq(Units(d))
      BY <1>4
    <2>3. /\ ps \o de \in Seq(Units(d)) /\ Len(ps \o de) = Len(ps) + Len(de)
          /\ \A i \in 1..Len(ps) : (ps \o de)[i] = ps[i]
          /\ \A i \in 1..Len(de) : (ps \o de)[Len(ps) + i] = de[i]
      BY ONLY <2>1, <2>2, JoinedList
    <2> QED
      BY <1>3, <1>4, <2>3
  <1>8. (ps \o de)[c + 1] = de[1]
    BY <1>4, <1>7
  <1> QED
    BY <1>1, <1>4, <1>5, <1>6, <1>7, <1>8

LEMMA FillIsPiece ==
    ASSUME NEW d, Shaped(d), NEW h \in DOMAIN d.file, NEW ent \in Nat, NEW skip \in Nat,
           skip = IF ent > d.file[h].fent_start THEN ent - d.file[h].fent_start ELSE 0,
           skip <= d.file[h].fent_cnt,
           NEW max \in Nat, max > 0,
           NEW n \in Nat, n = Min2(d.file[h].fent_cnt + 1 - skip, max)
    PROVE  /\ fill_dirent(d, h, ent, max) \in Seq(Units(d))
           /\ Len(fill_dirent(d, h, ent, max)) = n
           /\ \A i \in 1..n : fill_dirent(d, h, ent, max)[i] = DirEntry(d, h)[skip + i]
  <1>1. PICK c \in Nat : c = d.file[h].fent_cnt
    BY FileFields
  <1> DEFINE ps == [e \in 1..c |-> <<"lfn", h, c + 1 - e>>]
             de == <<<<"dirent", h>>>>
             back == SubSeq(ps, skip + 1, c)
             all == back \o de
  <1>2. skip <= c /\ n <= c + 1 - skip
    BY <1>1 DEF Min2
  <1>3. /\ DirEntry(d, h) \in Seq(Units(d)) /\ Len(DirEntry(d, h)) = c + 1
        /\ \A i \in 1..c : DirEntry(d, h)[i] = <<"lfn", h, c + 1 - i>>
        /\ DirEntry(d, h)[c + 1] = <<"dirent", h>>
    BY <1>1, DirEntryIs
  <1>4. ps \in Seq(Units(d)) /\ Len(ps) = c
    <2>1. \A m \in Int : <<"lfn", h, m>> \in Units(d)
      BY UnitsHave
    <2>2. ps \in [1..c -> Units(d)]
      BY <2>1
    <2> QED
      BY <2>2, Listing
  <1>5. de \in Seq(Units(d)) /\ Len(de) = 1 /\ de[1] = <<"dirent", h>>
    <2>1. <<"dirent", h>> \in Units(d)
      BY UnitsHave
    <2> QED
      BY <2>1, SingleList
  <1>6. \A i \in 1..c : ps[i] = <<"lfn", h, c + 1 - i>>
    OBVIOUS
  <1>7. fill_dirent(d, h, ent, max) = SubSeq(all, 1, IF Len(all) < max THEN Len(all) ELSE max)
    BY <1>1 DEF fill_dirent
  <1> HIDE DEF ps, de
  <1>8. /\ back \in Seq(Units(d)) /\ Len(back) = c - skip
        /\ \A i \in 1..(c - skip) : back[i] = ps[skip + i]
    <2>1. c - skip \in Nat /\ c = skip + (c - skip) /\ c <= Len(ps)
      BY <1>2, <1>4
    <2>2. ps \in Seq(Units(d))
      BY <1>4
    <2>3. /\ SubSeq(ps, skip + 1, c) \in Seq(Units(d))
          /\ Len(SubSeq(ps, skip + 1, c)) = c - skip
          /\ \A i \in 1..(c - skip) : SubSeq(ps, skip + 1, c)[i] = ps[skip + i]
      BY ONLY skip \in Nat, <2>1, <2>2, CutList, SMTT(40)
    <2> QED
      BY <2>3
  <1> HIDE DEF back
  <1>9. /\ all \in Seq(Units(d)) /\ Len(all) = c - skip + 1
        /\ \A i \in 1..(c - skip) : all[i] = back[i]
        /\ all[c - skip + 1] = de[1]
    <2>1. /\ all \in Seq(Units(d)) /\ Len(all) = Len(back) + Len(de)
          /\ \A i \in 1..Len(back) : all[i] = back[i]
          /\ \A i \in 1..Len(de) : all[Len(back) + i] = de[i]
      <3>1. back \in Seq(Units(d))
        BY <1>8
      <3>2. de \in Seq(Units(d))
        BY <1>5
      <3> QED
        BY ONLY <3>1, <3>2, JoinedList
    <2>2. all[Len(back) + 1] = de[1]
      BY <1>5, <2>1
    <2> QED
      BY <1>2, <1>5, <1>8, <2>1, <2>2
  <1> HIDE DEF all
  <1>10. \A i \in 1..(c - skip + 1) : all[i] = DirEntry(d, h)[skip + i]
    <2> TAKE i \in 1..(c - skip + 1)
    <2>1. CASE i <= c - skip
      <3>1. i \in 1..(c - skip) /\ skip + i \in 1..c
        BY <1>2, <2>1
      <3>2. all[i] = ps[skip + i]
        BY <1>8, <1>9, <3>1
      <3> QED
        BY <1>3, <1>6, <3>1, <3>2
    <2>2. CASE i = c - skip + 1
      <3>1. skip + i = c + 1
        BY <1>2, <2>2
      <3> QED
        BY <1>3, <1>5, <1>9, <2>2, <3>1
    <2> QED
      BY <1>2, <2>1, <2>2
  <1>11. n = IF Len(all) < max THEN Len(all) ELSE max
    BY <1>1, <1>2, <1>9 DEF Min2
  <1>12. /\ SubSeq(all, 0 + 1, n) \in Seq(Units(d))
         /\ Len(SubSeq(all, 0 + 1, n)) = n
         /\ \A i \in 1..n : SubSeq(all, 0 + 1, n)[i] = all[0 + i]
    <2>1. 0 \in Nat /\ n = 0 + n /\ n <= Len(all)
      BY <1>2, <1>9
    <2>2. all \in Seq(Units(d))
      BY <1>9
    <2> QED
      BY ONLY n \in Nat, <2>1, <2>2, CutList
  <1>13. SubSeq(all, 0 + 1, n) = fill_dirent(d, h, ent, max)
    BY <1>7, <1>11
  <1>14. \A i \in 1..n : fill_dirent(d, h, ent, max)[i] = DirEntry(d, h)[skip + i]
    <2> TAKE i \in 1..n
    <2>1. i \in 1..(c - skip + 1) /\ 0 + i = i
      BY <1>2
    <2>2. SubSeq(all, 0 + 1, n)[i] = all[i]
      BY <1>12, <2>1
    <2>3. all[i] = DirEntry(d, h)[skip + i]
      BY <1>10, <2>1
    <2> QED
      BY <1>13, <2>2, <2>3, Zenon
  <1> QED
    BY <1>12, <1>13, <1>14

(* The loop over the entries, entry by entry.                              *)
Fills(f, d, ent, room, dots, es) ==
    /\ f[0] = dots
    /\ \A k \in 1..Len(es) : f[k] = FillEntry(d, ent, room, f[k - 1], es[k])
    /\ FillEntries(d, ent, room, dots, es) = f[Len(es)]

LEMMA FillEntriesIs ==
    ASSUME NEW d, NEW ent, NEW room, NEW dots, NEW es, Len(es) \in Nat
    PROVE  \E f : Fills(f, d, ent, room, dots, es)
  <1> DEFINE Step(x, k) == FillEntry(d, ent, room, x, es[k])
             Is(f, m) == f = [k \in 0..m |-> IF k = 0 THEN dots ELSE Step(f[k - 1], k)]
             S == {m \in Nat : \E f : Is(f, m)}
             F == CHOOSE f : Is(f, Len(es))
  <1> HIDE DEF Step
  <1>1. 0 \in S
    <2>1. Is([k \in 0..0 |-> dots], 0)
      OBVIOUS
    <2> HIDE DEF Is
    <2> QED
      BY <2>1
  <1>2. ASSUME NEW m \in Nat, m \in S PROVE m + 1 \in S
    <2>1. PICK f : Is(f, m)
      BY <1>2
    <2> DEFINE g == [k \in 0..(m + 1) |-> IF k <= m THEN f[k] ELSE Step(f[m], m + 1)]
    <2>2. Is(g, m + 1)
      BY <2>1
    <2> HIDE DEF Is, g
    <2> QED
      BY <2>2
  <1>3. Len(es) \in S
    <2> HIDE DEF S
    <2> QED
      BY <1>1, <1>2, SetInduction
  <1>4. Is(F, Len(es))
    <2> HIDE DEF Is
    <2> QED
      BY <1>3
  <1>5. FillEntries(d, ent, room, dots, es) = F[Len(es)]
    BY DEF FillEntries, Step
  <1> HIDE DEF F
  <1>6. F[0] = dots /\ \A k \in 1..Len(es) : F[k] = Step(F[k - 1], k)
    BY <1>4
  <1> QED
    BY <1>5, <1>6 DEF Step, Fills

(* The entries of a directory, one file behind the other.                  *)
LEMMA DirPartIs ==
    ASSUME NEW d, NEW dir, NEW es, es = d.file[dir].entries, Len(es) \in Nat
    PROVE  /\ DirPart(d, dir)[0] = Dots(d, dir)
           /\ \A k \in 1..Len(es) : DirPart(d, dir)[k] = Concat(DirPart(d, dir)[k - 1], DirEntry(d, es[k]))
  <1> DEFINE Step(x, k) == x \o DirEntry(d, es[k])
             Is(f, m) == f = [k \in 0..m |-> IF k = 0 THEN Dots(d, dir) ELSE Step(f[k - 1], k)]
             S == {m \in Nat : \E f : Is(f, m)}
             F == CHOOSE f : Is(f, Len(es))
  <1> HIDE DEF Step
  <1>1. 0 \in S
    <2>1. Is([k \in 0..0 |-> Dots(d, dir)], 0)
      OBVIOUS
    <2> HIDE DEF Is
    <2> QED
      BY <2>1
  <1>2. ASSUME NEW m \in Nat, m \in S PROVE m + 1 \in S
    <2>1. PICK f : Is(f, m)
      BY <1>2
    <2> DEFINE g == [k \in 0..(m + 1) |-> IF k <= m THEN f[k] ELSE Step(f[m], m + 1)]
    <2>2. Is(g, m + 1)
      BY <2>1
    <2> HIDE DEF Is, g
    <2> QED
      BY <2>2
  <1>3. Len(es) \in S
    <2> HIDE DEF S
    <2> QED
      BY <1>1, <1>2, SetInduction
  <1>4. Is(F, Len(es))
    <2> HIDE DEF Is
    <2> QED
      BY <1>3
  <1>5. DirPart(d, dir) = F
    BY DEF DirPart, Step
  <1> HIDE DEF F
  <1>6. F[0] = Dots(d, dir) /\ \A k \in 1..Len(es) : F[k] = Step(F[k - 1], k)
    <2>1. PICK n : n = Len(es)
      OBVIOUS
    <2>2. n \in Nat /\ F = [k \in 0..n |-> IF k = 0 THEN Dots(d, dir) ELSE Step(F[k - 1], k)]
      BY <1>4, <2>1
    <2>3. F[0] = Dots(d, dir) /\ \A k \in 1..n : F[k] = Step(F[k - 1], k)
      BY ONLY <2>2
    <2> QED
      BY <2>1, <2>3
  <1> QED
    BY <1>5, <1>6 DEF Step, Concat

(* How many units the first k entries of a directory take, and what        *)
(* dir_recalc() has noted of it.                                           *)
Behind(d, dir, k) ==
    IF k = 0 THEN Len(Dots(d, dir))
    ELSE d.file[d.file[dir].entries[k]].fent_start + d.file[d.file[dir].entries[k]].fent_cnt + 1

Dir(d, dir) == Shaped(d) /\ Numbered(d) /\ dir \in DOMAIN d.file /\ d.file[dir].kind = "dir"

LEMMA DotsAre ==
    ASSUME NEW d, NEW dir \in DOMAIN d.file
    PROVE  Dots(d, dir) \in Seq(Units(d)) /\ Len(Dots(d, dir)) \in 0..2
  <1>1. <<"dot", dir>> \in Units(d) /\ <<"dotdot", d.file[dir].parent>> \in Units(d)
    BY UnitsHave
  <1> QED
    BY <1>1 DEF Dots

LEMMA EntriesAre ==
    ASSUME NEW d, NEW dir, Dir(d, dir)
    PROVE  /\ Len(d.file[dir].entries) \in Nat
           /\ \A k \in 1..Len(d.file[dir].entries) : d.file[dir].entries[k] \in DOMAIN d.file
  <1>1. d.file[dir].entries \in Seq(DOMAIN d.file)
    BY FileFields DEF Dir
  <1> QED
    BY ONLY <1>1, LenProperties, ElementOfSeq

LEMMA BehindStep ==
    ASSUME NEW d, NEW dir, Dir(d, dir), NEW k \in Nat, k < Len(d.file[dir].entries),
           NEW h, h = d.file[dir].entries[k + 1]
    PROVE  /\ h \in DOMAIN d.file
           /\ d.file[h].fent_start = Behind(d, dir, k)
           /\ Behind(d, dir, k) \in Nat
           /\ Behind(d, dir, k + 1) = Behind(d, dir, k) + d.file[h].fent_cnt + 1
           /\ d.file[h].fent_cnt \in Nat
  <1>1. Len(d.file[dir].entries) \in Nat /\ k + 1 \in 1..Len(d.file[dir].entries)
    BY EntriesAre
  <1>2. h \in DOMAIN d.file
    BY <1>1, EntriesAre
  <1>3. d.file[h].fent_start \in Nat /\ d.file[h].fent_cnt \in Nat
    BY <1>2, FileFields DEF Dir
  <1>4. dir \in DOMAIN d.file /\ Numbered(d) /\ d.file[dir].kind = "dir" /\ (k + 1) - 1 = k
    BY DEF Dir
  <1>5. d.file[d.file[dir].entries[k + 1]].fent_start =
          IF (k + 1) - 1 = 0 THEN Len(Dots(d, dir))
          ELSE d.file[d.file[dir].entries[(k + 1) - 1]].fent_start
               + d.file[d.file[dir].entries[(k + 1) - 1]].fent_cnt + 1
    BY <1>1, <1>4, Zenon DEF Numbered
  <1>6. d.file[h].fent_start = Behind(d, dir, k)
    BY <1>4, <1>5 DEF Behind
  <1>7. Behind(d, dir, k + 1) = d.file[h].fent_start + d.file[h].fent_cnt + 1
    BY DEF Behind
  <1> QED
    BY <1>2, <1>3, <1>6, <1>7

LEMMA BehindAll ==
    ASSUME NEW d, NEW dir, Dir(d, dir)
    PROVE  /\ d.file[dir].dir_fent_cnt = Behind(d, dir, Len(d.file[dir].entries))
           /\ Behind(d, dir, 0) \in 0..2
           /\ \A k \in 0..Len(d.file[dir].entries) :
                  Behind(d, dir, k) \in Nat /\ Behind(d, dir, k) >= Behind(d, dir, 0) + k
  <1>1. d.file[dir].dir_fent_cnt = Behind(d, dir, Len(d.file[dir].entries))
    BY DEF Dir, Numbered, Behind
  <1>2. Behind(d, dir, 0) \in 0..2
    BY DotsAre DEF Behind, Dir
  <1> DEFINE n == Len(d.file[dir].entries)
             S == {k \in Nat : k <= n => Behind(d, dir, k) \in Nat /\ Behind(d, dir, k) >= Behind(d, dir, 0) + k}
  <1>3. n \in Nat
    BY EntriesAre
  <1>4. 0 \in S
    BY <1>2
  <1>5. ASSUME NEW k \in Nat, k \in S PROVE k + 1 \in S
    <2>1. CASE k + 1 <= n
      <3>1. k < n /\ Behind(d, dir, k) \in Nat /\ Behind(d, dir, k) >= Behind(d, dir, 0) + k
        BY <1>3, <1>5, <2>1
      <3> PICK h : h = d.file[dir].entries[k + 1]
        OBVIOUS
      <3>2. Behind(d, dir, k + 1) = Behind(d, dir, k) + d.file[h].fent_cnt + 1 /\ d.file[h].fent_cnt \in Nat
        BY <3>1, BehindStep, SMTT(40)
      <3>3. Behind(d, dir, 0) \in Nat
        BY <1>2
      <3>4. Behind(d, dir, k + 1) \in Nat /\ Behind(d, dir, k + 1) >= Behind(d, dir, 0) + (k + 1)
        BY ONLY <3>1, <3>2, <3>3, k \in Nat, SMTT(40)
      <3> QED
        BY <3>4
    <2>2. CASE ~(k + 1 <= n)
      BY <2>2
    <2> QED
      BY <2>1, <2>2
  <1> HIDE DEF S
  <1>6. Nat \subseteq S
    BY ONLY <1>4, <1>5, SetInduction
  <1>7. \A k \in 0..n : Behind(d, dir, k) \in Nat /\ Behind(d, dir, k) >= Behind(d, dir, 0) + k
    BY <1>3, <1>6 DEF S
  <1> QED
    BY <1>1, <1>2, <1>7

(* The first k entries as a sequence, and the step to one more.            *)
LEMMA PartLength ==
    ASSUME NEW d, NEW dir, Dir(d, dir), NEW k \in 0..Len(d.file[dir].entries)
    PROVE  DirPart(d, dir)[k] \in Seq(Units(d)) /\ Len(DirPart(d, dir)[k]) = Behind(d, dir, k)
  <1> DEFINE n == Len(d.file[dir].entries)
             P(m) == DirPart(d, dir)[m]
             S == {m \in Nat : m <= n => P(m) \in Seq(Units(d)) /\ Len(P(m)) = Behind(d, dir, m)}
  <1>1. n \in Nat
    BY EntriesAre
  <1>2. /\ P(0) = Dots(d, dir)
        /\ \A m \in 1..n : P(m) = Concat(P(m - 1), DirEntry(d, d.file[dir].entries[m]))
    BY <1>1, DirPartIs
  <1> HIDE DEF P
  <1>3. 0 \in S
    BY <1>2, DotsAre DEF Behind, Dir
  <1>4. ASSUME NEW m \in Nat, m \in S PROVE m + 1 \in S
    <2>1. CASE m + 1 <= n
      <3>1. m < n /\ P(m) \in Seq(Units(d)) /\ Len(P(m)) = Behind(d, dir, m)
        BY <1>1, <1>4, <2>1
      <3> PICK h : h = d.file[dir].entries[m + 1]
        OBVIOUS
      <3>2. /\ h \in DOMAIN d.file /\ Behind(d, dir, m) \in Nat /\ d.file[h].fent_cnt \in Nat
            /\ Behind(d, dir, m + 1) = Behind(d, dir, m) + d.file[h].fent_cnt + 1
        BY <3>1, BehindStep, SMTT(40)
      <3>3. DirEntry(d, h) \in Seq(Units(d)) /\ Len(DirEntry(d, h)) = d.file[h].fent_cnt + 1
        BY <3>2, DirEntryIs DEF Dir
      <3>4. P(m + 1) = P(m) \o DirEntry(d, h)
        <4>1. m + 1 \in 1..n /\ (m + 1) - 1 = m
          BY <3>1
        <4> QED
          BY <1>2, <4>1 DEF Concat
      <3>5. P(m + 1) \in Seq(Units(d)) /\ Len(P(m + 1)) = Len(P(m)) + Len(DirEntry(d, h))
        <4>1. P(m) \in Seq(Units(d))
          BY <3>1
        <4>2. DirEntry(d, h) \in Seq(Units(d))
          BY <3>3
        <4> QED
          BY ONLY <3>4, <4>1, <4>2, JoinedList
      <3>6. Len(P(m + 1)) = Behind(d, dir, m + 1)
        BY ONLY <3>1, <3>2, <3>3, <3>5, SMTT(40)
      <3> QED
        BY <3>5, <3>6
    <2>2. CASE ~(m + 1 <= n)
      BY <2>2
    <2> QED
      BY <2>1, <2>2
  <1> HIDE DEF S
  <1>5. Nat \subseteq S
    BY ONLY <1>3, <1>4, SetInduction
  <1> QED
    BY <1>1, <1>5 DEF S, P

LEMMA PartStep ==
    ASSUME NEW d, NEW dir, Dir(d, dir), NEW k \in Nat, k < Len(d.file[dir].entries),
           NEW h, h = d.file[dir].entries[k + 1]
    PROVE  /\ \A i \in 1..Behind(d, dir, k) : DirPart(d, dir)[k + 1][i] = DirPart(d, dir)[k][i]
           /\ \A i \in 1..(d.file[h].fent_cnt + 1) :
                  DirPart(d, dir)[k + 1][Behind(d, dir, k) + i] = DirEntry(d, h)[i]
  <1> DEFINE n == Len(d.file[dir].entries)
             P(m) == DirPart(d, dir)[m]
  <1>1. n \in Nat
    BY EntriesAre
  <1>2. \A m \in 1..n : P(m) = Concat(P(m - 1), DirEntry(d, d.file[dir].entries[m]))
    BY <1>1, DirPartIs
  <1>3. h \in DOMAIN d.file
    BY BehindStep
  <1>4. P(k) \in Seq(Units(d)) /\ Len(P(k)) = Behind(d, dir, k)
    BY <1>1, PartLength
  <1>5. DirEntry(d, h) \in Seq(Units(d)) /\ Len(DirEntry(d, h)) = d.file[h].fent_cnt + 1
    BY <1>3, DirEntryIs DEF Dir
  <1> HIDE DEF P
  <1>6. P(k + 1) = P(k) \o DirEntry(d, h)
    <2>1. k + 1 \in 1..n /\ (k + 1) - 1 = k
      BY <1>1
    <2> QED
      BY <1>2, <2>1 DEF Concat
  <1>7. /\ \A i \in 1..Len(P(k)) : (P(k) \o DirEntry(d, h))[i] = P(k)[i]
        /\ \A i \in 1..Len(DirEntry(d, h)) :
              (P(k) \o DirEntry(d, h))[Len(P(k)) + i] = DirEntry(d, h)[i]
    <2>1. P(k) \in Seq(Units(d))
      BY <1>4
    <2>2. DirEntry(d, h) \in Seq(Units(d))
      BY <1>5
    <2> QED
      BY ONLY <2>1, <2>2, JoinedList
  <1> QED
    BY <1>4, <1>5, <1>6, <1>7 DEF P

(* The part of x units that falls into a window with the given room.       *)
Clip(x, room) == IF x <= 0 THEN 0 ELSE IF x < room THEN x ELSE room

(* The window that begins behind base units, after the first k entries.    *)
Filled(d, dir, base, room, k, q) ==
    /\ q \in Seq(Units(d))
    /\ Len(q) = Clip(Behind(d, dir, k) - base, room)
    /\ \A i \in 1..Len(q) : q[i] = DirPart(d, dir)[k][base + i]

LEMMA FillStep ==
    ASSUME NEW d, NEW dir, Dir(d, dir), NEW base \in Nat, NEW ent \in Nat, NEW room \in Nat,
           room > 0,
           \/ ent = base /\ Behind(d, dir, 0) <= base
           \/ base = 0 /\ ent = Behind(d, dir, 0),
           NEW k \in Nat, k < Len(d.file[dir].entries),
           NEW h, h = d.file[dir].entries[k + 1],
           NEW q, Filled(d, dir, base, room, k, q)
    PROVE  Filled(d, dir, base, room, k + 1, FillEntry(d, ent, room, q, h))
  <1> DEFINE B(m) == Behind(d, dir, m)
             P(m) == DirPart(d, dir)[m]
  <1>0. /\ h \in DOMAIN d.file /\ d.file[h].fent_start = B(k) /\ B(k) \in Nat
        /\ B(k + 1) = B(k) + d.file[h].fent_cnt + 1 /\ d.file[h].fent_cnt \in Nat
    BY BehindStep, SMTT(40)
  <1>1. PICK c \in Nat : c = d.file[h].fent_cnt
    BY <1>0
  <1>12. PICK b \in Nat : b = B(k)
    BY <1>0
  <1>2. h \in DOMAIN d.file /\ d.file[h].fent_start = b /\ B(k + 1) = b + c + 1
    BY <1>0, <1>1, <1>12
  <1>3. PICK b0 \in Nat : b0 = B(0) /\ b0 <= b
    <2>1. Len(d.file[dir].entries) \in Nat
      BY EntriesAre
    <2>2. k \in 0..Len(d.file[dir].entries)
      BY <2>1
    <2>3. B(0) \in 0..2 /\ B(k) >= B(0) + k
      BY <2>2, BehindAll
    <2>4. B(0) \in Nat /\ B(0) <= b
      BY ONLY <2>3, <1>12, b \in Nat, k \in Nat
    <2> QED
      BY <2>4
  <1>4. /\ \A i \in 1..b : P(k + 1)[i] = P(k)[i]
        /\ \A i \in 1..(c + 1) : P(k + 1)[b + i] = DirEntry(d, h)[i]
    <2>1. /\ \A i \in 1..Behind(d, dir, k) : P(k + 1)[i] = P(k)[i]
          /\ \A i \in 1..(d.file[h].fent_cnt + 1) : P(k + 1)[Behind(d, dir, k) + i] = DirEntry(d, h)[i]
      BY PartStep
    <2> QED
      BY <1>1, <1>12, <2>1
  <1>5. Shaped(d)
    BY DEF Dir
  <1>6. q \in Seq(Units(d)) /\ Len(q) = Clip(b - base, room) /\ \A i \in 1..Len(q) : q[i] = P(k)[base + i]
    BY <1>12 DEF Filled
  <1>7. FillEntry(d, ent, room, q, h) =
          IF b + c + 1 <= ent \/ Len(q) >= room THEN q
          ELSE q \o fill_dirent(d, h, ent, room - Len(q))
    BY <1>1, <1>2 DEF FillEntry
  <1>8. \/ ent = base /\ b0 <= base
        \/ base = 0 /\ ent = b0
    BY <1>3
  <1> HIDE DEF B, P
  <1>9. CASE b + c + 1 <= ent
    <2>1. ent = base
      BY <1>2, <1>3, <1>8, <1>9
    <2>2. Len(q) = 0 /\ Clip(B(k + 1) - base, room) = 0
      BY <1>2, <1>6, <1>9, <2>1 DEF Clip
    <2> QED
      BY <1>6, <1>7, <1>9, <2>2 DEF Filled, B
  <1>10. CASE ~(b + c + 1 <= ent) /\ Len(q) >= room
    <2>1. Len(q) = room /\ b - base >= room /\ Clip(B(k + 1) - base, room) = room
      BY <1>2, <1>6, <1>10 DEF Clip
    <2>2. \A i \in 1..Len(q) : base + i \in 1..b
      BY <1>2, <2>1
    <2>3. \A i \in 1..Len(q) : q[i] = P(k + 1)[base + i]
      BY <1>4, <1>6, <2>2
    <2> QED
      BY <1>6, <1>7, <1>10, <2>1, <2>3 DEF Filled, B, P
  <1>11. CASE ~(b + c + 1 <= ent) /\ ~(Len(q) >= room)
    <2>1. Len(q) \in Nat
      BY <1>6, LenProperties
    <2>2. PICK len \in Nat : len = Len(q)
      BY <2>1
    <2>3. PICK max \in Nat : max = room - len /\ max > 0
      <3>1. room - len \in Nat /\ room - len > 0
        BY <1>11, <2>2
      <3> QED
        BY <3>1
    <2>4. PICK skip \in Nat : skip = IF ent > b THEN ent - b ELSE 0
      <3>1. (IF ent > b THEN ent - b ELSE 0) \in Nat
        OBVIOUS
      <3> QED
        BY <3>1
    <2>12. skip <= c
      BY <1>11, <2>4
    <2>5. PICK n \in Nat : n = Min2(c + 1 - skip, max)
      <3>1. Min2(c + 1 - skip, max) \in Nat
        BY <2>12 DEF Min2
      <3> QED
        BY <3>1
    <2>13. n <= c + 1 - skip /\ n <= max /\ (n = c + 1 - skip \/ n = max)
      BY ONLY <2>5, <2>12, c \in Nat, skip \in Nat, max \in Nat DEF Min2
    <2> DEFINE r == fill_dirent(d, h, ent, max)
    <2>6. /\ r \in Seq(Units(d)) /\ Len(r) = n
          /\ \A i \in 1..n : r[i] = DirEntry(d, h)[skip + i]
      <3>1. skip <= d.file[h].fent_cnt
        BY <1>1, <2>12
      <3>2. skip = IF ent > d.file[h].fent_start THEN ent - d.file[h].fent_start ELSE 0
        BY <1>2, <2>4
      <3>3. n = Min2(d.file[h].fent_cnt + 1 - skip, max)
        BY <1>1, <2>5
      <3>4. max > 0 /\ h \in DOMAIN d.file
        BY <1>2, <2>3
      <3> QED
        BY ONLY <1>5, <3>1, <3>2, <3>3, <3>4, ent \in Nat, skip \in Nat, max \in Nat, n \in Nat, FillIsPiece, SMTT(40)
    <2>7. FillEntry(d, ent, room, q, h) = q \o r
      BY <1>7, <1>11, <2>2, <2>3
    <2> HIDE DEF r
    <2>8. /\ q \o r \in Seq(Units(d)) /\ Len(q \o r) = len + n
          /\ \A i \in 1..len : (q \o r)[i] = q[i]
          /\ \A i \in 1..n : (q \o r)[len + i] = r[i]
      <3>1. q \in Seq(Units(d))
        BY <1>6
      <3>2. r \in Seq(Units(d))
        BY <2>6
      <3>3. /\ q \o r \in Seq(Units(d)) /\ Len(q \o r) = Len(q) + Len(r)
            /\ \A i \in 1..Len(q) : (q \o r)[i] = q[i]
            /\ \A i \in 1..Len(r) : (q \o r)[Len(q) + i] = r[i]
        BY ONLY <3>1, <3>2, JoinedList
      <3> QED
        BY <2>2, <2>6, <3>3
    (* What is already written ends where the piece begins.                *)
    <2>9. base + len = b + skip /\ (len > 0 => base + len = b)
      BY <1>2, <1>3, <1>6, <1>8, <1>11, <2>2, <2>4 DEF Clip
    <2>10. len + n = Clip(B(k + 1) - base, room)
      BY ONLY <1>2, <2>3, <2>9, <2>12, <2>13, b \in Nat, c \in Nat, base \in Nat, room \in Nat,
              len \in Nat, n \in Nat, max \in Nat, skip \in Nat DEF Clip
    <2>11. \A i \in 1..(len + n) : (q \o r)[i] = P(k + 1)[base + i]
      <3> TAKE i \in 1..(len + n)
      <3>1. CASE i <= len
        <4>1. i \in 1..len /\ base + i \in 1..b
          BY <1>2, <2>9, <3>1
        <4> QED
          BY <1>4, <1>6, <2>2, <2>8, <4>1
      <3>2. CASE i > len
        <4>1. PICK j \in 1..n : i = len + j
          BY <3>2
        <4>2. skip + j \in 1..(c + 1) /\ base + i = b + (skip + j)
          BY ONLY <2>9, <2>12, <2>13, <4>1, j \in 1..n, i \in 1..(len + n), b \in Nat, c \in Nat,
                  base \in Nat, len \in Nat, n \in Nat, max \in Nat, skip \in Nat
        <4>3. (q \o r)[i] = r[j] /\ r[j] = DirEntry(d, h)[skip + j]
          BY <2>6, <2>8, <4>1
        <4>4. P(k + 1)[b + (skip + j)] = DirEntry(d, h)[skip + j]
          BY <1>4, <4>2
        <4> QED
          BY ONLY <4>2, <4>3, <4>4
      <3>3. i <= len \/ i > len
        OBVIOUS
      <3> QED
        BY <3>1, <3>2, <3>3
    <2> QED
      BY <2>7, <2>8, <2>10, <2>11 DEF Filled, B, P
  <1> QED
    BY <1>9, <1>10, <1>11

(* One sector or more has at least the units of one.                       *)
LEMMA Rows ==
    ASSUME NEW m \in Nat, NEW n \in Nat
    PROVE  m * n \in Nat /\ (m > 0 => m * n >= n)
  <1>1. m * n \in Nat
    OBVIOUS
  <1>2. CASE m > 0
    <2>1. (m - 1) \in Nat /\ (m - 1) * n \in Nat /\ m * n = (m - 1) * n + n
      BY <1>2
    <2> QED
      BY <2>1
  <1> QED
    BY <1>1, <1>2

(* read_sector_dir() returns the window of the directory that it is asked  *)
(* for, also when that begins inside a long name.                          *)
LEMMA DirWindow ==
    ASSUME NEW d, NEW dir, Dir(d, dir), NEW s \in Nat, NEW w \in Nat, w > 0,
           NEW base, base = s * d.bps, NEW room, room = w * d.bps
    PROVE  /\ read_sector_dir(d, s, w, dir) \in Seq(Units(d))
           /\ Len(read_sector_dir(d, s, w, dir)) = room
           /\ \A i \in 1..room : read_sector_dir(d, s, w, dir)[i] = UnitAt(DirUnits(d, dir), base + i - 1)
  <1> DEFINE B(m) == Behind(d, dir, m)
             P(m) == DirPart(d, dir)[m]
             es   == d.file[dir].entries
             dots == IF s = 0 THEN Dots(d, dir) ELSE <<>>
             ent  == IF s = 0 THEN Len(dots) ELSE s * d.bps
             listed == IF ent < d.file[dir].dir_fent_cnt
                       THEN FillEntries(d, ent, room, dots, es) ELSE dots
             zeros == [k \in 1..(room - Len(listed)) |-> Zero]
  <1>1. d.bps \in Nat /\ 2 <= d.bps
    BY DEF Dir, Shaped
  <1>2. base \in Nat /\ room \in Nat /\ room >= 2 /\ (s > 0 => base >= 2) /\ (s = 0 => base = 0)
    <2>1. PICK n \in Nat : n = d.bps
      BY <1>1
    <2>2. s * n \in Nat /\ w * n \in Nat /\ w * n >= n /\ (s > 0 => s * n >= n) /\ n >= 2
      BY <1>1, <2>1, Rows
    <2> QED
      BY <2>1, <2>2
  <1>3. PICK n \in Nat : n = Len(es)
    BY EntriesAre
  <1>4. PICK b0 \in 0..2 : b0 = B(0)
    BY BehindAll
  <1>5. PICK b \in Nat : b = B(n) /\ b >= b0 + n /\ d.file[dir].dir_fent_cnt = b
    <2>1. n \in 0..n
      OBVIOUS
    <2>2. B(n) \in Nat /\ B(n) >= B(0) + n /\ d.file[dir].dir_fent_cnt = B(n)
      BY <1>3, <2>1, BehindAll
    <2> QED
      BY <1>4, <2>2
  <1>6. Dots(d, dir) \in Seq(Units(d)) /\ Len(Dots(d, dir)) = b0
    BY <1>4, DotsAre DEF Behind, Dir
  <1>7. ent \in Nat /\ (\/ ent = base /\ B(0) <= base
                        \/ base = 0 /\ ent = B(0))
    BY <1>2, <1>4, <1>6
  <1>8. P(0) = Dots(d, dir)
    BY <1>3, DirPartIs
  <1>9. Filled(d, dir, base, room, 0, dots)
    <2>1. CASE s = 0
      <3>1. base = 0 /\ dots = Dots(d, dir) /\ B(0) - base = b0 /\ Len(dots) = b0
        BY <1>2, <1>4, <1>6, <2>1
      <3>2. Clip(b0, room) = b0
        BY <1>2 DEF Clip
      <3>3. \A i \in 1..b0 : base + i = i
        BY <3>1
      <3> QED
        BY <1>6, <1>8, <3>1, <3>2, <3>3 DEF Filled
    <2>2. CASE s # 0
      <3>1. B(0) - base <= 0 /\ dots = <<>>
        BY <1>2, <1>4, <2>2
      <3>2. Clip(B(0) - base, room) = 0
        BY <3>1 DEF Clip
      <3>3. <<>> \in Seq(Units(d)) /\ Len(<<>>) = 0
        OBVIOUS
      <3>4. \A i \in 1..0 : FALSE
        OBVIOUS
      <3> QED
        BY <3>1, <3>2, <3>3, <3>4 DEF Filled
    <2> QED
      BY <2>1, <2>2
  <1>10. Filled(d, dir, base, room, n, listed)
    <2>1. CASE ent < d.file[dir].dir_fent_cnt
      <3>1. PICK f : /\ f[0] = dots
                     /\ \A k \in 1..n : f[k] = FillEntry(d, ent, room, f[k - 1], es[k])
                     /\ FillEntries(d, ent, room, dots, es) = f[n]
        <4>1. Len(es) \in Nat
          BY <1>3
        <4> HIDE DEF es, ent, dots
        <4>2. PICK f : Fills(f, d, ent, room, dots, es)
          BY ONLY <4>1, FillEntriesIs, Zenon
        <4> QED
          BY <1>3, <4>2 DEF Fills
      <3> DEFINE S == {k \in Nat : k <= n => Filled(d, dir, base, room, k, f[k])}
      <3>2. 0 \in S
        BY <1>9, <3>1
      <3>3. ASSUME NEW k \in Nat, k \in S PROVE k + 1 \in S
        <4>1. CASE k + 1 <= n
          <5>1. k + 1 \in 1..n /\ (k + 1) - 1 = k /\ k < n
            BY <4>1
          <5>2. f[k + 1] = FillEntry(d, ent, room, f[k], es[k + 1])
            BY <3>1, <5>1
          <5>3. Filled(d, dir, base, room, k, f[k])
            BY <3>3, <5>1
          <5>4. Filled(d, dir, base, room, k + 1, FillEntry(d, ent, room, f[k], es[k + 1]))
            <6>1. k < Len(d.file[dir].entries) /\ es[k + 1] = d.file[dir].entries[k + 1]
              BY <1>3, <5>1
            <6>2. base \in Nat /\ room \in Nat /\ room > 0 /\ Dir(d, dir)
              BY <1>2
            <6>3. ent \in Nat /\ (\/ ent = base /\ Behind(d, dir, 0) <= base
                                  \/ base = 0 /\ ent = Behind(d, dir, 0))
              BY <1>7
            <6> HIDE DEF ent, es
            <6> QED
              BY ONLY <5>3, <6>1, <6>2, <6>3, k \in Nat, FillStep
          <5> QED
            BY <5>2, <5>4
        <4>2. CASE ~(k + 1 <= n)
          BY <4>2
        <4> QED
          BY <4>1, <4>2
      <3> HIDE DEF S
      <3>4. Nat \subseteq S
        BY ONLY <3>2, <3>3, SetInduction
      <3>5. Filled(d, dir, base, room, n, f[n])
        BY <3>4 DEF S
      <3> QED
        BY <2>1, <3>1, <3>5
    <2>2. CASE ~(ent < d.file[dir].dir_fent_cnt)
      <3>1. CASE n = 0
        BY <1>9, <2>2, <3>1
      <3>2. CASE n # 0
        <4>5. n > 0 /\ b > b0 /\ ~(ent < b)
          BY <1>5, <2>2, <3>2
        <4>6. s # 0
          <5>1. s = 0 => ent = b0
            BY <1>6
          <5> QED
            BY <4>5, <5>1
        <4>7. ent = base /\ dots = <<>>
          BY <4>6
        <4>1. s # 0 /\ ent = base /\ b - base <= 0 /\ dots = <<>>
          <5>1. ~(base < b)
            BY <4>5, <4>7
          <5>2. b - base <= 0
            BY ONLY <5>1, <1>2, b \in Nat
          <5> QED
            BY <4>6, <4>7, <5>2
        <4>2. Clip(B(n) - base, room) = 0
          BY <1>5, <4>1 DEF Clip
        <4>3. <<>> \in Seq(Units(d)) /\ Len(<<>>) = 0
          OBVIOUS
        <4>4. \A i \in 1..0 : FALSE
          OBVIOUS
        <4> QED
          BY <2>2, <4>1, <4>2, <4>3, <4>4 DEF Filled
      <3> QED
        BY <3>1, <3>2
    <2> QED
      BY <2>1, <2>2
  <1>11. read_sector_dir(d, s, w, dir) = listed \o zeros
    BY DEF read_sector_dir
  <1>12. DirUnits(d, dir) = P(n)
    BY <1>3 DEF DirUnits
  <1>13. P(n) \in Seq(Units(d)) /\ Len(P(n)) = b
    <2>1. n \in 0..Len(d.file[dir].entries)
      BY <1>3
    <2> QED
      BY <1>5, <2>1, PartLength
  <1> HIDE DEF listed, B, P
  <1>14. /\ listed \in Seq(Units(d))
         /\ Len(listed) = Clip(b - base, room)
         /\ \A i \in 1..Len(listed) : listed[i] = P(n)[base + i]
    BY <1>5, <1>10 DEF Filled, B, P
  <1>15. PICK len \in Nat : len = Len(listed) /\ len = Clip(b - base, room) /\ len <= room
    BY <1>2, <1>14, LenProperties DEF Clip
  <1>16. PICK z \in Nat : z = room - len
    <2>1. room - len \in Nat
      BY <1>2, <1>15
    <2> QED
      BY <2>1
  <1>17. zeros \in Seq(Units(d)) /\ Len(zeros) = z /\ \A i \in 1..z : zeros[i] = Zero
    <2>1. zeros = [k \in 1..z |-> Zero]
      BY <1>15, <1>16
    <2>2. zeros \in [1..z -> Units(d)]
      BY <2>1, UnitsAlwaysHave
    <2> QED
      BY <2>1, <2>2, Listing
  <1> HIDE DEF zeros
  <1>18. /\ listed \o zeros \in Seq(Units(d))
         /\ Len(listed \o zeros) = Len(listed) + Len(zeros)
         /\ \A i \in 1..Len(listed) : (listed \o zeros)[i] = listed[i]
         /\ \A i \in 1..Len(zeros) : (listed \o zeros)[Len(listed) + i] = zeros[i]
    <2>1. listed \in Seq(Units(d))
      BY <1>14
    <2>2. zeros \in Seq(Units(d))
      BY <1>17
    <2> QED
      BY ONLY <2>1, <2>2, JoinedList
  <1>19. Len(listed \o zeros) = room
    <2>1. Len(listed \o zeros) = len + z
      BY <1>15, <1>17, <1>18
    <2>2. len + z = room
      BY ONLY <1>2, <1>16, len \in Nat
    <2> QED
      BY <2>1, <2>2
  <1>20. \A i \in 1..room : (listed \o zeros)[i] = UnitAt(P(n), base + i - 1)
    <2> TAKE i \in 1..room
    <2>1. CASE i <= len
      <3>1. i \in 1..len /\ base + i - 1 < b /\ (base + i - 1) + 1 = base + i
        BY <1>2, <1>15, <2>1 DEF Clip
      <3>2. UnitAt(P(n), base + i - 1) = P(n)[base + i]
        BY <1>13, <3>1 DEF UnitAt
      <3> QED
        BY <1>14, <1>15, <1>18, <3>1, <3>2
    <2>2. CASE i > len
      <3>1. PICK j \in 1..z : i = len + j
        <4>1. i - len \in 1..z /\ i = len + (i - len)
          BY <1>2, <1>15, <1>16, <2>2
        <4> QED
          BY <4>1
      <3>2. ~(base + i - 1 < b)
        BY ONLY <1>2, <1>15, <2>2, i \in 1..room, b \in Nat, len \in Nat DEF Clip
      <3>3. UnitAt(P(n), base + i - 1) = Zero
        BY <1>13, <3>2 DEF UnitAt
      <3>4. (listed \o zeros)[i] = zeros[j]
        BY <1>15, <1>17, <1>18, <3>1
      <3> QED
        BY <1>17, <3>3, <3>4
    <2>3. i <= len \/ i > len
      BY <1>2
    <2> QED
      BY <2>1, <2>2, <2>3
  <1> QED
    BY <1>11, <1>12, <1>18, <1>19, <1>20

-----------------------------------------------------------------------------
(* Arithmetic of units in sectors.                                         *)
LEMMA Distr ==
    ASSUME NEW a \in Int, NEW b \in Int, NEW n \in Nat
    PROVE  /\ (a + b) * n = a * n + b * n /\ (a - b) * n = a * n - b * n
           /\ a * n \in Int /\ (a \in Nat => a * n \in Nat) /\ (a <= b => a * n <= b * n)
  <1>1. (a + b) * n = a * n + b * n /\ (a - b) * n = a * n - b * n
    OBVIOUS
  <1>2. a * n \in Int /\ (a \in Nat => a * n \in Nat)
    OBVIOUS
  <1>3. ASSUME a <= b PROVE a * n <= b * n
    <2>1. b - a \in Nat
      BY <1>3
    <2>2. (b - a) * n \in Nat /\ (b - a) * n = b * n - a * n
      BY <2>1
    <2> QED
      BY <2>2
  <1> QED
    BY <1>1, <1>2, <1>3

(* The sector and the place in it of unit x.                               *)
LEMMA PlaceIs ==
    ASSUME NEW n \in Nat, n > 0, NEW m \in Nat, NEW j \in 0..(n - 1), NEW x, x = m * n + j
    PROVE  x \div n = m /\ x % n = j
  OBVIOUS

LEMMA Place ==
    ASSUME NEW n \in Nat, n > 0, NEW x \in Nat
    PROVE  \E q \in Nat, r \in 0..(n - 1) :
             /\ q = x \div n /\ r = x % n /\ x = q * n + r
             /\ \A m \in Nat : x < m * n => q < m
  <1>1. x = n * (x \div n) + (x % n) /\ x \div n \in Int /\ x % n \in 0..(n - 1)
    OBVIOUS
  <1>2. PICK q \in Int, r \in 0..(n - 1) : q = x \div n /\ r = x % n
    BY <1>1
  <1>3. x = q * n + r
    BY <1>1, <1>2
  <1>4. q \in Nat
    <2>1. q <= -1 => q * n <= -1 * n
      BY Distr
    <2>2. -1 * n = -n
      OBVIOUS
    <2> QED
      BY <1>3, <2>1, <2>2
  <1>5. ASSUME NEW m \in Nat, x < m * n PROVE q < m
    <2>1. m <= q => m * n <= q * n
      BY Distr
    <2>2. m * n \in Nat /\ q * n \in Nat
      BY <1>4, Distr
    <2> QED
      BY <1>3, <1>4, <1>5, <2>1, <2>2
  <1> QED
    BY <1>2, <1>3, <1>4, <1>5

(* The drives are as the readers expect them.                              *)
LEMMA DriveIs ==
    ASSUME drv \in Drives
    PROVE  /\ Shaped(drv) /\ Tiled(drv) /\ Ranged(drv) /\ Numbered(drv)
           /\ drv.bps \in Nat /\ drv.bps >= 2 /\ drv.sectors \in Nat /\ drv.mbr_sectors \in Nat
           /\ drv.fat1_start \in Nat /\ drv.fat2_start \in Nat /\ drv.root_start \in Nat
           /\ drv.data_start \in Nat /\ drv.data_end \in Nat /\ drv.data_cluster_end \in Nat
           /\ drv.file_cnt \in Nat
           /\ drv.fat1_start <= drv.fat2_start /\ drv.fat2_start <= drv.root_start
           /\ drv.root_start <= drv.data_start /\ drv.data_start <= drv.data_end
           /\ drv.data_end < drv.sectors
           /\ FatEnd = drv.root_start
           /\ RootEnd = drv.data_start \/ (RootEnd = 0 /\ drv.root_start = drv.data_start)
  <1>1. Shaped(drv) /\ Tiled(drv) /\ Ranged(drv) /\ Numbered(drv)
    BY DrivesAssumption
  <1>2. /\ drv.bps \in Nat /\ drv.bps >= 2 /\ drv.sectors \in Nat /\ drv.mbr_sectors \in Nat
        /\ drv.fat1_start \in Nat /\ drv.fat2_start \in Nat /\ drv.root_start \in Nat
        /\ drv.data_start \in Nat /\ drv.data_end \in Nat /\ drv.data_cluster_end \in Nat
        /\ drv.file_cnt \in Nat
        /\ drv.fat1_start <= drv.fat2_start /\ drv.fat2_start <= drv.root_start
        /\ drv.root_start <= drv.data_start /\ drv.data_start <= drv.data_end
        /\ drv.filesys = "FAT32" => drv.root_start = drv.data_start
    BY <1>1 DEF Shaped
  <1>3. drv.data_end < drv.sectors
    BY <1>1 DEF Tiled
  <1> QED
    BY <1>1, <1>2, <1>3 DEF FatEnd, RootEnd

(* The root directory is a directory.                                      *)
LEMMA RootIsDir ==
    ASSUME drv \in Drives
    PROVE  Dir(drv, drv.root_dir)
  BY DriveIs DEF Dir, Shaped

(* The device in sectors, and the position of vdf_read_sectors() on it.    *)
Total == drv.sectors + drv.mbr_sectors
Dev == IF pc \in {"mbr", "pad", "partition"} THEN sector ELSE sector + drv.mbr_sectors

Walking == {"mbr", "pad", "partition", "boot", "fat1", "fat2", "root", "data"}
Chains  == {"chain1", "chain2"}
Phases  == {"head", "body", "tail"}

Types ==
    /\ drv \in Drives
    /\ req.off \in 0..Bytes - 1 /\ req.cnt \in Nat
    /\ phase \in Phases \cup {"done", "error"}
    /\ pc \in Walking \cup Chains \cup {"idle", "files", "return"}
    /\ soff \in Nat /\ want \in Nat /\ sector \in Nat /\ rem \in Nat /\ cnt \in Nat /\ left \in Nat
    /\ fat \in [ent : Nat, clust : Nat, file : Int]
    /\ out \in Seq(Units(drv)) /\ result \in Seq(Units(drv))

Called ==
    /\ phase \in Phases => soff <= Total
    /\ pc # "idle" => phase \in Phases /\ want > 0 /\ (phase # "body" => want = 1)

(* What is still to be read, and what vdf_read_sectors() is asked for.     *)
Asked ==
    /\ Len(result) <= req.cnt
    /\ phase = "head" => Left > 0
    /\ phase = "tail" => Left < drv.bps
    /\ pc # "idle" => Left > 0 /\ (phase = "body" => want = Left \div drv.bps)

(* How far a call has come: no sector is counted that was not walked over, *)
(* and fewer than are asked for only at the end of the device.             *)
Counted ==
    /\ pc \in Walking => rem > 0
    /\ pc \in Walking \cup Chains =>
          cnt + rem = want /\ Dev = soff + cnt /\ Dev <= Total
    /\ pc = "files" => rem <= cnt /\ (rem > 0 => Dev + rem = soff + cnt)
    /\ pc \in {"files", "return"} =>
          cnt <= want /\ soff + cnt <= Total /\ (cnt < want => soff + cnt = Total)
    /\ pc \notin Chains => left = 0

(* The sectors whose units are in the buffer.                              *)
Written == cnt - (IF pc = "files" THEN rem ELSE 0)

InStep == pc # "idle" => Len(out) = Written * drv.bps - left

(* Every region begins where the one before it has ended.                  *)
InRegion ==
    /\ pc = "mbr" => cnt = 0
    /\ pc = "pad" => drv.mbr_sectors = 0 \/ sector > 0
    /\ pc = "partition" => sector >= drv.mbr_sectors
    /\ pc = "fat1" => sector >= drv.fat1_start
    /\ pc = "chain1" => sector >= drv.fat1_start /\ (rem > 0 => sector >= drv.fat2_start)
    /\ pc = "fat2" => sector >= drv.fat2_start
    /\ pc = "chain2" => sector >= drv.fat2_start /\ (rem > 0 => sector >= FatEnd)
    /\ pc = "root" => sector >= FatEnd
    /\ pc \in {"data", "files"} => sector >= drv.data_start

StepInv == Types /\ Called /\ Asked /\ Counted /\ InStep /\ InRegion

LEMMA StepInvIsTyped ==
    ASSUME StepInv PROVE TypeOK /\ BufferInStep
  <1>0. drv \in Drives
    BY DEF StepInv, Types
  <1>1. PICK n \in Nat : n = drv.bps /\ n >= 2
    BY <1>0, DriveIs
  <1>2. TypeOK
    BY DEF StepInv, Types, TypeOK, Walking, Chains, Phases
  <1>3. ASSUME pc # "idle" PROVE Len(out) <= want * n /\ Len(out) = Written * n - left
    <2>1. Len(out) = Written * n - left
      BY <1>1, <1>3 DEF StepInv, InStep
    <2>2. Written \in Nat /\ Written <= want /\ want \in Nat /\ left \in Nat
      BY <1>3 DEF StepInv, Types, Counted, Written, Walking, Chains
    <2>3. Written * n \in Nat /\ want * n \in Nat /\ Written * n <= want * n
      BY <2>2, Distr
    <2> QED
      BY <2>1, <2>2, <2>3
  <1> QED
    BY <1>1, <1>2, <1>3 DEF BufferInStep, Written

(* Initially, and when vdf_read_bytes() calls and goes on.                 *)
LEMMA InitStep ==
    ASSUME Init PROVE StepInv
  <1>1. drv \in Drives /\ pc = "idle" /\ want = 0 /\ sector = 0 /\ rem = 0 /\ cnt = 0 /\ left = 0
    BY DEF Init
  <1>2. PICK n \in Nat : n = drv.bps /\ n >= 2
    BY <1>1, DriveIs
  <1>3. PICK t \in Nat : t = Total
    BY <1>1, DriveIs DEF Total
  <1>4. PICK off \in 0..(t * n - 1), m \in Nat : req = [off |-> off, cnt |-> m]
    <2>1. \A d \in Drives : Lengths(d) \subseteq Nat
      BY DrivesAssumption
    <2> QED
      BY <1>1, <1>2, <1>3, <2>1 DEF Init, Bytes, Total
  <1>5. req.off \in 0..(Bytes - 1) /\ req.cnt \in Nat /\ req.off = off
    BY <1>2, <1>3, <1>4 DEF Bytes, Total
  <1>6. soff = off \div n /\ off \in Nat /\ off < t * n
    <2>1. t * n \in Nat
      BY Distr
    <2> QED
      BY <1>2, <1>5, <2>1 DEF Init
  <1>7. soff \in Nat /\ soff <= Total
    BY <1>2, <1>3, <1>6, Place
  <1>8. out = <<>> /\ result = <<>> /\ fat = [ent |-> 0, clust |-> 0, file |-> 0]
    BY DEF Init, Miss
  <1>9. phase \in Phases \cup {"done", "error"}
    BY DEF Init, Phases
  <1>10. Types
    BY <1>1, <1>5, <1>7, <1>8, <1>9 DEF Types
  <1>11. Asked
    <2>1. Len(result) = 0 /\ Left = req.cnt /\ (phase = "head" => req.cnt > 0) /\ phase # "tail"
      BY <1>5, <1>8 DEF Init, Left
    <2> QED
      BY <1>1, <1>5, <2>1 DEF Asked
  <1> QED
    BY <1>1, <1>7, <1>10, <1>11 DEF StepInv, Called, Counted, InStep, InRegion, Walking, Chains

LEMMA CallStep ==
    ASSUME StepInv, pc = "idle", NEW m \in Nat, m > 0, phase \in Phases, phase # "body" => m = 1, Call(m),
           Left > 0, phase = "body" => m = Left \div drv.bps
    PROVE  StepInv'
  <1>1. Types'
    <2>1. out' \in Seq(Units(drv'))
      BY DEF Call
    <2> QED
      BY <2>1 DEF StepInv, Types, Call, Walking, Bytes
  <1>2. Called'
    BY DEF StepInv, Called, Call, Total
  <1>3. soff \in Nat /\ soff <= Total /\ left = 0 /\ drv \in Drives
    BY DEF StepInv, Called, Types, Counted, Chains
  <1>4. Counted'
    BY <1>3 DEF Counted, Call, Walking, Chains, Dev, Total
  <1>5. InStep'
    <2>1. Len(out') = 0 /\ Written' = 0 /\ left' = 0 /\ drv' = drv
      BY <1>3 DEF Call, Written
    <2>2. 0 * drv.bps = 0
      BY <1>3, DriveIs
    <2> QED
      BY <2>1, <2>2 DEF InStep
  <1>6. InRegion'
    BY DEF InRegion, Call
  <1>7. Asked'
    BY DEF StepInv, Asked, Call, Left
  <1> QED
    BY <1>1, <1>2, <1>4, <1>5, <1>6, <1>7 DEF StepInv

LEMMA PhaseStep ==
    ASSUME StepInv, pc = "idle", phase \in Phases, NEW p, p \in Phases \cup {"done"}, NextPhase(p),
           p # "head", p = "tail" => Left < drv.bps
    PROVE  StepInv'
  <1>1. Types'
    BY DEF StepInv, Types, NextPhase, callvars, Bytes
  <1>2. Asked'
    BY DEF StepInv, Asked, NextPhase, callvars, Left
  <1> QED
    BY <1>1, <1>2 DEF StepInv, Called, Counted, InStep, InRegion, NextPhase, callvars, Total, Dev,
                Walking, Chains

LEMMA IdleStep ==
    ASSUME StepInv, BeginHead \/ BeginBody \/ BeginTail
    PROVE  StepInv'
  <1>0. drv \in Drives /\ Len(result) \in Nat /\ req.cnt \in Nat
    BY LenProperties DEF StepInv, Types
  <1>5. PICK n \in Nat : n = drv.bps /\ n >= 2
    BY <1>0, DriveIs
  <1>1. CASE BeginHead
    <2>1. CASE HeadAt # 0
      <3>1. Left > 0 /\ pc = "idle" /\ phase = "head" /\ Call(1)
        BY <1>1, <2>1 DEF BeginHead, StepInv, Asked
      <3> QED
        BY <3>1, CallStep DEF Phases
    <2>2. CASE HeadAt = 0
      BY <1>1, <2>2, PhaseStep DEF BeginHead, Phases
    <2> QED
      BY <2>1, <2>2
  <1>2. CASE BeginBody
    <2>1. CASE Left >= drv.bps
      <3>1. PICK x \in Nat : x = Left /\ x >= n
        <4>1. Left \in Nat
          BY <1>0, <1>5, <2>1 DEF Left
        <4> QED
          BY <1>5, <2>1, <4>1
      <3>2. x \div n \in Nat /\ x \div n > 0
        <4>1. PICK q \in Nat, r \in 0..(n - 1) : q = x \div n /\ r = x % n /\ x = q * n + r
          <5>1. n > 0
            BY <1>5
          <5> QED
            BY ONLY <5>1, n \in Nat, x \in Nat, Place
        <4>2. q # 0
          BY <1>5, <3>1, <4>1
        <4> QED
          BY <4>1, <4>2
      <3>3. Call(Left \div drv.bps) /\ pc = "idle" /\ phase = "body"
        BY <1>2, <2>1 DEF BeginBody
      <3> QED
        BY <1>5, <3>1, <3>2, <3>3, CallStep DEF Phases
    <2>2. CASE ~(Left >= drv.bps)
      <3>1. Left < drv.bps
        BY <1>0, <1>5, <2>2 DEF Left
      <3> QED
        BY <1>2, <2>2, <3>1, PhaseStep DEF BeginBody, Phases
    <2> QED
      BY <2>1, <2>2
  <1>3. CASE BeginTail
    <2>1. CASE Left > 0
      BY <1>3, <2>1, CallStep DEF BeginTail, Phases
    <2>2. CASE ~(Left > 0)
      BY <1>3, <2>2, PhaseStep DEF BeginTail, Phases
    <2> QED
      BY <2>1, <2>2
  <1> QED
    BY <1>1, <1>2, <1>3

(* The piece of the buffer that the caller gets: m units from unit a on.   *)
PieceSize(a, m) ==
    /\ a = IF phase = "head" THEN HeadAt ELSE 0
    /\ phase = "head" => m = Min2(drv.bps - HeadAt, Left)
    /\ phase = "body" => m = cnt * drv.bps
    /\ phase = "tail" => m = Left

LEMMA PieceIs ==
    ASSUME StepInv, pc = "return", phase = "body" \/ cnt = want
    PROVE  \E a \in Nat, m \in Nat :
             /\ PieceSize(a, m)
             /\ m <= Left /\ a + m <= Len(out)
             /\ Piece \in Seq(Units(drv)) /\ Len(Piece) = m
             /\ \A i \in 1..m : Piece[i] = out[a + i]
  <1>0. /\ drv \in Drives /\ Len(result) \in Nat /\ req.cnt \in Nat /\ req.off \in Nat /\ left = 0
        /\ phase \in Phases /\ want \in Nat /\ cnt \in Nat
        /\ cnt <= want /\ (phase # "body" => want = 1)
        /\ out \in Seq(Units(drv)) /\ Len(out) \in Nat
    BY LenProperties DEF StepInv, Types, Called, Counted, Chains
  <1>1. PICK n \in Nat : n = drv.bps /\ n >= 2
    BY <1>0, DriveIs
  <1>2. PICK x \in Nat : x = Left /\ x > 0
    <2>1. Left > 0 /\ Left \in Int
      BY <1>0 DEF StepInv, Asked, Left
    <2>2. Left \in Nat
      BY <2>1
    <2> QED
      BY <2>1, <2>2
  <1>3. Len(out) = cnt * n
    <2>1. Len(out) = cnt * n - 0
      BY <1>0, <1>1 DEF StepInv, InStep, Written
    <2>2. cnt * n \in Nat
      BY <1>0, Distr
    <2> QED
      BY <2>1, <2>2
  <1>4. CASE phase = "head"
    <2>1. PICK a \in Nat : a = HeadAt /\ a < n
      <3>1. PICK off \in Nat : off = req.off
        BY <1>0
      <3>2. off % n \in 0..(n - 1)
        BY <1>1, Place
      <3> QED
        BY <1>1, <3>1, <3>2 DEF HeadAt
    <2>2. PICK m \in Nat : m = Min2(n - a, x) /\ m <= x /\ a + m <= n
      <3>1. Min2(n - a, x) \in Nat /\ Min2(n - a, x) <= x /\ a + Min2(n - a, x) <= n
        BY <2>1 DEF Min2
      <3> QED
        BY <3>1
    <2>3. Len(out) = n
      <3>1. cnt = 1
        BY <1>0, <1>4
      <3>2. 1 * n = n
        OBVIOUS
      <3> QED
        BY <1>3, <3>1, <3>2
    <2>4. Piece = SubSeq(out, a + 1, a + m)
      BY <1>1, <1>2, <1>4, <2>1, <2>2 DEF Piece
    <2>5. /\ SubSeq(out, a + 1, a + m) \in Seq(Units(drv)) /\ Len(SubSeq(out, a + 1, a + m)) = m
          /\ \A i \in 1..m : SubSeq(out, a + 1, a + m)[i] = out[a + i]
      <3>1. out \in Seq(Units(drv))
        BY <1>0
      <3>2. a + m <= Len(out)
        BY <2>2, <2>3
      <3> QED
        BY ONLY <3>1, <3>2, a \in Nat, m \in Nat, CutList
    <2>6. PieceSize(a, m)
      BY <1>1, <1>2, <1>4, <2>1, <2>2 DEF PieceSize
    <2> QED
      BY <1>2, <2>2, <2>3, <2>4, <2>5, <2>6
  <1>5. CASE phase = "body"
    <2>1. Piece = SubSeq(out, 1, cnt * drv.bps)
      BY <1>5 DEF Piece
    <2>2. PICK q \in Nat : q = x \div n /\ q * n <= x /\ want = q
      <3>1. PICK q \in Nat, r \in 0..(n - 1) : q = x \div n /\ r = x % n /\ x = q * n + r
        <4>1. n > 0
          BY <1>1
        <4> QED
          BY ONLY <4>1, n \in Nat, x \in Nat, Place
      <3>2. want = x \div n
        BY <1>1, <1>2, <1>5 DEF StepInv, Asked
      <3>3. q * n \in Nat
        BY Distr
      <3>4. q * n <= x
        BY <3>1, <3>3
      <3> QED
        BY <3>1, <3>2, <3>4
    <2>3. PICK m \in Nat : m = cnt * n
      BY <1>0, Distr
    <2>4. m <= x
      <3>1. cnt * n <= q * n
        BY <1>0, <2>2, Distr
      <3>2. q * n \in Nat
        BY Distr
      <3> QED
        BY <2>2, <2>3, <3>1, <3>2
    <2>5. /\ SubSeq(out, 0 + 1, 0 + m) \in Seq(Units(drv)) /\ Len(SubSeq(out, 0 + 1, 0 + m)) = m
          /\ \A i \in 1..m : SubSeq(out, 0 + 1, 0 + m)[i] = out[0 + i]
      <3>1. out \in Seq(Units(drv))
        BY <1>0
      <3>2. 0 + m <= Len(out) /\ 0 \in Nat
        BY <1>3, <2>3
      <3> QED
        BY ONLY <3>1, <3>2, m \in Nat, CutList
    <2>6. PieceSize(0, m)
      BY <1>1, <1>5, <2>3 DEF PieceSize
    <2>7. Piece = SubSeq(out, 0 + 1, 0 + m)
      <3>1. cnt * drv.bps = m /\ 0 + 1 = 1 /\ 0 + m = m
        BY <1>1, <2>3
      <3> QED
        BY ONLY <2>1, <3>1, Zenon
    <2>8. 0 + m <= Len(out)
      BY <1>3, <2>3
    <2> QED
      BY <1>2, <2>4, <2>5, <2>6, <2>7, <2>8
  <1>6. CASE phase = "tail"
    <2>1. x < n
      BY <1>1, <1>2, <1>6 DEF StepInv, Asked
    <2>3. Len(out) = n
      <3>1. cnt = 1
        BY <1>0, <1>6
      <3>2. 1 * n = n
        OBVIOUS
      <3> QED
        BY <1>3, <3>1, <3>2
    <2>4. Piece = SubSeq(out, 0 + 1, 0 + x)
      BY <1>2, <1>6 DEF Piece
    <2>5. /\ SubSeq(out, 0 + 1, 0 + x) \in Seq(Units(drv)) /\ Len(SubSeq(out, 0 + 1, 0 + x)) = x
          /\ \A i \in 1..x : SubSeq(out, 0 + 1, 0 + x)[i] = out[0 + i]
      <3>1. out \in Seq(Units(drv))
        BY <1>0
      <3>2. 0 + x <= Len(out) /\ 0 \in Nat
        BY <2>1, <2>3
      <3> QED
        BY ONLY <3>1, <3>2, x \in Nat, CutList
    <2>6. PieceSize(0, x)
      BY <1>2, <1>6 DEF PieceSize
    <2> QED
      BY <1>2, <2>1, <2>3, <2>4, <2>5, <2>6
  <1> QED
    BY <1>0, <1>4, <1>5, <1>6 DEF Phases

LEMMA ReturnStep ==
    ASSUME StepInv, Return
    PROVE  StepInv'
  <1>0. /\ drv \in Drives /\ Len(result) \in Nat /\ req.cnt \in Nat /\ pc = "return" /\ left = 0
        /\ phase \in Phases /\ want \in Nat /\ cnt \in Nat /\ soff \in Nat
        /\ cnt <= want /\ soff + cnt <= Total /\ (phase # "body" => want = 1)
        /\ out \in Seq(Units(drv)) /\ result \in Seq(Units(drv))
        /\ Len(result) <= req.cnt
    BY LenProperties DEF StepInv, Types, Return, Called, Counted, Asked, Chains
  <1>1. PICK n \in Nat : n = drv.bps /\ n >= 2
    BY <1>0, DriveIs
  <1>2. /\ result' \in Seq(Units(drv)) /\ Len(result') <= req.cnt
        /\ phase = "body" /\ cnt = want => req.cnt - Len(result') < n
    <2>1. CASE cnt < want /\ phase # "body"
      BY <1>0, <2>1 DEF Return
    <2>2. CASE ~(cnt < want /\ phase # "body")
      <3>1. PICK a \in Nat, m \in Nat :
               /\ PieceSize(a, m)
               /\ m <= Left
               /\ Piece \in Seq(Units(drv)) /\ Len(Piece) = m
        <4>1. phase = "body" \/ cnt = want
          BY <1>0, <2>2
        <4> QED
          BY <1>0, <4>1, PieceIs
      <3>2. result' = result \o Piece
        BY <2>2 DEF Return
      <3>3. result' \in Seq(Units(drv)) /\ Len(result') = Len(result) + m
        <4>1. result \in Seq(Units(drv))
          BY <1>0
        <4>2. Piece \in Seq(Units(drv))
          BY <3>1
        <4>3. /\ result \o Piece \in Seq(Units(drv))
              /\ Len(result \o Piece) = Len(result) + Len(Piece)
          BY ONLY <4>1, <4>2, JoinedList
        <4> QED
          BY <3>1, <3>2, <4>3
      <3>4. Len(result') <= req.cnt
        <4>1. m <= req.cnt - Len(result)
          BY <3>1 DEF Left
        <4> QED
          BY <1>0, <3>3, <4>1
      <3>5. ASSUME phase = "body", cnt = want PROVE req.cnt - Len(result') < n
        <4>1. m = want * n
          BY <1>1, <3>1, <3>5 DEF PieceSize
        <4>2. PICK x \in Nat : x = req.cnt - Len(result)
          BY <1>0
        <4>3. want = x \div n
          BY <1>0, <1>1, <3>5, <4>2 DEF StepInv, Asked, Left
        <4>4. PICK q \in Nat, r \in 0..(n - 1) : q = x \div n /\ r = x % n /\ x = q * n + r
          <5>1. n > 0
            BY <1>1
          <5> QED
            BY ONLY <5>1, n \in Nat, x \in Nat, Place
        <4>5. x - m < n
          BY <4>1, <4>3, <4>4
        <4>6. req.cnt - Len(result') = x - m
          <5>1. PICK c \in Nat, y \in Nat : c = req.cnt /\ y = Len(result)
            BY <1>0
          <5>2. x = c - y /\ Len(result') = y + m
            BY <3>3, <4>2, <5>1
          <5>3. c - (y + m) = x - m
            BY ONLY <5>2, c \in Nat, y \in Nat, m \in Nat
          <5> QED
            BY <5>1, <5>2, <5>3
        <4> QED
          BY <4>5, <4>6
      <3> QED
        BY <3>3, <3>4, <3>5
    <2> QED
      BY <2>1, <2>2
  <1>3. Types'
    BY <1>0, <1>2, SMTT(40) DEF StepInv, Types, Return, Bytes, Phases
  <1>4. Called'
    BY <1>0 DEF StepInv, Called, Return, Total, Phases
  <1>5. Asked'
    <2>1. phase' = "tail" => phase = "body" /\ cnt = want
      BY <1>0 DEF Return, Phases
    <2>2. phase' # "head" /\ pc' = "idle" /\ req' = req /\ drv' = drv
      BY <1>0 DEF Return, Phases
    <2> QED
      BY <1>1, <1>2, <2>1, <2>2 DEF Asked, Left
  <1> QED
    BY <1>0, <1>3, <1>4, <1>5 DEF StepInv, Counted, InStep, InRegion, Return, Walking, Chains

(* How many sectors are read of a region that ends at limit.               *)
LEMMA WantIs ==
    ASSUME NEW limit \in Nat, sector \in Nat, rem \in Nat, rem > 0, sector < limit
    PROVE  \E w \in Nat : /\ w = WantBelow(limit) /\ 0 < w /\ w <= rem /\ sector + w <= limit
                          /\ w < rem => sector + w = limit
  <1>1. /\ WantBelow(limit) \in Nat /\ 0 < WantBelow(limit) /\ WantBelow(limit) <= rem
        /\ sector + WantBelow(limit) <= limit
        /\ WantBelow(limit) < rem => sector + WantBelow(limit) = limit
    BY DEF WantBelow
  <1> QED
    BY <1>1

LEMMA ZerosAre ==
    ASSUME NEW d, NEW m \in Nat
    PROVE  /\ Zeros(m) \in Seq(Units(d)) /\ Len(Zeros(m)) = m
           /\ \A i \in 1..m : Zeros(m)[i] = Zero
  <1>1. Zeros(m) \in [1..m -> Units(d)]
    BY UnitsAlwaysHave DEF Zeros
  <1> QED
    BY <1>1, Listing DEF Zeros

(* The buffer after w more sectors.                                        *)
LEMMA MoreSectors ==
    ASSUME drv \in Drives, out \in Seq(Units(drv)), NEW u \in Seq(Units(drv)), NEW c \in Nat, NEW w \in Nat,
           Len(out) = c * drv.bps, Len(u) = w * drv.bps
    PROVE  out \o u \in Seq(Units(drv)) /\ Len(out \o u) = (c + w) * drv.bps
  <1>1. PICK n \in Nat : n = drv.bps
    BY DriveIs
  <1>2. out \o u \in Seq(Units(drv)) /\ Len(out \o u) = Len(out) + Len(u)
    <2>1. out \in Seq(Units(drv))
      OBVIOUS
    <2> QED
      BY ONLY <2>1, u \in Seq(Units(drv)), JoinedList
  <1>3. (c + w) * n = c * n + w * n
    BY Distr
  <1> QED
    BY <1>1, <1>2, <1>3

(* No sector is left out at the end of the buffer.                         *)
LEMMA LengthIs ==
    ASSUME StepInv, pc # "idle", left = 0
    PROVE  Len(out) = Written * drv.bps
  <1>1. PICK n \in Nat : n = drv.bps
    BY DriveIs DEF StepInv, Types
  <1>2. PICK c \in Nat : c = Written
    <2>1. cnt \in Nat /\ rem \in Nat /\ (pc = "files" => rem <= cnt)
      BY DEF StepInv, Types, Counted
    <2>2. Written \in Nat
      BY ONLY <2>1 DEF Written
    <2> QED
      BY <2>2
  <1>3. Len(out) = c * n - 0
    BY <1>1, <1>2 DEF StepInv, InStep
  <1>4. c * n \in Nat
    BY Distr
  <1> QED
    BY <1>1, <1>2, <1>3, <1>4

(* The regions that are written in one piece.                              *)
LEMMA RegionStep ==
    ASSUME StepInv, NEW r, NEW limit \in Nat, NEW units, NEW next, Region(r, limit, units, next),
           \/ r = "pad" /\ next = "partition"
           \/ r = "boot" /\ next = "fat1"
           \/ r = "root" /\ next = "data",
           limit + (IF r = "pad" THEN 0 ELSE drv.mbr_sectors) <= Total,
           sector < limit => /\ units \in Seq(Units(drv))
                             /\ Len(units) = WantBelow(limit) * drv.bps
    PROVE  /\ Types' /\ Called' /\ Asked' /\ Counted' /\ InStep'
           /\ pc' = "return" \/ (pc' = next /\ sector' >= limit)
  <1>0. /\ drv \in Drives /\ sector \in Nat /\ rem \in Nat /\ cnt \in Nat /\ want \in Nat /\ soff \in Nat
        /\ out \in Seq(Units(drv)) /\ pc = r /\ pc # "idle" /\ left = 0 /\ rem > 0
        /\ cnt + rem = want /\ Dev = soff + cnt /\ Dev <= Total
        /\ r \in {"pad", "boot", "root"}
    BY DEF StepInv, Types, Counted, Walking, Chains, Region
  <1>1. Called' /\ Asked'
    BY <1>0 DEF StepInv, Called, Asked, Region, Left, Total
  <1>2. PICK m \in Nat, t \in Nat : m = drv.mbr_sectors /\ t = Total
    <2>1. drv.mbr_sectors \in Nat /\ drv.sectors \in Nat
      BY <1>0, DriveIs
    <2>2. Total \in Nat
      BY ONLY <2>1 DEF Total
    <2> QED
      BY <2>1, <2>2
  <1>3. PICK c \in Nat, s \in Nat, p \in Nat : c = cnt /\ s = sector /\ p = rem
    BY <1>0
  <1>6. /\ sector \in Nat /\ rem \in Nat /\ cnt \in Nat /\ want \in Nat /\ soff \in Nat
        /\ cnt + rem = want
    BY <1>0
  <1>7. \A x \in Nat : x * drv.bps \in Nat
    <2>1. drv.bps \in Nat
      BY <1>0, DriveIs
    <2> QED
      BY ONLY <2>1, Distr
  <1>4. CASE ~(sector < limit)
    <2>1. /\ pc' = next /\ out' = out /\ rem' = rem /\ cnt' = cnt /\ sector' = sector
          /\ UNCHANGED <<drv, req, phase, result, soff, want, fat, left>>
      BY <1>4 DEF Region
    <2>2. Types'
      BY <1>0, <2>1 DEF StepInv, Types, Bytes, Walking
    <2>3. Counted'
      BY <1>0, <2>1 DEF Counted, Dev, Total, Walking, Chains
    <2>4. InStep'
      BY <1>0, <2>1 DEF StepInv, InStep, Written
    <2>5. sector' >= limit
      BY <1>0, <1>4, <2>1
    <2> QED
      BY <1>1, <2>1, <2>2, <2>3, <2>4, <2>5
  <1>5. CASE sector < limit
    <2>1. PICK w \in Nat : /\ w = WantBelow(limit) /\ 0 < w /\ w <= rem /\ sector + w <= limit
                           /\ w < rem => sector + w = limit
      BY <1>0, <1>5, WantIs
    <2>2. /\ out' = out \o units /\ rem' = rem - w /\ cnt' = cnt + w /\ sector' = sector + w
          /\ pc' = (IF rem = w THEN "return" ELSE next)
          /\ UNCHANGED <<drv, req, phase, result, soff, want, fat, left>>
      BY <1>5, <2>1 DEF Region
    <2>3. rem' \in Nat /\ cnt' \in Nat /\ sector' \in Nat
      <3>1. rem' = rem - w /\ cnt' = cnt + w /\ sector' = sector + w
        BY <2>2
      <3> QED
        BY ONLY <1>6, <2>1, <3>1, w \in Nat
    <2>9. rem' = rem - w /\ cnt' = cnt + w /\ sector' = sector + w
      BY <2>2
    <2>4. Len(out) = cnt * drv.bps
      <3>1. Written = cnt
        BY <1>0 DEF Written
      <3> QED
        BY <1>0, <3>1, LengthIs
    <2>5. out' \in Seq(Units(drv)) /\ Len(out') = cnt' * drv.bps
      <3>1. units \in Seq(Units(drv)) /\ Len(units) = w * drv.bps
        BY <1>5, <2>1
      <3> QED
        BY <1>0, <2>2, <2>4, <3>1, MoreSectors
    <2>6. Types'
      BY <1>0, <2>2, <2>3, <2>5 DEF StepInv, Types, Bytes, Walking
    <2>7. CASE rem = w
      <3>1. pc' = "return" /\ rem' = 0 /\ cnt' = want
        BY <1>0, <2>2, <2>7
      <3>2. soff + want <= Total
        <4>1. (IF r = "pad" THEN sector ELSE sector + m) + rem <= t
          <5>1. limit + (IF r = "pad" THEN 0 ELSE m) <= t
            BY <1>2
          <5>2. sector + rem <= limit
            BY <2>1, <2>7
          <5> QED
            BY ONLY <1>6, <5>1, <5>2, m \in Nat, t \in Nat, limit \in Nat
        <4>2. Dev + rem <= t
          BY <1>0, <1>2, <4>1 DEF Dev
        <4> QED
          BY <1>0, <1>2, <4>2
      <3>3. Counted'
        BY <1>0, <2>2, <3>1, <3>2 DEF Counted, Walking, Chains, Total
      <3>4. InStep'
        <4>1. Written' = cnt' /\ left' = 0 /\ drv' = drv
          BY <1>0, <2>2, <2>3, <3>1 DEF Written
        <4>2. cnt' * drv.bps \in Nat
          BY <1>7, <2>3
        <4> QED
          BY <2>5, <4>1, <4>2 DEF InStep
      <3> QED
        BY <1>1, <2>6, <3>1, <3>3, <3>4
    <2>8. CASE rem # w
      <3>1. pc' = next /\ sector' = limit /\ rem' > 0 /\ cnt' + rem' = want
        <4>1. pc' = next
          BY <2>2, <2>8
        <4>2. sector' = limit /\ rem' > 0 /\ cnt' + rem' = want
          BY ONLY <1>6, <2>1, <2>8, <2>9, w \in Nat
        <4> QED
          BY <4>1, <4>2
      <3>2. Dev' = soff + cnt' /\ Dev' <= Total
        <4>1. Dev' = Dev + w /\ Dev' = limit + (IF r = "pad" THEN 0 ELSE drv.mbr_sectors)
          <5>1. CASE r = "pad"
            <6>1. pc = "pad" /\ pc' = "partition"
              BY <1>0, <3>1, <5>1
            <6> QED
              BY <1>0, <2>2, <3>1, <5>1, <6>1 DEF Dev
          <5>2. CASE r # "pad"
            <6>1. pc \in {"boot", "root"} /\ pc' \in {"fat1", "data"}
              BY <1>0, <3>1, <5>2
            <6>2. Dev = s + m /\ Dev' = (s + w) + m
              BY <1>2, <1>3, <2>2, <6>1 DEF Dev
            <6>3. s + w = limit
              BY <1>3, <2>2, <3>1
            <6>4. Dev' = Dev + w /\ Dev' = limit + m
              BY ONLY <6>2, <6>3, s \in Nat, m \in Nat, w \in Nat
            <6> QED
              BY <1>2, <5>2, <6>4
          <5> QED
            BY <5>1, <5>2
        <4> QED
          BY <1>0, <1>3, <2>2, <4>1
      <3>3. Counted'
        BY <1>0, <2>2, <3>1, <3>2 DEF Counted, Walking, Chains, Total
      <3>4. InStep'
        <4>1. Written' = cnt' /\ left' = 0 /\ drv' = drv
          BY <1>0, <2>2, <2>3, <3>1 DEF Written
        <4>2. cnt' * drv.bps \in Nat
          BY <1>7, <2>3
        <4> QED
          BY <2>5, <4>1, <4>2 DEF InStep
      <3>5. sector' >= limit
        BY <3>1
      <3> QED
        BY <1>1, <2>6, <3>1, <3>3, <3>4, <3>5
    <2> QED
      BY <2>7, <2>8
  <1> QED
    BY <1>4, <1>5

LEMMA BootUnitsAre ==
    ASSUME drv \in Drives, NEW s \in Nat, NEW w \in Nat
    PROVE  BootUnits(s, w) \in Seq(Units(drv)) /\ Len(BootUnits(s, w)) = w * drv.bps
  <1>1. PICK n \in Nat : n = drv.bps /\ n > 0
    <2>1. drv.bps \in Nat /\ drv.bps >= 2
      BY DriveIs
    <2> QED
      BY <2>1
  <1>2. w * n \in Nat
    BY Distr
  <1>3. ASSUME NEW k \in 1..(w * n)
        PROVE  BootUnit(drv, s + (k - 1) \div n, (k - 1) % n) \in Units(drv)
    <2>1. PICK x \in Nat : x = k - 1
      BY <1>2
    <2>2. PICK j \in Int : j = x % n
      <3>1. n > 0
        BY <1>1
      <3>2. \E q \in Nat, r \in 0..(n - 1) : q = x \div n /\ r = x % n /\ x = q * n + r
        BY ONLY <3>1, n \in Nat, x \in Nat, Place
      <3> QED
        BY <3>2
    <2>3. Zero \in Units(drv) /\ <<"boot", j>> \in Units(drv) /\ <<"fsinfo", j>> \in Units(drv)
      BY UnitsAlwaysHave
    <2>4. ASSUME NEW y PROVE BootUnit(drv, y, j) \in Units(drv)
      <3>1. \/ BootUnit(drv, y, j) = <<"boot", j>>
            \/ BootUnit(drv, y, j) = <<"fsinfo", j>>
            \/ BootUnit(drv, y, j) = Zero
        BY DEF BootUnit
      <3> QED
        BY <2>3, <3>1
    <2> QED
      BY <2>1, <2>2, <2>4
  <1>4. BootUnits(s, w) = [k \in 1..(w * n) |-> BootUnit(drv, s + (k - 1) \div n, (k - 1) % n)]
    BY <1>1 DEF BootUnits
  <1>5. BootUnits(s, w) \in [1..(w * n) -> Units(drv)]
    BY <1>3, <1>4
  <1> QED
    BY <1>1, <1>2, <1>5, Listing

LEMMA PadStep ==
    ASSUME StepInv, ReadPad
    PROVE  StepInv'
  <1>1. /\ drv \in Drives /\ sector \in Nat /\ rem \in Nat /\ rem > 0 /\ pc = "pad"
        /\ drv.mbr_sectors \in Nat /\ drv.sectors \in Nat /\ drv.bps \in Nat
    BY DriveIs DEF StepInv, Types, ReadPad, Region, Counted, Walking
  <1> DEFINE units == Zeros(WantBelow(drv.mbr_sectors) * drv.bps)
  <1>2. ASSUME sector < drv.mbr_sectors
        PROVE  units \in Seq(Units(drv)) /\ Len(units) = WantBelow(drv.mbr_sectors) * drv.bps
    <2>1. WantBelow(drv.mbr_sectors) \in Nat
      BY <1>1, <1>2, WantIs
    <2>2. WantBelow(drv.mbr_sectors) * drv.bps \in Nat
      BY <1>1, <2>1, Distr
    <2> QED
      BY <2>2, ZerosAre
  <1>3. drv.mbr_sectors <= Total
    BY <1>1 DEF Total
  <1>4. Region("pad", drv.mbr_sectors, units, "partition")
    BY DEF ReadPad
  <1> HIDE DEF units
  <1>5. /\ Types' /\ Called' /\ Asked' /\ Counted' /\ InStep'
        /\ pc' = "return" \/ (pc' = "partition" /\ sector' >= drv.mbr_sectors)
    BY <1>1, <1>2, <1>3, <1>4, RegionStep
  <1>6. drv' = drv
    BY DEF ReadPad, Region
  <1> QED
    BY <1>5, <1>6 DEF StepInv, InRegion

LEMMA BootStep ==
    ASSUME StepInv, ReadBoot
    PROVE  StepInv'
  <1>1. /\ drv \in Drives /\ sector \in Nat /\ rem \in Nat /\ rem > 0 /\ pc = "boot"
        /\ drv.mbr_sectors \in Nat /\ drv.sectors \in Nat /\ drv.fat1_start \in Nat
    BY DriveIs DEF StepInv, Types, ReadBoot, Region, Counted, Walking
  <1> DEFINE units == BootUnits(sector, WantBelow(drv.fat1_start))
  <1>2. ASSUME sector < drv.fat1_start
        PROVE  units \in Seq(Units(drv)) /\ Len(units) = WantBelow(drv.fat1_start) * drv.bps
    <2>1. WantBelow(drv.fat1_start) \in Nat
      BY <1>1, <1>2, WantIs
    <2> QED
      BY <1>1, <2>1, BootUnitsAre
  <1>3. drv.fat1_start + drv.mbr_sectors <= Total
    <2>1. drv.fat1_start <= drv.sectors
      <3>1. /\ drv.fat1_start <= drv.fat2_start /\ drv.fat2_start <= drv.root_start
            /\ drv.root_start <= drv.data_start /\ drv.data_start <= drv.data_end /\ drv.data_end < drv.sectors
            /\ {drv.fat1_start, drv.fat2_start, drv.root_start, drv.data_start, drv.data_end, drv.sectors} \subseteq Nat
        BY <1>1, DriveIs
      <3> QED
        BY ONLY <3>1
    <2> QED
      BY <1>1, <2>1 DEF Total
  <1>4. Region("boot", drv.fat1_start, units, "fat1")
    BY DEF ReadBoot
  <1> HIDE DEF units
  <1>5. /\ Types' /\ Called' /\ Asked' /\ Counted' /\ InStep'
        /\ pc' = "return" \/ (pc' = "fat1" /\ sector' >= drv.fat1_start)
    BY <1>1, <1>2, <1>3, <1>4, RegionStep
  <1>6. drv' = drv
    BY DEF ReadBoot, Region
  <1> QED
    BY <1>5, <1>6 DEF StepInv, InRegion

LEMMA RootStep ==
    ASSUME StepInv, ReadRoot
    PROVE  StepInv'
  <1>1. /\ drv \in Drives /\ sector \in Nat /\ rem \in Nat /\ rem > 0 /\ pc = "root"
        /\ drv.mbr_sectors \in Nat /\ drv.sectors \in Nat /\ drv.root_start \in Nat
        /\ drv.data_start \in Nat /\ drv.data_end \in Nat /\ drv.bps \in Nat
        /\ drv.data_start <= drv.data_end /\ drv.data_end < drv.sectors
        /\ FatEnd = drv.root_start /\ sector >= FatEnd
        /\ RootEnd = drv.data_start \/ (RootEnd = 0 /\ drv.root_start = drv.data_start)
    BY DriveIs DEF StepInv, Types, ReadRoot, Region, Counted, Walking, InRegion
  <1> DEFINE s == sector - drv.root_start
             units == read_sector_dir(drv, s, WantBelow(RootEnd), drv.root_dir)
  <1>2. RootEnd \in Nat
    BY <1>1
  <1>3. ASSUME sector < RootEnd
        PROVE  units \in Seq(Units(drv)) /\ Len(units) = WantBelow(RootEnd) * drv.bps
    <2>1. PICK w \in Nat : w = WantBelow(RootEnd) /\ w > 0
      <3>1. \E w \in Nat : w = WantBelow(RootEnd) /\ 0 < w
        BY <1>1, <1>2, <1>3, WantIs
      <3> QED
        BY <3>1
    <2>2. s \in Nat
      BY <1>1
    <2>3. Dir(drv, drv.root_dir)
      BY <1>1, RootIsDir
    <2> HIDE DEF s
    <2>4. /\ read_sector_dir(drv, s, w, drv.root_dir) \in Seq(Units(drv))
          /\ Len(read_sector_dir(drv, s, w, drv.root_dir)) = w * drv.bps
      BY ONLY <2>1, <2>2, <2>3, w \in Nat, DirWindow
    <2> QED
      BY <2>1, <2>4
  <1>4. RootEnd + drv.mbr_sectors <= Total
    BY <1>1 DEF Total
  <1>5. Region("root", RootEnd, units, "data")
    BY DEF ReadRoot
  <1> HIDE DEF units
  <1>6. /\ Types' /\ Called' /\ Asked' /\ Counted' /\ InStep'
        /\ pc' = "return" \/ (pc' = "data" /\ sector' >= RootEnd)
    BY <1>1, <1>2, <1>3, <1>4, <1>5, RegionStep
  <1>7. pc' = "data" => sector' >= drv.data_start
    <2>1. CASE RootEnd = drv.data_start
      BY <1>6, <2>1
    <2>2. CASE RootEnd = 0 /\ drv.root_start = drv.data_start
      <3>1. sector' = sector
        BY <1>1, <2>2, <1>5 DEF Region
      <3> QED
        BY <1>1, <2>2, <3>1
    <2> QED
      BY <1>1, <2>1, <2>2
  <1>8. drv' = drv
    BY DEF ReadRoot, Region
  <1> QED
    BY <1>6, <1>7, <1>8 DEF StepInv, InRegion

LEMMA MbrUnitsAre ==
    ASSUME drv \in Drives
    PROVE  MbrUnits \in Seq(Units(drv)) /\ Len(MbrUnits) = 1 * drv.bps
  <1>1. PICK n \in Nat : n = drv.bps
    BY DriveIs
  <1>2. \A j \in Int : <<"mbr", j>> \in Units(drv)
    BY DEF Units
  <1>3. MbrUnits \in [1..n -> Units(drv)]
    BY <1>1, <1>2 DEF MbrUnits
  <1>4. 1 * n = n
    OBVIOUS
  <1> QED
    BY <1>1, <1>3, <1>4, Listing

LEMMA MbrStep ==
    ASSUME StepInv, ReadMbr
    PROVE  StepInv'
  <1>0. /\ drv \in Drives /\ sector \in Nat /\ rem \in Nat /\ cnt \in Nat /\ want \in Nat /\ soff \in Nat
        /\ out \in Seq(Units(drv)) /\ pc = "mbr" /\ left = 0 /\ rem > 0
        /\ cnt = 0 /\ rem = want /\ sector = soff /\ soff <= Total
    BY DEF StepInv, Types, Counted, Walking, Chains, ReadMbr, InRegion, Dev
  <1>1. drv.mbr_sectors \in Nat /\ drv.sectors \in Nat /\ drv.bps \in Nat
    BY <1>0, DriveIs
  <1>2. Called' /\ Asked'
    BY <1>0 DEF StepInv, Called, Asked, ReadMbr, Left, Total
  <1>3. CASE drv.mbr_sectors = 0 \/ sector # 0
    <2>1. /\ pc' = "pad" /\ UNCHANGED <<out, rem, cnt, sector>>
          /\ UNCHANGED <<drv, req, phase, result, soff, want, fat, left>>
      BY <1>3 DEF ReadMbr
    <2>2. Types'
      BY <1>0, <2>1 DEF StepInv, Types, Bytes, Walking
    <2>3. Counted'
      BY <1>0, <2>1 DEF Counted, Dev, Total, Walking, Chains
    <2>4. InStep'
      BY <1>0, <2>1 DEF StepInv, InStep, Written
    <2>5. InRegion'
      BY <1>0, <1>3, <2>1 DEF InRegion
    <2> QED
      BY <1>2, <2>2, <2>3, <2>4, <2>5 DEF StepInv
  <1>4. CASE ~(drv.mbr_sectors = 0 \/ sector # 0)
    <2>1. /\ out' = out \o MbrUnits /\ rem' = rem - 1 /\ cnt' = 1 /\ sector' = 1
          /\ pc' = (IF rem = 1 THEN "return" ELSE "pad")
          /\ UNCHANGED <<drv, req, phase, result, soff, want, fat, left>>
      BY <1>4 DEF ReadMbr
    <2>2. soff = 0 /\ 1 <= Total
      BY <1>0, <1>1, <1>4 DEF Total
    <2>3. out' \in Seq(Units(drv)) /\ Len(out') = 1 * drv.bps
      <3>1. Written = 0
        BY <1>0 DEF Written
      <3>2. Len(out) = 0 * drv.bps
        BY <1>0, <3>1, LengthIs
      <3>3. out \o MbrUnits \in Seq(Units(drv)) /\ Len(out \o MbrUnits) = (0 + 1) * drv.bps
        <4>1. MbrUnits \in Seq(Units(drv)) /\ Len(MbrUnits) = 1 * drv.bps
          BY <1>0, MbrUnitsAre
        <4>2. drv \in Drives /\ out \in Seq(Units(drv)) /\ 0 \in Nat /\ 1 \in Nat
          BY <1>0
        <4> QED
          BY ONLY <3>2, <4>1, <4>2, MoreSectors
      <3>4. 0 + 1 = 1
        OBVIOUS
      <3> QED
        BY <2>1, <3>3, <3>4
    <2>4. rem' \in Nat /\ cnt' = 1 /\ sector' = 1 /\ (rem # 1 => rem' > 0) /\ cnt' + rem' = want
      BY <1>0, <2>1
    <2>5. Types'
      BY <1>0, <2>1, <2>3, <2>4 DEF StepInv, Types, Bytes, Walking
    <2>6. Counted'
      <3>1. pc' = "pad" => Dev' = soff' + cnt' /\ Dev' <= Total'
        BY <2>1, <2>2 DEF Dev, Total
      <3>2. pc' = "return" => cnt' = want' /\ soff' + cnt' <= Total'
        BY <1>0, <2>1, <2>2 DEF Total
      <3> QED
        BY <1>0, <2>1, <2>4, <3>1, <3>2 DEF Counted, Walking, Chains
    <2>7. InStep'
      <3>1. Written' = 1 /\ left' = 0 /\ drv' = drv
        BY <1>0, <2>1, <2>4 DEF Written
      <3>2. 1 * drv.bps \in Nat
        BY <1>1, Distr
      <3> QED
        BY <2>3, <3>1, <3>2 DEF InStep
    <2>8. InRegion'
      BY <1>0, <2>1 DEF InRegion
    <2> QED
      BY <1>2, <2>5, <2>6, <2>7, <2>8 DEF StepInv
  <1> QED
    BY <1>3, <1>4

LEMMA LeaveMbrStep ==
    ASSUME StepInv, LeaveMbr
    PROVE  StepInv'
  <1>0. /\ drv \in Drives /\ sector \in Nat /\ rem \in Nat /\ cnt \in Nat /\ want \in Nat /\ soff \in Nat
        /\ pc = "partition" /\ left = 0 /\ rem > 0
        /\ cnt + rem = want /\ sector = soff + cnt /\ sector <= Total /\ sector >= drv.mbr_sectors
    BY DEF StepInv, Types, Counted, Walking, Chains, LeaveMbr, InRegion, Dev
  <1>1. drv.mbr_sectors \in Nat
    BY <1>0, DriveIs
  <1>2. /\ pc' = "boot" /\ sector' = sector - drv.mbr_sectors
        /\ UNCHANGED <<drv, req, phase, result, soff, want, rem, cnt, out, fat, left>>
    BY DEF LeaveMbr
  <1>3. sector' \in Nat /\ sector' + drv.mbr_sectors = sector
    BY <1>0, <1>1, <1>2
  <1>4. Called' /\ Asked' /\ Types'
    BY <1>0, <1>2, <1>3 DEF StepInv, Called, Asked, Types, Left, Total, Bytes, Walking
  <1>5. Dev' = sector
    BY <1>2, <1>3 DEF Dev
  <1>6. Counted'
    BY <1>0, <1>2, <1>5 DEF Counted, Walking, Chains, Total
  <1>7. InStep' /\ InRegion'
    BY <1>0, <1>2 DEF StepInv, InStep, InRegion, Written
  <1> QED
    BY <1>4, <1>6, <1>7 DEF StepInv

(* The searches of the readers: the first range that ends behind the       *)
(* position, if the search does not end before.                            *)
LEMMA ScanIs ==
    ASSUME NEW len \in Nat, NEW H \in SUBSET (1..len), NEW c \in Nat, NEW r, r = ScanResult(H, len, c)
    PROVE  \/ r \in H /\ \A j \in H : r <= j
           \/ (\A i \in H : ~(i <= c)) /\ r = IF c > len THEN Wild ELSE Miss
  <1>1. CASE \E i \in H : i <= c
    <2>1. H \in SUBSET Nat /\ H # {}
      BY <1>1
    <2>2. PICK x \in H : \A y \in H : x <= y
      BY <2>1, NatLeast
    <2>3. r = CHOOSE i \in H : \A j \in H : i <= j
      BY <1>1 DEF ScanResult
    <2> QED
      BY <2>2, <2>3
  <1>2. CASE ~\E i \in H : i <= c
    BY <1>2 DEF ScanResult
  <1> QED
    BY <1>1, <1>2

LEMMA FindFat ==
    ASSUME NEW d, Shaped(d), NEW ent \in Nat, NEW r,
           r = find_file_fat_entry(d.ranges, d.file_cnt, d.data_cluster_end, ent)
    PROVE  /\ r \in Int
           /\ \/ r = Miss /\ ent >= d.data_cluster_end
              \/ /\ r \in 1..Len(d.ranges) /\ ent < d.ranges[r].fatend
                 /\ \A j \in 1..Len(d.ranges) : ent < d.ranges[j].fatend => r <= j
                 /\ ent < d.data_cluster_end
              \/ /\ \A j \in 1..Len(d.ranges) : j <= d.file_cnt => ~(ent < d.ranges[j].fatend)
                 /\ ent < d.data_cluster_end
  <1>1. Len(d.ranges) \in Nat /\ d.file_cnt \in Nat /\ d.data_cluster_end \in Nat
    BY LenProperties DEF Shaped
  <1>2. PICK n \in Nat : n = Len(d.ranges)
    BY <1>1
  <1> DEFINE H == {i \in 1..n : ent < d.ranges[i].fatend}
  <1>3. CASE ent >= d.data_cluster_end
    BY <1>3 DEF find_file_fat_entry, Miss
  <1>4. CASE ~(ent >= d.data_cluster_end)
    <2>1. r = ScanResult(H, n, d.file_cnt)
      BY <1>2, <1>4 DEF find_file_fat_entry
    <2>2. ent < d.data_cluster_end
      BY <1>1, <1>4
    <2>3. H \in SUBSET (1..n) /\ \A i \in H : i \in 1..n /\ ent < d.ranges[i].fatend
      OBVIOUS
    <2>6. \A j \in 1..n : ent < d.ranges[j].fatend => j \in H
      OBVIOUS
    <2> HIDE DEF H
    <2>4. \/ r \in H /\ \A j \in H : r <= j
          \/ (\A i \in H : ~(i <= d.file_cnt)) /\ r = IF d.file_cnt > n THEN Wild ELSE Miss
      <3>1. PICK c \in Nat : c = d.file_cnt
        BY <1>1
      <3>2. r = ScanResult(H, n, c)
        BY <2>1, <3>1
      <3>3. \/ r \in H /\ \A j \in H : r <= j
            \/ (\A i \in H : ~(i <= c)) /\ r = IF c > n THEN Wild ELSE Miss
        BY ONLY <2>3, <3>2, n \in Nat, c \in Nat, ScanIs
      <3> QED
        BY <3>1, <3>3
    <2>5. r \in Int
      <3>1. Wild \in Int /\ Miss \in Int
        BY DEF Wild, Miss
      <3>2. r \in 1..n \/ r = Wild \/ r = Miss
        BY <2>3, <2>4
      <3> QED
        BY <3>1, <3>2
    <2> QED
      BY <1>2, <2>2, <2>3, <2>4, <2>5, <2>6
  <1> QED
    BY <1>3, <1>4

LEMMA FatHeadIs ==
    ASSUME NEW d, NEW s \in Nat
    PROVE  /\ FatHead(s) \in Seq(Units(d))
           /\ Len(FatHead(s)) = IF s = 0 THEN 2 ELSE 0
  <1>1. <<"media">> \in Units(d) /\ <<"reserved">> \in Units(d)
    BY UnitsAlwaysHave
  <1> QED
    BY <1>1 DEF FatHead

LEMMA FatStartIs ==
    ASSUME NEW d, Shaped(d), NEW s \in Nat, NEW q, q = IF s = 0 THEN 2 ELSE s * d.bps
    PROVE  /\ FatStart(d, s) \in [ent : Nat, clust : Nat, file : Int]
           /\ q \in Nat /\ FatStart(d, s).ent = q /\ FatStart(d, s).clust = q + 1
           /\ FatStart(d, s).file = find_file_fat_entry(d.ranges, d.file_cnt, d.data_cluster_end, q)
  <1>1. q \in Nat
    <2>1. d.bps \in Nat
      BY DEF Shaped
    <2>2. s * d.bps \in Nat
      BY <2>1, Distr
    <2> QED
      BY <2>2
  <1>2. find_file_fat_entry(d.ranges, d.file_cnt, d.data_cluster_end, q) \in Int
    BY <1>1, FindFat
  <1>3. FatStart(d, s) = [ent |-> q, clust |-> q + 1,
                          file |-> find_file_fat_entry(d.ranges, d.file_cnt, d.data_cluster_end, q)]
    BY DEF FatStart, FirstCluster
  <1> QED
    BY <1>1, <1>2, <1>3

LEMMA EnterFatStep ==
    ASSUME StepInv, NEW r, NEW base, NEW limit \in Nat, NEW loop, NEW next,
           EnterFat(r, base, limit, loop, next),
           \/ r = "fat1" /\ base = drv.fat1_start /\ limit = drv.fat2_start /\ loop = "chain1" /\ next = "fat2"
           \/ r = "fat2" /\ base = drv.fat2_start /\ limit = FatEnd /\ loop = "chain2" /\ next = "root"
    PROVE  StepInv'
  <1>0. /\ drv \in Drives /\ sector \in Nat /\ rem \in Nat /\ cnt \in Nat /\ want \in Nat /\ soff \in Nat
        /\ out \in Seq(Units(drv)) /\ pc = r /\ r \in {"fat1", "fat2"} /\ left = 0 /\ rem > 0
        /\ cnt + rem = want /\ Dev = soff + cnt /\ Dev <= Total /\ sector >= base
        /\ Dev = sector + drv.mbr_sectors
    BY DEF StepInv, Types, Counted, Walking, Chains, EnterFat, InRegion, Dev
  <1>1. /\ drv.mbr_sectors \in Nat /\ drv.sectors \in Nat /\ drv.bps \in Nat /\ drv.bps >= 2
        /\ base \in Nat /\ limit <= drv.sectors /\ Shaped(drv)
        /\ FatEnd = drv.root_start
    <2>1. /\ drv.fat1_start <= drv.fat2_start /\ drv.fat2_start <= drv.root_start
          /\ drv.root_start <= drv.data_start /\ drv.data_start <= drv.data_end /\ drv.data_end < drv.sectors
          /\ {drv.fat1_start, drv.fat2_start, drv.root_start, drv.data_start, drv.data_end, drv.sectors} \subseteq Nat
      BY <1>0, DriveIs
    <2>2. drv.fat2_start <= drv.sectors /\ drv.root_start <= drv.sectors
      BY ONLY <2>1
    <2>3. /\ drv.mbr_sectors \in Nat /\ drv.bps \in Nat /\ drv.bps >= 2 /\ Shaped(drv)
          /\ FatEnd = drv.root_start
      BY <1>0, DriveIs
    <2> QED
      BY <2>1, <2>2, <2>3
  <1>2. Called' /\ Asked'
    BY <1>0 DEF StepInv, Called, Asked, EnterFat, Left, Total
  <1>3. CASE ~(sector < limit)
    <2>1. /\ pc' = next /\ UNCHANGED <<out, fat, left, rem, cnt, sector>>
          /\ UNCHANGED <<drv, req, phase, result, soff, want>>
      BY <1>3 DEF EnterFat
    <2>2. Types'
      BY <1>0, <2>1 DEF StepInv, Types, Bytes, Walking
    <2>3. Counted'
      BY <1>0, <2>1 DEF Counted, Dev, Total, Walking, Chains
    <2>4. InStep'
      BY <1>0, <2>1 DEF StepInv, InStep, Written
    <2>5. InRegion'
      <3>1. sector' >= limit /\ drv' = drv /\ FatEnd' = FatEnd
        BY <1>0, <1>3, <2>1 DEF FatEnd
      <3> QED
        BY <2>1, <3>1 DEF InRegion
    <2> QED
      BY <1>2, <2>2, <2>3, <2>4, <2>5 DEF StepInv
  <1>4. CASE sector < limit
    <2>1. PICK w \in Nat : /\ w = WantBelow(limit) /\ 0 < w /\ w <= rem /\ sector + w <= limit
                           /\ w < rem => sector + w = limit
      BY <1>0, <1>4, WantIs
    <2>2. PICK s \in Nat : s = sector - base
      BY <1>0, <1>1
    <2>3. PICK h \in Nat : h = Len(FatHead(s)) /\ h <= 2
      <3>1. Len(FatHead(s)) = IF s = 0 THEN 2 ELSE 0
        BY FatHeadIs
      <3>2. Len(FatHead(s)) \in Nat /\ Len(FatHead(s)) <= 2
        BY ONLY <3>1
      <3> QED
        BY <3>2
    <2>4. /\ out' = out \o FatHead(s) /\ fat' = FatStart(drv, s)
          /\ left' = w * drv.bps - h /\ rem' = rem - w /\ cnt' = cnt + w /\ sector' = sector + w /\ pc' = loop
          /\ UNCHANGED <<drv, req, phase, result, soff, want>>
      BY <1>4, <2>1, <2>2, <2>3 DEF EnterFat
    <2>5. PICK n \in Nat : n = drv.bps /\ n >= 2
      BY <1>1
    <2>6. PICK x \in Nat : x = w * n /\ x >= n
      BY <2>1, Rows
    <2>7. left' \in Nat /\ left' = x - h
      <3>1. left' = x - h
        BY <2>4, <2>5, <2>6
      <3>2. x - h \in Nat
        <4>1. x >= 2
          BY <2>5, <2>6
        <4>2. h <= 2
          BY <2>3
        <4> QED
          BY ONLY <4>1, <4>2, x \in Nat, h \in Nat
      <3> QED
        BY <3>1, <3>2
    <2>8. rem' = rem - w /\ cnt' = cnt + w /\ sector' = sector + w
      BY <2>4
    <2>9. /\ sector \in Nat /\ rem \in Nat /\ cnt \in Nat /\ want \in Nat /\ soff \in Nat
          /\ cnt + rem = want
      BY <1>0
    <2>10. rem' \in Nat /\ cnt' \in Nat /\ sector' \in Nat /\ cnt' + rem' = want
      BY ONLY <2>1, <2>8, <2>9, w \in Nat
    <2>11. out' \in Seq(Units(drv)) /\ Len(out') = Len(out) + h
      <3>1. FatHead(s) \in Seq(Units(drv))
        BY FatHeadIs
      <3>2. out \in Seq(Units(drv))
        BY <1>0
      <3>3. out \o FatHead(s) \in Seq(Units(drv)) /\ Len(out \o FatHead(s)) = Len(out) + Len(FatHead(s))
        BY ONLY <3>1, <3>2, JoinedList
      <3> QED
        BY <2>3, <2>4, <3>3
    <2>12. fat' \in [ent : Nat, clust : Nat, file : Int]
      BY <1>1, <2>4, FatStartIs
    <2>13. Types'
      BY <1>0, <2>4, <2>7, <2>10, <2>11, <2>12 DEF StepInv, Types, Bytes, Chains
    <2>14. Dev' = soff + cnt' /\ Dev' <= Total
      <3>1. PICK m \in Nat, e \in Nat : m = drv.mbr_sectors /\ e = drv.sectors
        BY <1>1
      <3>2. Dev' = (sector + w) + m /\ sector + m = soff + cnt /\ cnt' = cnt + w /\ sector + w <= limit /\ limit <= e
        <4>1. pc' \in Chains
          BY <2>4 DEF Chains
        <4>2. Dev' = sector' + drv'.mbr_sectors
          BY <4>1 DEF Dev, Chains
        <4> QED
          BY <1>0, <1>1, <2>1, <2>4, <3>1, <4>2
      <3>3. Dev' = soff + cnt' /\ Dev' <= e + m
        BY ONLY <2>9, <3>2, w \in Nat, m \in Nat, e \in Nat, limit \in Nat
      <3> QED
        BY <3>1, <3>3 DEF Total
    <2>15. Counted'
      BY <1>0, <2>4, <2>10, <2>14 DEF Counted, Walking, Chains, Total
    <2>16. InStep'
      <3>1. Written' = cnt' /\ drv' = drv
        <4>1. pc' # "files"
          BY <2>4
        <4> QED
          BY <2>4, <2>10, <4>1 DEF Written
      <3>2. PICK y \in Nat : y = cnt * n /\ Len(out) = y
        <4>1. Written = cnt
          BY <1>0 DEF Written
        <4>2. Len(out) = cnt * n
          BY <1>0, <2>5, <4>1, LengthIs
        <4>3. cnt * n \in Nat
          BY <1>0, Distr
        <4> QED
          BY <4>2, <4>3
      <3>3. cnt' * n = y + x
        BY <1>0, <2>4, <2>6, <3>2, Distr
      <3>4. Len(out') = cnt' * n - left'
        BY <2>7, <2>11, <3>2, <3>3
      <3> QED
        BY <2>5, <3>1, <3>4 DEF InStep
    <2>17. InRegion'
      <3>1. sector' >= base /\ (rem' > 0 => sector' >= limit)
        <4>1. base \in Nat /\ sector >= base
          BY <1>0, <1>1
        <4> QED
          BY ONLY <2>1, <2>8, <2>9, <4>1, w \in Nat, limit \in Nat
      <3>2. drv' = drv /\ FatEnd' = FatEnd
        BY <2>4 DEF FatEnd
      <3> QED
        BY <2>4, <3>1, <3>2 DEF InRegion
    <2> QED
      BY <1>2, <2>13, <2>15, <2>16, <2>17 DEF StepInv
  <1> QED
    BY <1>3, <1>4

LEMMA FatNextIs ==
    ASSUME NEW d, Shaped(d), NEW f \in [ent : Nat, clust : Nat, file : Int]
    PROVE  /\ FatUnit(d, f) \in Units(d)
           /\ FatNext(d, f) \in [ent : Nat, clust : Nat, file : Int]
  <1>1. f.clust \in Int
    OBVIOUS
  <1>2. /\ EndMark \in Units(d) /\ Zero \in Units(d) /\ Garbage \in Units(d)
        /\ Link(f.clust) \in Units(d)
    BY <1>1, UnitsAlwaysHave
  <1>3. fat_next_file(d.ranges, d.file_cnt, f.file) \in Int
    BY DEF fat_next_file, Miss, Wild
  <1>4. FatUnit(d, f) \in Units(d)
    BY <1>2, Zenon DEF FatUnit
  <1>5. FatNext(d, f) \in [ent : Nat, clust : Nat, file : Int]
    <2>1. CASE ~InChain(d, f)
      BY <2>1 DEF FatNext
    <2>2. CASE InChain(d, f) /\ AtChainEnd(d, f)
      <3>1. FatNext(d, f) = [ent |-> f.ent + 1, clust |-> f.ent + 2,
                             file |-> fat_next_file(d.ranges, d.file_cnt, f.file)]
        BY <2>2, Zenon DEF FatNext
      <3> QED
        BY <1>3, <3>1
    <2>3. CASE InChain(d, f) /\ ~AtChainEnd(d, f)
      <3>1. FatNext(d, f) = [f EXCEPT !.ent = @ + 1, !.clust = @ + 1]
        BY <2>3, Zenon DEF FatNext
      <3>2. f.ent + 1 \in Nat /\ f.clust + 1 \in Nat /\ f.file \in Int
        OBVIOUS
      <3>3. f \in [ent : Nat, clust : Nat, file : Int]
        OBVIOUS
      <3>4. [f EXCEPT !.ent = f.ent + 1, !.clust = f.clust + 1] \in [ent : Nat, clust : Nat, file : Int]
        BY ONLY <3>2, <3>3
      <3> QED
        BY <3>1, <3>4
    <2> QED
      BY <2>1, <2>2, <2>3
  <1> QED
    BY <1>4, <1>5

LEMMA FatTurnStep ==
    ASSUME StepInv, FatTurn
    PROVE  StepInv'
  <1>0. /\ drv \in Drives /\ out \in Seq(Units(drv)) /\ left \in Nat /\ left > 0 /\ pc \in Chains
        /\ fat \in [ent : Nat, clust : Nat, file : Int] /\ rem \in Nat /\ cnt \in Nat
    BY DEF StepInv, Types, FatTurn, Chains
  <1>1. /\ out' = Append(out, FatUnit(drv, fat)) /\ fat' = FatNext(drv, fat) /\ left' = left - 1
        /\ UNCHANGED <<drv, req, phase, result, soff, pc, want, sector, rem, cnt>>
    BY DEF FatTurn
  <1>2. /\ FatUnit(drv, fat) \in Units(drv)
        /\ fat' \in [ent : Nat, clust : Nat, file : Int]
    BY <1>0, <1>1, DriveIs, FatNextIs
  <1>3. out' \in Seq(Units(drv)) /\ Len(out') = Len(out) + 1
    BY <1>0, <1>1, <1>2, AppendProperties
  <1>4. Called' /\ Asked'
    BY <1>1 DEF StepInv, Called, Asked, Left, Total
  <1>5. left' \in Nat
    BY <1>0, <1>1
  <1>6. Types'
    BY <1>1, <1>2, <1>3, <1>5 DEF StepInv, Types, Bytes
  <1>7. Counted'
    BY <1>0, <1>1 DEF StepInv, Counted, Dev, Total, Walking, Chains
  <1>8. InStep'
    <2>1. Written' = Written /\ Written = cnt
      BY <1>0, <1>1 DEF Written, Chains
    <2>2. Len(out) = cnt * drv.bps - left
      BY <1>0, <2>1 DEF StepInv, InStep, Chains
    <2>3. PICK y \in Nat : y = cnt * drv.bps
      <3>1. PICK c \in Nat, n \in Nat : c = cnt /\ n = drv.bps
        BY <1>0, DriveIs
      <3>2. c * n \in Nat
        OBVIOUS
      <3> QED
        BY <3>1, <3>2
    <2>4. Len(out') = y - left'
      BY <1>0, <1>1, <1>3, <2>2, <2>3
    <2>5. Written' * drv'.bps = y
      BY <1>1, <2>1, <2>3
    <2> QED
      BY <2>4, <2>5 DEF InStep
  <1>9. InRegion'
    BY <1>1 DEF StepInv, InRegion, FatEnd
  <1> QED
    BY <1>4, <1>6, <1>7, <1>8, <1>9 DEF StepInv

LEMMA LeaveFatStep ==
    ASSUME StepInv, LeaveFat
    PROVE  StepInv'
  <1>0. /\ drv \in Drives /\ rem \in Nat /\ cnt \in Nat /\ want \in Nat /\ soff \in Nat
        /\ left = 0 /\ pc \in Chains /\ sector \in Nat
        /\ cnt + rem = want /\ Dev = soff + cnt /\ Dev <= Total /\ Dev = sector + drv.mbr_sectors
    BY DEF StepInv, Types, Counted, LeaveFat, Chains, Dev
  <1>1. /\ pc' = (IF rem = 0 THEN "return" ELSE IF pc = "chain1" THEN "fat2" ELSE "root")
        /\ UNCHANGED <<drv, req, phase, result, soff, want, sector, rem, cnt, out, fat, left>>
    BY DEF LeaveFat
  <1>2. Called' /\ Asked'
    BY <1>0, <1>1 DEF StepInv, Called, Asked, Left, Total, Chains
  <1>3. Types'
    BY <1>1 DEF StepInv, Types, Bytes, Walking
  <1>4. Counted'
    <2>1. CASE rem = 0
      <3>1. pc' = "return" /\ cnt = want /\ soff + cnt <= Total
        BY <1>0, <1>1, <2>1
      <3> QED
        BY <1>0, <1>1, <3>1 DEF Counted, Walking, Chains, Total
    <2>2. CASE rem # 0
      <3>1. rem > 0 /\ pc' \in {"fat2", "root"}
        BY <1>0, <1>1, <2>2
      <3>2. Dev' = Dev
        BY <1>0, <1>1, <3>1 DEF Dev, Chains
      <3> QED
        BY <1>0, <1>1, <3>1, <3>2 DEF Counted, Walking, Chains, Total
    <2> QED
      BY <2>1, <2>2
  <1>5. InStep'
    <2>1. Written' = Written
      BY <1>0, <1>1 DEF Written, Chains
    <2> QED
      BY <1>0, <1>1, <2>1 DEF StepInv, InStep, Chains
  <1>6. InRegion'
    <2>1. CASE rem = 0
      BY <1>1, <2>1 DEF InRegion
    <2>2. CASE rem # 0
      <3>1. rem > 0
        BY <1>0, <2>2
      <3> QED
        BY <1>0, <1>1, <3>1 DEF StepInv, InRegion, FatEnd, Chains
    <2> QED
      BY <2>1, <2>2
  <1> QED
    BY <1>2, <1>3, <1>4, <1>5, <1>6 DEF StepInv

-----------------------------------------------------------------------------
(* read_sector_data().  A range and its file.                              *)
LEMMA RangeIs ==
    ASSUME NEW d, Shaped(d), Tiled(d), Numbered(d), NEW i \in 1..Len(d.ranges), NEW h, h = d.ranges[i].file
    PROVE  /\ h \in DOMAIN d.file
           /\ d.ranges[i].sectstart \in Nat /\ d.ranges[i].sectend \in Nat
           /\ d.ranges[i].fatstart \in Nat /\ d.ranges[i].fatend \in Nat
           /\ d.file[h].startsect = d.ranges[i].sectstart /\ d.file[h].endsect = d.ranges[i].sectend
           /\ d.ranges[i].sectstart <= d.ranges[i].sectend
           /\ FilesFit(d) /\ d.file[h].kind # "dir" =>
                 d.file[h].size <= (d.ranges[i].sectend - d.ranges[i].sectstart) * d.bps
           /\ d.file[h].kind = "dir" => Dir(d, h)
  <1>1. d.ranges \in Seq([file : DOMAIN d.file, sectstart : Nat, sectend : Nat,
                          fatstart : Nat, fatend : Nat])
    BY DEF Shaped
  <1>2. d.ranges[i] \in [file : DOMAIN d.file, sectstart : Nat, sectend : Nat,
                         fatstart : Nat, fatend : Nat]
    BY <1>1, ElementOfSeq
  <1>3. /\ d.file[h].startsect = d.ranges[i].sectstart /\ d.file[h].endsect = d.ranges[i].sectend
        /\ d.file[h].startsect <= d.file[h].endsect
    BY DEF Tiled
  <1>4. FilesFit(d) /\ d.file[h].kind # "dir" =>
            d.file[h].size <= (d.file[h].endsect - d.file[h].startsect) * d.bps
    BY DEF FilesFit
  <1> QED
    BY <1>2, <1>3, <1>4 DEF Dir

LEMMA FindSector ==
    ASSUME NEW d, Shaped(d), NEW s \in Nat, NEW r,
           r = find_file_sector(d.ranges, d.file_cnt, d.data_end, s)
    PROVE  \/ r = Miss /\ s >= d.data_end
           \/ /\ r \in 1..Len(d.ranges) /\ s < d.ranges[r].sectend
              /\ \A j \in 1..Len(d.ranges) : s < d.ranges[j].sectend => r <= j
              /\ s < d.data_end
           \/ /\ \A j \in 1..Len(d.ranges) : j <= d.file_cnt => ~(s < d.ranges[j].sectend)
              /\ s < d.data_end
              /\ r = IF d.file_cnt > Len(d.ranges) THEN Wild ELSE Miss
  <1>1. Len(d.ranges) \in Nat /\ d.file_cnt \in Nat /\ d.data_end \in Nat
    BY LenProperties DEF Shaped
  <1>2. PICK n \in Nat : n = Len(d.ranges)
    BY <1>1
  <1> DEFINE H == {i \in 1..n : s < d.ranges[i].sectend}
  <1>3. CASE s >= d.data_end
    BY <1>3 DEF find_file_sector
  <1>4. CASE ~(s >= d.data_end)
    <2>1. PICK c \in Nat : c = d.file_cnt
      BY <1>1
    <2>2. r = ScanResult(H, n, c)
      BY <1>2, <1>4, <2>1 DEF find_file_sector
    <2>3. s < d.data_end
      BY <1>1, <1>4
    <2>4. H \in SUBSET (1..n) /\ \A i \in H : i \in 1..n /\ s < d.ranges[i].sectend
      OBVIOUS
    <2>5. \A j \in 1..n : s < d.ranges[j].sectend => j \in H
      OBVIOUS
    <2> HIDE DEF H
    <2>6. \/ r \in H /\ \A j \in H : r <= j
          \/ (\A i \in H : ~(i <= c)) /\ r = IF c > n THEN Wild ELSE Miss
      BY ONLY <2>2, <2>4, n \in Nat, c \in Nat, ScanIs
    <2> QED
      BY <1>2, <2>1, <2>3, <2>4, <2>5, <2>6
  <1> QED
    BY <1>3, <1>4

LEMMA FoundIn ==
    ASSUME NEW d, Shaped(d), Tiled(d), Numbered(d), NEW s \in Nat, s >= d.data_start, NEW r,
           r = find_file_sector(d.ranges, d.file_cnt, d.data_end, s), r \in DOMAIN d.ranges
    PROVE  r \in 1..Len(d.ranges) /\ d.ranges[r].sectstart <= s /\ s < d.ranges[r].sectend
  <1>1. PICK n \in Nat : n = Len(d.ranges) /\ DOMAIN d.ranges = 1..n
    BY LenProperties DEF Shaped
  <1>2. r \in 1..n /\ r # Miss /\ r # Wild
    BY <1>1 DEF Miss, Wild
  <1>3. s < d.ranges[r].sectend /\ \A j \in 1..n : s < d.ranges[j].sectend => r <= j
    BY <1>1, <1>2, FindSector
  <1>4. CASE r = 1
    <2>1. d.ranges[1].sectstart = d.data_start
      BY <1>1, <1>2 DEF Tiled
    <2> QED
      BY <1>1, <1>2, <1>3, <1>4, <2>1
  <1>5. CASE r # 1
    <2>1. PICK j \in 1..(n - 1) : r = j + 1
      <3>1. r - 1 \in 1..(n - 1) /\ r = (r - 1) + 1
        BY <1>2, <1>5
      <3> QED
        BY <3>1
    <2>2. d.ranges[j].sectend = d.ranges[j + 1].sectstart
      BY <1>1 DEF Tiled
    <2>3. j \in 1..n /\ ~(r <= j)
      BY <2>1
    <2>4. ~(s < d.ranges[j].sectend) /\ d.ranges[j].sectend \in Nat
      BY <1>1, <1>3, <2>3, RangeIs
    <2> QED
      BY <1>1, <1>2, <1>3, <2>1, <2>2, <2>4
  <1> QED
    BY <1>4, <1>5

(* What is read of a file, or of a directory in its clusters.              *)
TurnOf(h, s, a, e, n, w, o) ==
    /\ drv \in Drives /\ h \in DOMAIN drv.file /\ s \in Nat /\ rem \in Nat /\ rem > 0
    /\ a \in Nat /\ a = drv.file[h].startsect /\ e \in Nat /\ e = drv.file[h].endsect
    /\ a <= s /\ s < e /\ n \in Nat /\ n = drv.bps
    /\ drv.file[h].kind # "dir" => drv.file[h].size <= (e - a) * n
    /\ drv.file[h].kind = "dir" => Dir(drv, h)
    /\ w = Min2(e - s, rem) /\ o = (s - a) * n

LEMMA DataUnitsAre ==
    ASSUME NEW h, NEW s, NEW a, NEW e, NEW n, NEW w, NEW o, TurnOf(h, s, a, e, n, w, o)
    PROVE  /\ w \in Nat /\ o \in Nat
           /\ DataUnits(h, s, w) \in Seq(Units(drv))
           /\ Len(DataUnits(h, s, w)) = w * n
           /\ \A k \in 1..(w * n) :
                 DataUnits(h, s, w)[k] =
                   IF drv.file[h].kind = "dir" THEN UnitAt(DirUnits(drv, h), o + k - 1)
                   ELSE IF o + k - 1 < Min2(drv.file[h].size, drv.file[h].disk)
                        THEN <<"data", h, o + k - 1>> ELSE Zero
  <1>0. /\ drv \in Drives /\ h \in DOMAIN drv.file /\ s \in Nat /\ rem \in Nat /\ rem > 0
        /\ a \in Nat /\ e \in Nat /\ a = drv.file[h].startsect /\ e = drv.file[h].endsect
        /\ a <= s /\ s < e /\ n \in Nat /\ n = drv.bps
        /\ drv.file[h].kind # "dir" => drv.file[h].size <= (e - a) * n
        /\ drv.file[h].kind = "dir" => Dir(drv, h)
        /\ w = Min2(e - s, rem) /\ o = (s - a) * n
    BY DEF TurnOf
  <1> USE <1>0
  <1>1. PICK p \in Nat : p = rem
    OBVIOUS
  <1>2. w \in Nat /\ w > 0 /\ w <= p /\ (w = p \/ w = e - s) /\ s - a \in Nat
    BY <1>1 DEF Min2
  <1>3. PICK x \in Nat : x = w * n
    BY <1>2, Distr
  <1>4. PICK y \in Nat : y = p * n
    BY Distr
  <1>5. o \in Nat
    BY <1>2, Distr
  <1>6. PICK sz \in Nat, dk \in Nat : sz = drv.file[h].size /\ dk = drv.file[h].disk
    BY DriveIs, FileFields
  <1>7. x <= y /\ (drv.file[h].kind # "dir" => x = y \/ sz - o <= x)
    <2>1. x <= y
      BY <1>2, <1>3, <1>4, Distr
    <2>2. ASSUME w = e - s, drv.file[h].kind # "dir" PROVE sz - o <= x
      <3>1. (e - a) * n = (e - s) * n + (s - a) * n
        <4>1. e - a = (e - s) + (s - a) /\ e - s \in Int /\ s - a \in Int
          BY ONLY e \in Nat, s \in Nat, a \in Nat
        <4>2. ((e - s) + (s - a)) * n = (e - s) * n + (s - a) * n
          BY <4>1, Distr
        <4> QED
          BY <4>1, <4>2
      <3>2. (e - a) * n = x + o
        BY <1>3, <2>2, <3>1
      <3>3. sz <= x + o
        BY <1>6, <2>2, <3>2
      <3> QED
        BY ONLY <3>3, <1>5, x \in Nat, sz \in Nat
    <2>3. w = p => x = y
      BY <1>3, <1>4
    <2> QED
      BY <1>2, <2>1, <2>2, <2>3
  <1>8. CASE drv.file[h].kind = "dir"
    <2>1. DataUnits(h, s, w) = read_sector_dir(drv, s - a, w, h)
      BY <1>8 DEF DataUnits
    <2>2. PICK t \in Nat : t = s - a
      BY <1>2
    <2>3. Dir(drv, h) /\ w \in Nat /\ w > 0 /\ o = t * drv.bps /\ x = w * drv.bps
      BY <1>2, <1>3, <1>8, <2>2
    <2>4. /\ read_sector_dir(drv, t, w, h) \in Seq(Units(drv))
          /\ Len(read_sector_dir(drv, t, w, h)) = x
          /\ \A k \in 1..x : read_sector_dir(drv, t, w, h)[k] = UnitAt(DirUnits(drv, h), o + k - 1)
      BY ONLY <2>3, t \in Nat, DirWindow
    <2>5. \A k \in 1..x : DataUnits(h, s, w)[k] = UnitAt(DirUnits(drv, h), o + k - 1)
      BY <2>1, <2>2, <2>4
    <2> QED
      BY <1>2, <1>3, <1>5, <1>8, <2>1, <2>2, <2>4, <2>5
  <1>9. CASE drv.file[h].kind # "dir" /\ o >= sz
    <2>1. DataUnits(h, s, w) = Zeros(x)
      BY <1>3, <1>6, <1>9 DEF DataUnits
    <2>2. Zeros(x) \in Seq(Units(drv)) /\ Len(Zeros(x)) = x /\ \A k \in 1..x : Zeros(x)[k] = Zero
      BY ZerosAre
    <2>3. \A k \in 1..x : ~(o + k - 1 < Min2(sz, dk))
      BY <1>5, <1>9 DEF Min2
    <2> QED
      BY <1>2, <1>3, <1>5, <1>6, <1>9, <2>1, <2>2, <2>3
  <1>10. CASE drv.file[h].kind # "dir" /\ ~(o >= sz)
    <2>1. PICK g \in Nat : g = Min2(Min2(sz - o, y), IF dk > o THEN dk - o ELSE 0)
      <3>1. Min2(Min2(sz - o, y), IF dk > o THEN dk - o ELSE 0) \in Nat
        BY <1>5, <1>10 DEF Min2
      <3> QED
        BY <3>1
    <2>2. /\ g <= x
          /\ \A k \in 1..x : k <= g <=> o + k - 1 < Min2(sz, dk)
      BY ONLY <1>5, <1>7, <1>10, <2>1, x \in Nat, y \in Nat, sz \in Nat, dk \in Nat, g \in Nat DEF Min2
    <2> DEFINE got == [k \in 1..g |-> <<"data", h, o + k - 1>>]
    <2>3. got \in Seq(Units(drv)) /\ Len(got) = g /\ \A k \in 1..g : got[k] = <<"data", h, o + k - 1>>
      <3>1. \A m \in Int : <<"data", h, m>> \in Units(drv)
        BY UnitsHave
      <3>2. \A k \in 1..g : o + k - 1 \in Int
        BY <1>5
      <3>3. got \in [1..g -> Units(drv)]
        BY <3>1, <3>2
      <3> QED
        BY <3>3, Listing
    <2>4. FileUnits(h, o, Min2(sz - o, y)) = got
      BY <1>6, <2>1 DEF FileUnits
    <2> HIDE DEF got
    <2>5. PICK z \in Nat : z = x - g /\ z = IF x - Len(got) > 0 THEN x - Len(got) ELSE 0
      <3>1. x - g \in Nat /\ x - g = IF x - g > 0 THEN x - g ELSE 0
        BY <2>2
      <3> QED
        BY <2>3, <3>1
    <2>6. DataUnits(h, s, w) = got \o Zeros(z)
      <3>1. ~(o >= drv.file[h].size)
        BY <1>6, <1>10
      <3>2. DataUnits(h, s, w) = got \o Zeros(IF x - Len(got) > 0 THEN x - Len(got) ELSE 0)
        <4> DEFINE o2 == (s - drv.file[h].startsect) * drv.bps
                   got2 == FileUnits(h, o2, Min2(drv.file[h].size - o2, rem * drv.bps))
        <4>1. o2 = o /\ drv.file[h].size = sz /\ rem * drv.bps = y /\ w * drv.bps = x
          BY <1>1, <1>3, <1>4, <1>6
        <4>2. DataUnits(h, s, w) =
                IF drv.file[h].kind = "dir" THEN read_sector_dir(drv, s - drv.file[h].startsect, w, h)
                ELSE IF o2 >= drv.file[h].size THEN Zeros(w * drv.bps)
                     ELSE got2 \o Zeros(IF w * drv.bps - Len(got2) > 0 THEN w * drv.bps - Len(got2) ELSE 0)
          BY DEF DataUnits
        <4>3. got2 = got
          <5> HIDE DEF o2
          <5> QED
            BY <2>4, <4>1, Zenon
        <4> HIDE DEF o2, got2
        <4>4. ~(drv.file[h].kind = "dir") /\ ~(o2 >= drv.file[h].size)
          BY <1>10, <3>1, <4>1, Zenon
        <4> QED
          BY <4>1, <4>2, <4>3, <4>4, Zenon
      <3> QED
        BY <2>5, <3>2, Zenon
    <2>7. Zeros(z) \in Seq(Units(drv)) /\ Len(Zeros(z)) = z /\ \A k \in 1..z : Zeros(z)[k] = Zero
      BY ZerosAre
    <2>8. /\ got \o Zeros(z) \in Seq(Units(drv))
          /\ Len(got \o Zeros(z)) = Len(got) + Len(Zeros(z))
          /\ \A k \in 1..Len(got) : (got \o Zeros(z))[k] = got[k]
          /\ \A k \in 1..Len(Zeros(z)) : (got \o Zeros(z))[Len(got) + k] = Zeros(z)[k]
      <3>1. got \in Seq(Units(drv))
        BY <2>3
      <3>2. Zeros(z) \in Seq(Units(drv))
        BY <2>7
      <3> QED
        BY ONLY <3>1, <3>2, JoinedList
    <2>9. Len(got \o Zeros(z)) = x
      <3>1. Len(got \o Zeros(z)) = g + z
        BY <2>3, <2>7, <2>8
      <3> QED
        BY ONLY <2>5, <3>1, x \in Nat, g \in Nat
    <2>10. ASSUME NEW k \in 1..x
           PROVE  (got \o Zeros(z))[k] = IF o + k - 1 < Min2(sz, dk) THEN <<"data", h, o + k - 1>> ELSE Zero
      <3>1. CASE k <= g
        <4>1. k \in 1..g
          BY <3>1
        <4>2. (got \o Zeros(z))[k] = <<"data", h, o + k - 1>>
          BY <2>3, <2>8, <4>1
        <4>3. o + k - 1 < Min2(sz, dk)
          BY <2>2, <3>1
        <4> QED
          BY <4>2, <4>3
      <3>2. CASE ~(k <= g)
        <4>1. PICK j \in 1..z : k = g + j
          <5>1. k - g \in 1..z /\ k = g + (k - g)
            BY <2>5, <3>2
          <5> QED
            BY <5>1
        <4>2. (got \o Zeros(z))[k] = Zero
          BY <2>3, <2>7, <2>8, <4>1
        <4>3. ~(o + k - 1 < Min2(sz, dk))
          BY <2>2, <3>2
        <4> QED
          BY <4>2, <4>3
      <3> QED
        BY <3>1, <3>2
    <2> QED
      BY <1>2, <1>3, <1>5, <1>6, <1>10, <2>6, <2>8, <2>9, <2>10
  <1> QED
    BY <1>5, <1>8, <1>9, <1>10

LEMMA EnterDataStep ==
    ASSUME StepInv, EnterData
    PROVE  StepInv'
  <1>0. /\ drv \in Drives /\ sector \in Nat /\ rem \in Nat /\ cnt \in Nat /\ want \in Nat /\ soff \in Nat
        /\ pc = "data" /\ left = 0 /\ rem > 0
        /\ cnt + rem = want /\ Dev = soff + cnt /\ Dev <= Total /\ Dev = sector + drv.mbr_sectors
        /\ sector >= drv.data_start
    BY DEF StepInv, Types, Counted, Walking, Chains, EnterData, InRegion, Dev
  <1>1. PICK m \in Nat, e \in Nat : m = drv.mbr_sectors /\ e = drv.sectors
    BY <1>0, DriveIs
  <1>2. sector + m = soff + cnt /\ sector + m <= e + m
    BY <1>0, <1>1 DEF Total
  <1>3. /\ sector \in Nat /\ rem \in Nat /\ cnt \in Nat /\ want \in Nat /\ soff \in Nat /\ cnt + rem = want
    BY <1>0
  <1>4. PICK w \in Nat : w = WantBelow(e) /\ w <= rem /\ sector + w <= e /\ (w < rem => sector + w = e)
    <2>1. /\ WantBelow(e) \in Nat /\ WantBelow(e) <= rem /\ sector + WantBelow(e) <= e
          /\ WantBelow(e) < rem => sector + WantBelow(e) = e
      BY ONLY <1>2, <1>3, m \in Nat, e \in Nat DEF WantBelow
    <2> QED
      BY <2>1
  <1>5. /\ rem' = w /\ cnt' = cnt + w /\ pc' = "files"
        /\ UNCHANGED <<drv, req, phase, result, soff, want, sector, out, fat, left>>
    BY <1>1, <1>4 DEF EnterData
  <1>6. Called' /\ Asked'
    BY <1>0, <1>5 DEF StepInv, Called, Asked, Left, Total
  <1>7. cnt' \in Nat /\ rem' \in Nat /\ rem' <= cnt'
    BY ONLY <1>3, <1>5, w \in Nat
  <1>8. Types'
    BY <1>5, <1>7 DEF StepInv, Types, Bytes
  <1>9. Counted'
    <2>1. cnt' = cnt + w /\ rem' = w
      BY <1>5
    <2>2. /\ cnt' <= want /\ soff + cnt' <= e + m /\ (cnt' < want => soff + cnt' = e + m)
          /\ (sector + m) + rem' = soff + cnt'
      <3>1. w <= rem /\ sector + w <= e /\ (w < rem => sector + w = e)
        BY <1>4
      <3>2. /\ cnt + w <= want /\ soff + (cnt + w) <= e + m /\ (cnt + w < want => soff + (cnt + w) = e + m)
            /\ (sector + m) + w = soff + (cnt + w)
        BY ONLY <1>2, <1>3, <3>1, w \in Nat, m \in Nat, e \in Nat
      <3> QED
        BY ONLY <2>1, <3>2
    <2>3. Dev' = sector + m /\ Total' = e + m
      BY <1>1, <1>5 DEF Dev, Total
    <2> QED
      BY <1>0, <1>5, <1>7, <2>2, <2>3 DEF Counted, Walking, Chains
  <1>10. InStep'
    <2>1. Written' = cnt /\ Written = cnt
      <3>1. cnt' - rem' = cnt
        BY ONLY <1>3, <1>5, w \in Nat
      <3> QED
        BY <1>0, <1>5, <3>1 DEF Written
    <2> QED
      BY <1>0, <1>5, <2>1 DEF StepInv, InStep
  <1>11. InRegion'
    BY <1>0, <1>5 DEF InRegion
  <1> QED
    BY <1>6, <1>8, <1>9, <1>10, <1>11 DEF StepInv

LEMMA LeaveDataStep ==
    ASSUME StepInv, LeaveData
    PROVE  StepInv'
  <1>0. pc = "files" /\ rem = 0 /\ left = 0 /\ cnt \in Nat
    BY DEF StepInv, Types, Counted, Chains, LeaveData
  <1>1. /\ pc' = "return"
        /\ UNCHANGED <<drv, req, phase, result, soff, want, sector, rem, cnt, out, fat, left>>
    BY DEF LeaveData
  <1>2. Called' /\ Asked'
    BY <1>0, <1>1 DEF StepInv, Called, Asked, Left, Total
  <1>3. Types'
    BY <1>1 DEF StepInv, Types, Bytes
  <1>4. Counted'
    BY <1>0, <1>1 DEF StepInv, Counted, Walking, Chains, Total
  <1>5. InStep'
    <2>1. Written' = Written
      BY <1>0, <1>1 DEF Written
    <2> QED
      BY <1>0, <1>1, <2>1 DEF StepInv, InStep
  <1>6. InRegion'
    BY <1>1 DEF InRegion
  <1> QED
    BY <1>2, <1>3, <1>4, <1>5, <1>6 DEF StepInv

(* One turn of the loop over the files: w sectors are read.                *)
LEMMA FilesStep ==
    ASSUME StepInv, pc = "files", rem > 0, NEW w \in Nat, w <= rem,
           NEW units \in Seq(Units(drv)), Len(units) = w * drv.bps,
           out' = out \o units, rem' = rem - w, sector' \in Nat, sector' >= sector,
           rem' > 0 => sector' = sector + w,
           UNCHANGED <<drv, req, phase, result, soff, pc, want, cnt, fat, left>>
    PROVE  StepInv'
  <1>0. /\ drv \in Drives /\ left = 0 /\ rem <= cnt /\ Dev + rem = soff + cnt /\ Dev = sector + drv.mbr_sectors
        /\ out \in Seq(Units(drv)) /\ sector >= drv.data_start /\ drv.data_start \in Nat
    BY DriveIs DEF StepInv, Types, Counted, Chains, Dev, InRegion
  <1>1. /\ sector \in Nat /\ rem \in Nat /\ cnt \in Nat /\ want \in Nat /\ soff \in Nat
    BY DEF StepInv, Types
  <1>2. rem' = rem - w /\ w <= rem /\ (rem' > 0 => sector' = sector + w)
    OBVIOUS
  <1>3. rem' \in Nat /\ rem' <= rem
    BY ONLY <1>1, <1>2, w \in Nat
  <1>4. Called' /\ Asked'
    BY DEF StepInv, Called, Asked, Left, Total
  <1>5. PICK c \in Nat : c = cnt - rem /\ c + w = cnt - rem'
    <2>1. rem <= cnt
      BY <1>0
    <2>2. cnt - rem \in Nat /\ (cnt - rem) + w = cnt - rem'
      BY ONLY <1>1, <1>2, <2>1, w \in Nat
    <2> QED
      BY <2>2
  <1>6. Len(out) = c * drv.bps
    <2>1. Written = c
      BY <1>5 DEF Written
    <2> QED
      BY <1>0, <2>1, LengthIs
  <1>7. out' \in Seq(Units(drv)) /\ Len(out') = (c + w) * drv.bps
    BY <1>0, <1>6, MoreSectors
  <1>8. Types'
    BY <1>3, <1>7 DEF StepInv, Types, Bytes
  <1>9. Counted'
    <2>1. PICK m \in Nat : m = drv.mbr_sectors
      BY <1>0, DriveIs
    <2>2. rem' > 0 => (sector' + m) + rem' = soff + cnt
      <3>1. (sector + m) + rem = soff + cnt
        BY <1>0, <2>1
      <3> QED
        BY ONLY <1>1, <1>2, <3>1, w \in Nat, m \in Nat
    <2>3. Dev' = sector' + m
      BY <2>1 DEF Dev
    <2>4. rem' <= cnt
      BY ONLY <1>0, <1>1, <1>3
    <2> QED
      BY <2>2, <2>3, <2>4 DEF StepInv, Counted, Walking, Chains, Total
  <1>10. InStep'
    <2>1. Written' = c + w
      BY <1>5 DEF Written
    <2>2. (c + w) * drv.bps \in Nat
      <3>1. drv.bps \in Nat
        BY <1>0, DriveIs
      <3> QED
        BY <3>1, Distr
    <2>3. Len(out') = (c + w) * drv.bps - 0
      BY <1>7, <2>2
    <2> QED
      BY <1>0, <2>1, <2>3 DEF InStep
  <1>11. InRegion'
    <2>1. sector' >= drv.data_start
      BY ONLY <1>0, <1>1, sector' \in Nat, sector' >= sector
    <2> QED
      BY <2>1 DEF InRegion
  <1> QED
    BY <1>4, <1>8, <1>9, <1>10, <1>11 DEF StepInv

LEMMA BehindFilesStep ==
    ASSUME StepInv, DataBehindFiles
    PROVE  StepInv'
  <1>0. drv \in Drives /\ rem \in Nat /\ sector \in Nat /\ pc = "files" /\ rem > 0 /\ drv.bps \in Nat
    BY DriveIs DEF StepInv, Types, DataBehindFiles
  <1>4. PICK w \in Nat : w = rem
    BY <1>0
  <1>5. PICK u : u = Zeros(w * drv.bps)
    OBVIOUS
  <1>1. /\ out' = out \o u /\ rem' = rem - w
        /\ UNCHANGED <<drv, req, phase, result, soff, pc, want, cnt, fat, left>>
    BY <1>0, <1>4, <1>5 DEF DataBehindFiles
  <1>2. u \in Seq(Units(drv)) /\ Len(u) = w * drv.bps
    <2>1. w * drv.bps \in Nat
      BY <1>0, Distr
    <2> QED
      BY <1>5, <2>1, ZerosAre
  <1>3. w <= rem /\ sector' \in Nat /\ sector' >= sector /\ ~(rem' > 0)
    BY <1>0, <1>4 DEF DataBehindFiles
  <1> QED
    BY ONLY StepInv, <1>0, <1>1, <1>2, <1>3, w \in Nat, FilesStep

(* The range that is found and what is read of its file.                   *)
LEMMA TurnIs ==
    ASSUME StepInv, FilesFit(drv), pc = "files", rem > 0, Found \in DOMAIN drv.ranges
    PROVE  \E h \in DOMAIN drv.file, a \in Nat, e \in Nat :
             /\ Found \in 1..Len(drv.ranges) /\ h = drv.ranges[Found].file
             /\ a = drv.file[h].startsect /\ e = drv.file[h].endsect
             /\ a = drv.ranges[Found].sectstart /\ e = drv.ranges[Found].sectend
             /\ a <= sector /\ sector < e
             /\ drv.file[h].kind # "dir" => drv.file[h].size <= (e - a) * drv.bps
             /\ drv.file[h].kind = "dir" => Dir(drv, h)
  <1>0. /\ drv \in Drives /\ sector \in Nat /\ sector >= drv.data_start
        /\ Shaped(drv) /\ Tiled(drv) /\ Numbered(drv)
    BY DriveIs DEF StepInv, Types, InRegion
  <1>1. PICK r : r = Found
    OBVIOUS
  <1>2. r \in 1..Len(drv.ranges) /\ drv.ranges[r].sectstart <= sector /\ sector < drv.ranges[r].sectend
    BY <1>0, <1>1, FoundIn DEF Found
  <1>3. PICK h : h = drv.ranges[r].file
    OBVIOUS
  <1>4. /\ h \in DOMAIN drv.file
        /\ drv.ranges[r].sectstart \in Nat /\ drv.ranges[r].sectend \in Nat
        /\ drv.file[h].startsect = drv.ranges[r].sectstart /\ drv.file[h].endsect = drv.ranges[r].sectend
        /\ drv.file[h].kind # "dir" =>
              drv.file[h].size <= (drv.ranges[r].sectend - drv.ranges[r].sectstart) * drv.bps
        /\ drv.file[h].kind = "dir" => Dir(drv, h)
    BY <1>0, <1>2, <1>3, RangeIs
  <1>5. PICK a \in Nat, e \in Nat : a = drv.ranges[r].sectstart /\ e = drv.ranges[r].sectend
    BY <1>4
  <1>6. /\ Found \in 1..Len(drv.ranges) /\ h = drv.ranges[Found].file
        /\ a = drv.file[h].startsect /\ e = drv.file[h].endsect
        /\ a = drv.ranges[Found].sectstart /\ e = drv.ranges[Found].sectend
        /\ a <= sector /\ sector < e
        /\ drv.file[h].kind # "dir" => drv.file[h].size <= (e - a) * drv.bps
    BY <1>1, <1>2, <1>3, <1>4, <1>5
  <1> QED
    BY <1>4, <1>6

LEMMA OfFileStep ==
    ASSUME StepInv, FilesFit(drv), DataOfFile
    PROVE  StepInv'
  <1>0. drv \in Drives /\ rem \in Nat /\ sector \in Nat /\ pc = "files" /\ rem > 0 /\ Found \in DOMAIN drv.ranges
    <2>1. drv \in Drives /\ rem \in Nat /\ sector \in Nat
      BY DEF StepInv, Types
    <2>2. pc = "files" /\ rem > 0 /\ Found \in DOMAIN drv.ranges
      BY Zenon DEF DataOfFile
    <2> QED
      BY <2>1, <2>2
  <1>1. PICK h \in DOMAIN drv.file, a \in Nat, e \in Nat :
             /\ h = drv.ranges[Found].file
             /\ a = drv.file[h].startsect /\ e = drv.file[h].endsect
             /\ a <= sector /\ sector < e
             /\ drv.file[h].kind # "dir" => drv.file[h].size <= (e - a) * drv.bps
             /\ drv.file[h].kind = "dir" => Dir(drv, h)
    BY <1>0, TurnIs
  <1>2. PICK w : w = Min2(e - sector, rem)
    OBVIOUS
  <1>3. /\ out' = out \o DataUnits(h, sector, w) /\ sector' = sector + w /\ rem' = rem - w
        /\ UNCHANGED <<drv, req, phase, result, soff, pc, want, cnt, fat, left>>
    <2>1. w = Min2(drv.file[drv.ranges[Found].file].endsect - sector, rem)
      BY <1>1, <1>2
    <2> QED
      BY <1>1, <2>1, Zenon DEF DataOfFile
  <1>4. PICK n \in Nat : n = drv.bps
    BY <1>0, DriveIs
  <1>5. PICK s \in Nat : s = sector
    BY <1>0
  <1>6. /\ w \in Nat /\ DataUnits(h, s, w) \in Seq(Units(drv)) /\ Len(DataUnits(h, s, w)) = w * n
    <2>1. PICK o : o = (s - a) * n
      OBVIOUS
    <2>2. /\ drv \in Drives /\ rem \in Nat /\ rem > 0 /\ a = drv.file[h].startsect /\ e = drv.file[h].endsect
          /\ a <= s /\ s < e /\ n = drv.bps
          /\ w = Min2(e - s, rem)
      BY <1>0, <1>1, <1>2, <1>4, <1>5
    <2>3. /\ drv.file[h].kind = "dir" => Dir(drv, h)
          /\ drv.file[h].kind # "dir" => drv.file[h].size <= (e - a) * n
      BY <1>1, <1>4
    <2> QED
      <3>1. TurnOf(h, s, a, e, n, w, o)
        BY <2>1, <2>2, <2>3 DEF TurnOf
      <3> QED
        BY ONLY <3>1, DataUnitsAre
  <1>7. w <= rem
    <2>1. w = Min2(e - sector, rem)
      BY <1>2
    <2> QED
      BY ONLY <1>0, <2>1, e \in Nat DEF Min2
  <1>8. sector' \in Nat /\ sector' >= sector
    <2>1. w \in Nat /\ sector \in Nat /\ sector' = sector + w
      BY <1>0, <1>3, <1>6
    <2> QED
      BY ONLY <2>1
  <1> QED
    BY <1>0, <1>3, <1>4, <1>5, <1>6, <1>7, <1>8, FilesStep

LEMMA DataFailsStep ==
    ASSUME StepInv, DataFails
    PROVE  StepInv'
  <1>1. /\ pc = "files" /\ pc' = "idle" /\ phase' = "error"
        /\ UNCHANGED <<drv, req, result, soff, want, sector, rem, cnt, out, fat, left>>
    BY DEF DataFails
  <1>2. Types'
    BY <1>1 DEF StepInv, Types, Bytes
  <1> QED
    BY <1>1, <1>2 DEF StepInv, Called, Asked, Left, Counted, InStep, InRegion, Phases, Walking, Chains

(* The invariant of a read.                                                *)
LEMMA StepInvInduction ==
    ASSUME StepInv, FilesFit(drv), [Next]_vars
    PROVE  StepInv'
  <1>1. CASE BeginHead \/ BeginBody \/ BeginTail
    BY <1>1, IdleStep
  <1>2. CASE Return
    BY <1>2, ReturnStep
  <1>3. CASE ReadMbr
    BY <1>3, MbrStep
  <1>4. CASE ReadPad
    BY <1>4, PadStep
  <1>5. CASE LeaveMbr
    BY <1>5, LeaveMbrStep
  <1>6. CASE ReadBoot
    BY <1>6, BootStep
  <1>7. CASE ReadFat1 \/ ReadFat2
    <2>1. drv.fat2_start \in Nat /\ FatEnd \in Nat
      BY DriveIs DEF StepInv, Types
    <2> QED
      BY <1>7, <2>1, EnterFatStep DEF ReadFat1, ReadFat2
  <1>8. CASE ReadRoot
    BY <1>8, RootStep
  <1>9. CASE FatTurn
    BY <1>9, FatTurnStep
  <1>10. CASE LeaveFat
    BY <1>10, LeaveFatStep
  <1>11. CASE EnterData
    BY <1>11, EnterDataStep
  <1>12. CASE LeaveData
    BY <1>12, LeaveDataStep
  <1>13. CASE DataBehindFiles
    BY <1>13, BehindFilesStep
  <1>14. CASE DataOfFile
    BY <1>14, OfFileStep
  <1>15. CASE DataFails
    BY <1>15, DataFailsStep
  <1>16. CASE UNCHANGED vars
    BY <1>16 DEF vars, callvars, StepInv, Types, Bytes, Called, Asked, Left, Counted, InStep, InRegion,
                 Total, Dev, Written, FatEnd
  <1> QED
    BY <1>1, <1>2, <1>3, <1>4, <1>5, <1>6, <1>7, <1>8, <1>9, <1>10, <1>11, <1>12, <1>13, <1>14,
       <1>15, <1>16 DEF Next, ReadStep, Done

LEMMA DriveStays ==
    ASSUME [Next]_vars PROVE drv' = drv
  <1>1. CASE BeginHead \/ BeginBody \/ BeginTail \/ Return
    BY <1>1 DEF BeginHead, BeginBody, BeginTail, Call, NextPhase, Return
  <1>2. CASE ReadMbr \/ ReadPad \/ LeaveMbr \/ ReadBoot \/ ReadRoot
    BY <1>2 DEF ReadMbr, ReadPad, LeaveMbr, ReadBoot, ReadRoot, Region
  <1>3. CASE ReadFat1 \/ ReadFat2 \/ FatTurn \/ LeaveFat
    BY <1>3 DEF ReadFat1, ReadFat2, EnterFat, FatTurn, LeaveFat
  <1>4. CASE EnterData \/ LeaveData \/ DataBehindFiles \/ DataFails
    BY <1>4 DEF EnterData, LeaveData, DataBehindFiles, DataFails
  <1>5. CASE DataOfFile
    BY <1>5, Zenon DEF DataOfFile
  <1>6. CASE UNCHANGED vars
    BY <1>6 DEF vars
  <1> QED
    BY <1>1, <1>2, <1>3, <1>4, <1>5, <1>6 DEF Next, ReadStep, Done

(* Where a file does not fit its clusters the buffer is overrun, and       *)
(* nothing is said of what the code does then.                             *)
StepInvIfFit == FilesFit(drv) => StepInv

LEMMA StepInvAlways == Spec => []StepInvIfFit
  <1>1. Init => StepInvIfFit
    BY InitStep DEF StepInvIfFit
  <1>2. StepInvIfFit /\ [Next]_vars => StepInvIfFit'
    <2> SUFFICES ASSUME StepInvIfFit, [Next]_vars, FilesFit(drv)' PROVE StepInv'
      BY DEF StepInvIfFit
    <2>1. FilesFit(drv)
      BY DriveStays DEF FilesFit
    <2>2. StepInv
      BY <2>1 DEF StepInvIfFit
    <2> QED
      BY <2>1, <2>2, StepInvInduction
  <1> QED
    BY <1>1, <1>2, PTL DEF Spec

(* Whatever the drives, the requests and the files, as long as the files   *)
(* fit their clusters, every counter of a read stays a natural number: no  *)
(* subtraction of vdf_read_sectors() and of read_sector_data() goes below  *)
(* zero.                                                                   *)
THEOREM ReadTypeOK == Spec => [](FilesFit(drv) => TypeOK)
  <1>1. StepInvIfFit => (FilesFit(drv) => TypeOK)
    BY StepInvIsTyped DEF StepInvIfFit
  <1> QED
    BY <1>1, StepInvAlways, PTL

(* On every drive whose files fit their clusters, no region, no window and *)
(* no file writes beyond the sectors that were asked for, and the write    *)
(* pointer is where the sector count says.                                 *)
THEOREM ReadBufferInStep == Spec => []BufferInStep
  <1>1. StepInvIfFit => BufferInStep
    BY StepInvIsTyped DEF StepInvIfFit, BufferInStep
  <1> QED
    BY <1>1, StepInvAlways, PTL

-----------------------------------------------------------------------------
(***************************************************************************)
(* What a reader gets is the image.                                        *)
(***************************************************************************)
(* The searches for a sector and for a cluster stop at file_cnt, which is  *)
(* the length of the array when no file of the list is empty.              *)
AllHaveRanges(d) == d.file_cnt = Len(d.ranges)

-----------------------------------------------------------------------------
(* Ranges that lie one behind the other.                                   *)
LEMMA InOrder ==
    ASSUME NEW n \in Nat, NEW lo \in [1..n -> Nat], NEW hi \in [1..n -> Nat],
           \A i \in 1..n : lo[i] <= hi[i],
           \A i \in 1..(n - 1) : hi[i] = lo[i + 1]
    PROVE  /\ \A i \in 1..n, j \in 1..n : i < j => hi[i] <= lo[j]
           /\ \A i \in 1..n : hi[i] <= hi[n]
  <1> DEFINE S == {j \in Nat : j <= n => \A i \in 1..n : i < j => hi[i] <= lo[j]}
  <1>1. 0 \in S
    OBVIOUS
  <1>2. ASSUME NEW j \in Nat, j \in S PROVE j + 1 \in S
    <2>1. CASE j = 0
      BY <2>1
    <2>2. CASE j # 0 /\ j + 1 <= n
      <3>1. j \in 1..n /\ j \in 1..(n - 1) /\ j + 1 \in 1..n
        BY <2>2
      <3>2. hi[j] = lo[j + 1] /\ lo[j] <= hi[j] /\ lo[j] \in Nat /\ hi[j] \in Nat
        BY <3>1
      <3>3. \A i \in 1..n : i < j => hi[i] <= lo[j]
        BY <1>2, <3>1
      <3>4. ASSUME NEW i \in 1..n, i < j + 1 PROVE hi[i] <= lo[j + 1]
        <4>1. CASE i = j
          BY <3>2, <4>1
        <4>2. CASE i # j
          <5>1. hi[i] <= lo[j] /\ hi[i] \in Nat
            BY <3>3, <3>4, <4>2
          <5> QED
            BY <3>2, <5>1
        <4> QED
          BY <4>1, <4>2
      <3> QED
        BY <3>4
    <2>3. CASE ~(j + 1 <= n)
      BY <2>3
    <2> QED
      BY <2>1, <2>2, <2>3
  <1> HIDE DEF S
  <1>3. Nat \subseteq S
    BY ONLY <1>1, <1>2, SetInduction
  <1>4. \A i \in 1..n, j \in 1..n : i < j => hi[i] <= lo[j]
    BY <1>3 DEF S
  <1>5. ASSUME NEW i \in 1..n PROVE hi[i] <= hi[n]
    <2>1. n \in 1..n /\ lo[n] <= hi[n] /\ lo[n] \in Nat /\ hi[n] \in Nat /\ hi[i] \in Nat
      OBVIOUS
    <2>2. CASE i = n
      BY <2>1, <2>2
    <2>3. CASE i # n
      <3>1. hi[i] <= lo[n]
        BY <1>4, <2>1, <2>3
      <3> QED
        BY <2>1, <3>1
    <2> QED
      BY <2>2, <2>3
  <1> QED
    BY <1>4, <1>5

(* What Read knows of the ranges of a drive.                               *)
LEMMA RangesAre ==
    ASSUME NEW d \in Drives
    PROVE  /\ Shaped(d) /\ Tiled(d) /\ Ranged(d) /\ Numbered(d)
           /\ Len(d.ranges) \in Nat /\ DOMAIN d.ranges = 1..Len(d.ranges)
           /\ d.data_end \in Nat /\ d.data_cluster_end \in Nat
           /\ \A i \in 1..Len(d.ranges) :
                 /\ d.ranges[i].file \in DOMAIN d.file
                 /\ d.ranges[i].sectstart \in Nat /\ d.ranges[i].sectend \in Nat
                 /\ d.ranges[i].fatstart \in Nat /\ d.ranges[i].fatend \in Nat
                 /\ d.ranges[i].sectstart <= d.ranges[i].sectend
                 /\ d.ranges[i].fatstart <= d.ranges[i].fatend
  <1>1. Shaped(d) /\ Tiled(d) /\ Ranged(d) /\ Numbered(d)
    BY DrivesAssumption
  <1>2. Len(d.ranges) \in Nat /\ DOMAIN d.ranges = 1..Len(d.ranges) /\ d.data_end \in Nat /\ d.data_cluster_end \in Nat
    BY <1>1, LenProperties DEF Shaped
  <1>3. ASSUME NEW i \in 1..Len(d.ranges)
        PROVE  /\ d.ranges[i].file \in DOMAIN d.file
               /\ d.ranges[i].sectstart \in Nat /\ d.ranges[i].sectend \in Nat
               /\ d.ranges[i].fatstart \in Nat /\ d.ranges[i].fatend \in Nat
               /\ d.ranges[i].sectstart <= d.ranges[i].sectend
    BY <1>1, RangeIs
  <1>4. ASSUME NEW i \in 1..Len(d.ranges) PROVE d.ranges[i].fatstart <= d.ranges[i].fatend
    BY <1>1 DEF Ranged
  <1> QED
    BY <1>1, <1>2, <1>3, <1>4

(* No range overlaps another, and none ends behind the last one.           *)
LEMMA RangesInOrder ==
    ASSUME NEW d \in Drives
    PROVE  \A i \in 1..Len(d.ranges) :
              /\ d.ranges[i].sectend <= d.data_end
              /\ d.ranges[i].fatend <= d.data_cluster_end
              /\ \A j \in 1..Len(d.ranges) :
                    i < j => /\ d.ranges[i].sectend <= d.ranges[j].sectstart
                             /\ d.ranges[i].fatend <= d.ranges[j].fatstart
  <1>1. PICK n \in Nat : n = Len(d.ranges)
    BY RangesAre
  <1> DEFINE slo == [i \in 1..n |-> d.ranges[i].sectstart]
             shi == [i \in 1..n |-> d.ranges[i].sectend]
             flo == [i \in 1..n |-> d.ranges[i].fatstart]
             fhi == [i \in 1..n |-> d.ranges[i].fatend]
  <1>2. \A i \in 1..n : /\ slo[i] = d.ranges[i].sectstart /\ shi[i] = d.ranges[i].sectend
                        /\ flo[i] = d.ranges[i].fatstart /\ fhi[i] = d.ranges[i].fatend
    OBVIOUS
  <1>3. /\ slo \in [1..n -> Nat] /\ shi \in [1..n -> Nat] /\ flo \in [1..n -> Nat] /\ fhi \in [1..n -> Nat]
        /\ \A i \in 1..n : slo[i] <= shi[i] /\ flo[i] <= fhi[i]
    BY <1>1, RangesAre
  <1>4. \A i \in 1..(n - 1) : shi[i] = slo[i + 1] /\ fhi[i] = flo[i + 1]
    <2>1. \A i \in 1..(n - 1) : i \in 1..n /\ i + 1 \in 1..n
      OBVIOUS
    <2>2. \A i \in 1..(n - 1) : /\ d.ranges[i].sectend = d.ranges[i + 1].sectstart
                                /\ d.ranges[i].fatend = d.ranges[i + 1].fatstart
      BY <1>1, RangesAre DEF Tiled
    <2> QED
      BY <1>2, <2>1, <2>2
  <1>5. n > 0 => d.ranges[n].sectend = d.data_end /\ d.ranges[n].fatend = d.data_cluster_end
    BY <1>1, RangesAre DEF Tiled
  <1> HIDE DEF slo, shi, flo, fhi
  <1>6. /\ \A i \in 1..n, j \in 1..n : i < j => shi[i] <= slo[j]
        /\ \A i \in 1..n : shi[i] <= shi[n]
    <2>1. \A i \in 1..n : slo[i] <= shi[i]
      BY <1>3
    <2>2. \A i \in 1..(n - 1) : shi[i] = slo[i + 1]
      BY <1>4
    <2> QED
      BY ONLY <1>3, <2>1, <2>2, n \in Nat, InOrder
  <1>7. /\ \A i \in 1..n, j \in 1..n : i < j => fhi[i] <= flo[j]
        /\ \A i \in 1..n : fhi[i] <= fhi[n]
    <2>1. \A i \in 1..n : flo[i] <= fhi[i]
      BY <1>3
    <2>2. \A i \in 1..(n - 1) : fhi[i] = flo[i + 1]
      BY <1>4
    <2> QED
      BY ONLY <1>3, <2>1, <2>2, n \in Nat, InOrder
  <1>8. ASSUME NEW i \in 1..n
        PROVE  d.ranges[i].sectend <= d.data_end /\ d.ranges[i].fatend <= d.data_cluster_end
    <2>1. n > 0 /\ n \in 1..n
      OBVIOUS
    <2> QED
      BY <1>2, <1>5, <1>6, <1>7, <2>1
  <1> QED
    BY <1>1, <1>2, <1>6, <1>7, <1>8

(* Who owns a sector or a cluster: the file of its range and no other.     *)
Holds(d, h) == h \in DOMAIN d.file /\ d.file[h].listed /\ d.file[h].size # 0

LEMMA OwnerHasRange ==
    ASSUME NEW d \in Drives, NEW h, Holds(d, h)
    PROVE  \E i \in 1..Len(d.ranges) :
              /\ d.ranges[i].file = h
              /\ d.file[h].startsect = d.ranges[i].sectstart /\ d.file[h].endsect = d.ranges[i].sectend
              /\ d.file[h].start = d.ranges[i].fatstart /\ d.file[h].end = d.ranges[i].fatend
  <1>1. PICK i \in 1..Len(d.ranges) : d.ranges[i].file = h
    BY RangesAre DEF Ranged, Holds
  <1>2. d.file[h].start = d.ranges[i].fatstart /\ d.file[h].end = d.ranges[i].fatend
    BY <1>1, RangesAre DEF Ranged
  <1>3. d.file[h].startsect = d.ranges[i].sectstart /\ d.file[h].endsect = d.ranges[i].sectend
    BY <1>1, RangesAre, RangeIs
  <1> QED
    BY <1>1, <1>2, <1>3

LEMMA RangeHasOwner ==
    ASSUME NEW d \in Drives, NEW i \in 1..Len(d.ranges), NEW h, h = d.ranges[i].file
    PROVE  /\ Holds(d, h)
           /\ d.file[h].startsect = d.ranges[i].sectstart /\ d.file[h].endsect = d.ranges[i].sectend
           /\ d.file[h].start = d.ranges[i].fatstart /\ d.file[h].end = d.ranges[i].fatend
  <1>1. /\ d.file[h].start = d.ranges[i].fatstart /\ d.file[h].end = d.ranges[i].fatend
        /\ d.file[h].listed /\ d.file[h].size # 0
    BY RangesAre DEF Ranged
  <1>2. h \in DOMAIN d.file /\ d.file[h].startsect = d.ranges[i].sectstart /\ d.file[h].endsect = d.ranges[i].sectend
    BY RangesAre, RangeIs
  <1> QED
    BY <1>1, <1>2 DEF Holds

LEMMA OneSectorOwner ==
    ASSUME NEW d \in Drives, NEW p \in Nat, NEW i \in 1..Len(d.ranges),
           d.ranges[i].sectstart <= p, p < d.ranges[i].sectend
    PROVE  SectorOwners(d, p) = {d.ranges[i].file}
  <1> DEFINE owners == {h \in DOMAIN d.file : d.file[h].listed /\ d.file[h].size # 0
                           /\ d.file[h].startsect <= p /\ p < d.file[h].endsect}
  <1>1. d.ranges[i].file \in owners
    BY RangeHasOwner DEF Holds
  <1>2. ASSUME NEW h \in owners PROVE h = d.ranges[i].file
    <2>1. PICK j \in 1..Len(d.ranges) :
              /\ d.ranges[j].file = h
              /\ d.file[h].startsect = d.ranges[j].sectstart /\ d.file[h].endsect = d.ranges[j].sectend
      BY OwnerHasRange DEF Holds
    <2>2. d.ranges[j].sectstart <= p /\ p < d.ranges[j].sectend
      BY <2>1
    <2>3. ~(i < j) /\ ~(j < i)
      <3>1. /\ d.ranges[i].sectstart \in Nat /\ d.ranges[i].sectend \in Nat
            /\ d.ranges[j].sectstart \in Nat /\ d.ranges[j].sectend \in Nat
        BY RangesAre
      <3>2. /\ i < j => d.ranges[i].sectend <= d.ranges[j].sectstart
            /\ j < i => d.ranges[j].sectend <= d.ranges[i].sectstart
        BY RangesInOrder
      <3> QED
        BY <2>2, <3>1, <3>2
    <2>4. i = j
      BY <2>3, RangesAre
    <2> QED
      BY <2>1, <2>4
  <1> QED
    BY <1>1, <1>2 DEF SectorOwners

LEMMA NoSectorOwner ==
    ASSUME NEW d \in Drives, NEW p \in Nat, p >= d.data_end
    PROVE  SectorOwners(d, p) = {}
  <1>1. SUFFICES ASSUME NEW h, Holds(d, h), p < d.file[h].endsect PROVE FALSE
    BY DEF Holds, SectorOwners
  <1>2. PICK j \in 1..Len(d.ranges) : d.file[h].endsect = d.ranges[j].sectend
    BY <1>1, OwnerHasRange
  <1>3. d.ranges[j].sectend <= d.data_end /\ d.ranges[j].sectend \in Nat /\ d.data_end \in Nat
    BY RangesAre, RangesInOrder
  <1> QED
    BY <1>1, <1>2, <1>3

-----------------------------------------------------------------------------
(* The FAT.                                                                *)
LEMMA OneClusterOwner ==
    ASSUME NEW d \in Drives, NEW p \in Nat, NEW i \in 1..Len(d.ranges),
           d.ranges[i].fatstart <= p, p < d.ranges[i].fatend
    PROVE  {h \in DOMAIN d.file : d.file[h].listed /\ d.file[h].size # 0
                 /\ d.file[h].start <= p /\ p < d.file[h].end} = {d.ranges[i].file}
  <1> DEFINE owners == {h \in DOMAIN d.file : d.file[h].listed /\ d.file[h].size # 0
                           /\ d.file[h].start <= p /\ p < d.file[h].end}
  <1>1. d.ranges[i].file \in owners
    BY RangeHasOwner DEF Holds
  <1>2. ASSUME NEW h \in owners PROVE h = d.ranges[i].file
    <2>1. PICK j \in 1..Len(d.ranges) :
              /\ d.ranges[j].file = h
              /\ d.file[h].start = d.ranges[j].fatstart /\ d.file[h].end = d.ranges[j].fatend
      BY OwnerHasRange DEF Holds
    <2>2. d.ranges[j].fatstart <= p /\ p < d.ranges[j].fatend
      BY <2>1
    <2>3. ~(i < j) /\ ~(j < i)
      <3>1. /\ d.ranges[i].fatstart \in Nat /\ d.ranges[i].fatend \in Nat
            /\ d.ranges[j].fatstart \in Nat /\ d.ranges[j].fatend \in Nat
        BY RangesAre
      <3>2. /\ i < j => d.ranges[i].fatend <= d.ranges[j].fatstart
            /\ j < i => d.ranges[j].fatend <= d.ranges[i].fatstart
        BY RangesInOrder
      <3> QED
        BY <2>2, <3>1, <3>2
    <2>4. i = j
      BY <2>3, RangesAre
    <2> QED
      BY <2>1, <2>4
  <1> QED
    BY <1>1, <1>2

(* The entry of a cluster that a file has.                                 *)
LEMMA EntryInRange ==
    ASSUME NEW d \in Drives, NEW p \in Nat, p > 1, NEW i \in 1..Len(d.ranges),
           d.ranges[i].fatstart <= p, p < d.ranges[i].fatend
    PROVE  FatEntry(d, p) = IF p >= d.ranges[i].fatend - 1 THEN EndMark ELSE Link(p + 1)
  <1> DEFINE h == d.ranges[i].file
             owners == {g \in DOMAIN d.file : d.file[g].listed /\ d.file[g].size # 0
                           /\ d.file[g].start <= p /\ p < d.file[g].end}
  <1>1. owners = {h}
    BY OneClusterOwner
  <1>2. d.file[h].end = d.ranges[i].fatend /\ d.ranges[i].fatend \in Nat
    BY RangesAre, RangeHasOwner
  <1>3. p = d.file[h].end - 1 <=> p >= d.ranges[i].fatend - 1
    BY <1>2
  <1>4. FatEntry(d, p) = IF owners = {} THEN Zero
                         ELSE IF \E g \in owners : p = d.file[g].end - 1 THEN EndMark ELSE Link(p + 1)
    <2>1. p # 0 /\ p # 1
      OBVIOUS
    <2> QED
      BY <2>1, Zenon DEF FatEntry
  <1>5. owners # {} /\ ((\E g \in owners : p = d.file[g].end - 1) <=> p = d.file[h].end - 1)
    BY <1>1
  <1> QED
    BY <1>3, <1>4, <1>5

(* The entries behind the last cluster.                                    *)
LEMMA EntryBehind ==
    ASSUME NEW d \in Drives, NEW p \in Nat, p > 1, p >= d.data_cluster_end
    PROVE  FatEntry(d, p) = Zero
  <1> DEFINE owners == {g \in DOMAIN d.file : d.file[g].listed /\ d.file[g].size # 0
                           /\ d.file[g].start <= p /\ p < d.file[g].end}
  <1>1. owners = {}
    <2>1. SUFFICES ASSUME NEW h, Holds(d, h), p < d.file[h].end PROVE FALSE
      BY DEF Holds
    <2>2. PICK j \in 1..Len(d.ranges) : d.file[h].end = d.ranges[j].fatend
      BY <2>1, OwnerHasRange
    <2>3. d.ranges[j].fatend <= d.data_cluster_end /\ d.ranges[j].fatend \in Nat /\ d.data_cluster_end \in Nat
      BY RangesAre, RangesInOrder
    <2> QED
      BY <2>1, <2>2, <2>3
  <1>2. FatEntry(d, p) = IF owners = {} THEN Zero
                         ELSE IF \E g \in owners : p = d.file[g].end - 1 THEN EndMark ELSE Link(p + 1)
    <2>1. p # 0 /\ p # 1
      OBVIOUS
    <2> QED
      BY <2>1, Zenon DEF FatEntry
  <1> QED
    BY <1>1, <1>2

(* The chain that read_sector_fat() follows is at entry q.                 *)
InRange(d, f, q) ==
    /\ f.file \in 1..Len(d.ranges)
    /\ f.clust = q + 1
    /\ d.ranges[f.file].fatstart <= q /\ q < d.ranges[f.file].fatend

Follows(d, f, q) ==
    \/ f.ent = q /\ InRange(d, f, q)
    \/ f.file = Miss /\ q >= d.data_cluster_end

(* The range of a cluster is the first that ends behind it.                *)
LEMMA FirstRange ==
    ASSUME NEW d \in Drives, AllHaveRanges(d), NEW q \in Nat, q >= 2, NEW r,
           r = find_file_fat_entry(d.ranges, d.file_cnt, d.data_cluster_end, q)
    PROVE  \/ r = Miss /\ q >= d.data_cluster_end
           \/ r \in 1..Len(d.ranges) /\ d.ranges[r].fatstart <= q /\ q < d.ranges[r].fatend
  <1>1. PICK n \in Nat : n = Len(d.ranges)
    BY RangesAre
  <1>2. \/ r = Miss /\ q >= d.data_cluster_end
        \/ /\ r \in 1..n /\ q < d.ranges[r].fatend
           /\ \A j \in 1..n : q < d.ranges[j].fatend => r <= j
        \/ /\ \A j \in 1..n : j <= d.file_cnt => ~(q < d.ranges[j].fatend)
           /\ q < d.data_cluster_end
    <2>1. Shaped(d)
      BY RangesAre
    <2>2. r = find_file_fat_entry(d.ranges, d.file_cnt, d.data_cluster_end, q)
      OBVIOUS
    <2> QED
      BY ONLY <1>1, <2>1, <2>2, q \in Nat, FindFat, SMTT(40)
  <1>3. CASE r \in 1..n /\ q < d.ranges[r].fatend /\ \A j \in 1..n : q < d.ranges[j].fatend => r <= j
    <2>1. CASE r = 1
      <3>1. d.ranges[1].fatstart = 2
        BY <1>1, <1>3, RangesAre DEF Tiled, FirstCluster
      <3> QED
        BY <1>1, <1>3, <2>1, <3>1
    <2>2. CASE r # 1
      <3>1. PICK j \in 1..(n - 1) : r = j + 1
        <4>1. r - 1 \in 1..(n - 1) /\ r = (r - 1) + 1
          BY <1>3, <2>2
        <4> QED
          BY <4>1
      <3>2. d.ranges[j].fatend = d.ranges[j + 1].fatstart
        BY <1>1, RangesAre DEF Tiled
      <3>3. j \in 1..n /\ ~(r <= j)
        BY <3>1
      <3>4. ~(q < d.ranges[j].fatend) /\ d.ranges[j].fatend \in Nat
        BY <1>1, <1>3, <3>3, RangesAre
      <3> QED
        BY <1>1, <1>3, <3>1, <3>2, <3>4
    <2> QED
      BY <2>1, <2>2
  <1>4. CASE /\ \A j \in 1..n : j <= d.file_cnt => ~(q < d.ranges[j].fatend)
             /\ q < d.data_cluster_end
    <2>1. CASE n = 0
      <3>1. d.data_cluster_end = 2
        BY <1>1, <2>1, RangesAre DEF Tiled, FirstCluster
      <3> QED
        BY <1>4, <3>1
    <2>2. CASE n # 0
      <3>1. n \in 1..n /\ n <= d.file_cnt
        BY <1>1, <2>2 DEF AllHaveRanges
      <3>2. d.ranges[n].fatend = d.data_cluster_end
        BY <1>1, <2>2, RangesAre DEF Tiled
      <3> QED
        BY <1>4, <3>1, <3>2
    <2> QED
      BY <2>1, <2>2
  <1> QED
    BY <1>1, <1>2, <1>3, <1>4

LEMMA FollowStart ==
    ASSUME NEW d \in Drives, AllHaveRanges(d), NEW s \in Nat, NEW q \in Nat, q >= 2,
           q = IF s = 0 THEN 2 ELSE s * d.bps
    PROVE  Follows(d, FatStart(d, s), q)
  <1>1. PICK f : f = FatStart(d, s)
    OBVIOUS
  <1>2. /\ f.ent = q /\ f.clust = q + 1
        /\ f.file = find_file_fat_entry(d.ranges, d.file_cnt, d.data_cluster_end, q)
    BY <1>1, RangesAre, FatStartIs
  <1>3. \/ f.file = Miss /\ q >= d.data_cluster_end
        \/ f.file \in 1..Len(d.ranges) /\ d.ranges[f.file].fatstart <= q /\ q < d.ranges[f.file].fatend
    BY <1>2, FirstRange
  <1> QED
    BY <1>1, <1>2, <1>3 DEF Follows, InRange

(* One turn of the loop writes the entry it is at and goes on to the next. *)
LEMMA FollowTurn ==
    ASSUME NEW d \in Drives, AllHaveRanges(d), FilesFit(d), NEW f \in [ent : Nat, clust : Nat, file : Int],
           NEW q \in Nat, q >= 2, Follows(d, f, q)
    PROVE  FatUnit(d, f) = FatEntry(d, q) /\ Follows(d, FatNext(d, f), q + 1)
  <1>1. PICK n \in Nat : n = Len(d.ranges) /\ DOMAIN d.ranges = 1..n
    BY RangesAre
  <1>2. CASE f.file = Miss /\ q >= d.data_cluster_end
    <2>1. ~InChain(d, f)
      BY <1>1, <1>2 DEF InChain, Miss
    <2>2. FatUnit(d, f) = Zero /\ FatNext(d, f) = f
      BY <1>2, <2>1 DEF FatUnit, FatNext
    <2>3. FatEntry(d, q) = Zero
      BY <1>2, EntryBehind
    <2>4. q + 1 >= d.data_cluster_end
      BY <1>2, RangesAre
    <2> QED
      BY <1>2, <2>2, <2>3, <2>4 DEF Follows
  <1>3. CASE f.ent = q /\ InRange(d, f, q)
    <2>1. PICK i \in 1..n : i = f.file
      BY <1>1, <1>3 DEF InRange
    <2>2. /\ f.clust = q + 1 /\ f.ent = q /\ f.file = i
          /\ d.ranges[i].fatstart <= q /\ q < d.ranges[i].fatend
          /\ d.ranges[i].fatstart \in Nat /\ d.ranges[i].fatend \in Nat
      BY <1>1, <1>3, <2>1, RangesAre DEF InRange
    <2>3. InChain(d, f)
      BY <1>1, <2>2 DEF InChain
    <2>4. FatEntry(d, q) = IF q >= d.ranges[i].fatend - 1 THEN EndMark ELSE Link(q + 1)
      <3>1. q > 1 /\ i \in 1..Len(d.ranges)
        BY <1>1
      <3> QED
        BY <2>2, <3>1, EntryInRange
    <2>5. FatUnit(d, f) = IF q >= d.ranges[i].fatend - 1 THEN EndMark ELSE Link(q + 1)
      BY <2>2, <2>3 DEF FatUnit, AtChainEnd
    <2>6. CASE q >= d.ranges[i].fatend - 1
      <3>1. q + 1 = d.ranges[i].fatend
        BY <2>2, <2>6
      <3>2. FatNext(d, f) = [ent |-> q + 1, clust |-> q + 2,
                             file |-> fat_next_file(d.ranges, d.file_cnt, i)]
        BY <2>2, <2>3, <2>6 DEF FatNext, AtChainEnd
      <3>3. CASE i = n
        <4>1. fat_next_file(d.ranges, d.file_cnt, i) = Miss
          BY <1>1, <3>3 DEF fat_next_file, AllHaveRanges
        <4>2. d.ranges[n].fatend = d.data_cluster_end
          BY <1>1, RangesAre DEF Tiled
        <4>3. q + 1 >= d.data_cluster_end
          BY <3>1, <3>3, <4>2, RangesAre
        <4> QED
          BY <2>4, <2>5, <3>2, <4>1, <4>3 DEF Follows
      <3>4. CASE i # n
        <4>1. i \in 1..(n - 1) /\ i + 1 \in 1..n
          BY <3>4
        <4>2. fat_next_file(d.ranges, d.file_cnt, i) = i + 1
          BY <1>1, <3>4, <4>1 DEF fat_next_file, AllHaveRanges
        <4>3. d.ranges[i + 1].fatstart = q + 1
          <5>1. d.ranges[i].fatend = d.ranges[i + 1].fatstart
            BY <1>1, <4>1, RangesAre DEF Tiled
          <5> QED
            BY <3>1, <5>1
        <4>4. d.ranges[i + 1].fatstart < d.ranges[i + 1].fatend
          BY <1>1, <4>1, RangesAre DEF FilesFit, Ranged
        <4>5. (q + 1) + 1 = q + 2
          OBVIOUS
        <4> QED
          BY <1>1, <2>4, <2>5, <3>2, <4>1, <4>2, <4>3, <4>4, <4>5 DEF Follows, InRange
      <3> QED
        BY <3>3, <3>4
    <2>7. CASE ~(q >= d.ranges[i].fatend - 1)
      <3>1. FatNext(d, f) = [f EXCEPT !.ent = @ + 1, !.clust = @ + 1]
        BY <2>2, <2>3, <2>7 DEF FatNext, AtChainEnd
      <3>2. q + 1 < d.ranges[i].fatend /\ d.ranges[i].fatstart <= q + 1
        BY <2>2, <2>7
      <3> QED
        BY <1>1, <2>2, <2>4, <2>5, <3>1, <3>2 DEF Follows, InRange
    <2> QED
      BY <2>6, <2>7
  <1> QED
    BY <1>2, <1>3 DEF Follows

-----------------------------------------------------------------------------
(* The units of the image, region by region.                               *)
LEMMA StartsAre ==
    ASSUME NEW d \in Drives
    PROVE  /\ d.bps \in Nat /\ d.bps > 0 /\ d.mbr_sectors \in Nat /\ d.sectors \in Nat
           /\ d.fat1_start \in Nat /\ d.fat2_start \in Nat /\ d.root_start \in Nat /\ d.data_start \in Nat
           /\ d.fat1_start <= d.fat2_start /\ d.fat2_start <= d.root_start /\ d.root_start <= d.data_start
           /\ d.data_start <= d.data_end
  <1>1. Shaped(d)
    BY RangesAre
  <1>2. /\ d.bps \in Nat /\ d.bps >= 2 /\ d.mbr_sectors \in Nat /\ d.sectors \in Nat
        /\ d.fat1_start \in Nat /\ d.fat2_start \in Nat /\ d.root_start \in Nat /\ d.data_start \in Nat
        /\ d.fat1_start <= d.fat2_start /\ d.fat2_start <= d.root_start /\ d.root_start <= d.data_start
        /\ d.data_start <= d.data_end
    BY <1>1 DEF Shaped
  <1> QED
    BY <1>2

LEMMA ImageAt ==
    ASSUME NEW d \in Drives, NEW q \in Nat, NEW j \in 0..(d.bps - 1), NEW b, b = q * d.bps + j
    PROVE  ImageUnit(d, b) = SectorUnit(d, q, j)
  <1>1. PICK n \in Nat : n = d.bps /\ n > 0
    BY StartsAre
  <1>2. b \div n = q /\ b % n = j
    <2>1. b = q * n + j /\ j \in 0..(n - 1) /\ n > 0
      BY <1>1
    <2> QED
      BY ONLY <2>1, n \in Nat, q \in Nat, PlaceIs
  <1> QED
    BY <1>1, <1>2, Zenon DEF ImageUnit

LEMMA SectorOfPartition ==
    ASSUME NEW d \in Drives, NEW p \in Nat, NEW q, q = p + d.mbr_sectors, NEW j
    PROVE  SectorUnit(d, q, j) = PartitionUnit(d, p, j)
  <1>1. q >= d.mbr_sectors /\ q - d.mbr_sectors = p
    BY StartsAre
  <1> QED
    BY <1>1 DEF SectorUnit

LEMMA BootRegion ==
    ASSUME NEW d \in Drives, NEW p \in Nat, NEW j, p < d.fat1_start
    PROVE  PartitionUnit(d, p, j) = BootUnit(d, p, j)
  <1>1. ~(p >= d.fat1_start) /\ ~(p >= d.fat2_start) /\ ~(p >= d.root_start) /\ ~(p >= d.data_start)
    BY StartsAre
  <1> QED
    BY <1>1, Zenon DEF PartitionUnit

LEMMA FatRegion ==
    ASSUME NEW d \in Drives, NEW p \in Nat, NEW j, NEW start,
           \/ start = d.fat1_start /\ p >= start /\ p < d.fat2_start
           \/ start = d.fat2_start /\ p >= start /\ p < d.root_start
    PROVE  PartitionUnit(d, p, j) = FatEntry(d, (p - start) * d.bps + j)
  <1>1. CASE start = d.fat1_start /\ p >= start /\ p < d.fat2_start
    <2>1. ~(p < d.fat1_start) /\ ~(p >= d.fat2_start) /\ ~(p >= d.root_start) /\ ~(p >= d.data_start)
      BY <1>1, StartsAre
    <2> QED
      BY <1>1, <2>1, Zenon DEF PartitionUnit
  <1>2. CASE start = d.fat2_start /\ p >= start /\ p < d.root_start
    <2>1. ~(p < d.fat1_start) /\ ~(p < d.fat2_start) /\ ~(p >= d.root_start) /\ ~(p >= d.data_start)
      BY <1>2, StartsAre
    <2> QED
      BY <1>2, <2>1, Zenon DEF PartitionUnit
  <1> QED
    BY <1>1, <1>2

LEMMA RootRegion ==
    ASSUME NEW d \in Drives, NEW p \in Nat, NEW j, p >= d.root_start, p < d.data_start
    PROVE  PartitionUnit(d, p, j) = UnitAt(DirUnits(d, d.root_dir), (p - d.root_start) * d.bps + j)
  <1>1. ~(p < d.fat1_start) /\ ~(p < d.fat2_start) /\ ~(p < d.root_start) /\ ~(p >= d.data_start)
    BY StartsAre
  <1> QED
    BY <1>1, Zenon DEF PartitionUnit

LEMMA DataRegion ==
    ASSUME NEW d \in Drives, NEW p \in Nat, NEW j, p >= d.data_start
    PROVE  PartitionUnit(d, p, j) =
             IF SectorOwners(d, p) = {} THEN Zero
             ELSE LET h == CHOOSE h \in SectorOwners(d, p) : TRUE
                  IN  UnitOfFile(d, h, (p - d.file[h].startsect) * d.bps + j)
  <1>1. ~(p < d.fat1_start) /\ ~(p < d.fat2_start) /\ ~(p < d.root_start) /\ ~(p < d.data_start)
    BY StartsAre
  <1> QED
    BY <1>1, Zenon DEF PartitionUnit

LEMMA FileRegion ==
    ASSUME NEW d \in Drives, NEW p \in Nat, NEW j, p >= d.data_start, NEW i \in 1..Len(d.ranges),
           d.ranges[i].sectstart <= p, p < d.ranges[i].sectend, NEW h, h = d.ranges[i].file
    PROVE  PartitionUnit(d, p, j) = UnitOfFile(d, h, (p - d.file[h].startsect) * d.bps + j)
  <1>1. SectorOwners(d, p) = {h}
    BY OneSectorOwner
  <1>2. (CHOOSE g \in SectorOwners(d, p) : TRUE) = h
    BY <1>1
  <1>3. SectorOwners(d, p) # {}
    BY <1>1
  <1> QED
    BY <1>2, <1>3, DataRegion, Zenon

LEMMA EmptyRegion ==
    ASSUME NEW d \in Drives, NEW p \in Nat, NEW j, p >= d.data_end
    PROVE  PartitionUnit(d, p, j) = Zero
  <1>1. p >= d.data_start
    BY StartsAre, RangesAre
  <1>2. SectorOwners(d, p) = {}
    BY NoSectorOwner
  <1> QED
    BY <1>1, <1>2, DataRegion, Zenon

-----------------------------------------------------------------------------
(* A window: the units of w sectors from sector q on.                      *)
IsWindow(d, q, units) ==
    \A k \in 1..Len(units) : units[k] = ImageUnit(d, q * d.bps + (k - 1))

LEMMA WindowIs ==
    ASSUME NEW d \in Drives, NEW q \in Nat, NEW w \in Nat, NEW units, Len(units) = w * d.bps,
           \A i \in 0..(w - 1), j \in 0..(d.bps - 1) :
               units[(i * d.bps + j) + 1] = SectorUnit(d, q + i, j)
    PROVE  IsWindow(d, q, units)
  <1>1. PICK n \in Nat : n = d.bps /\ n > 0
    BY StartsAre
  <1>2. w * n \in Nat
    OBVIOUS
  <1>3. SUFFICES ASSUME NEW k \in 1..(w * n) PROVE units[k] = ImageUnit(d, q * n + (k - 1))
    BY <1>1 DEF IsWindow
  <1>4. PICK x \in Nat : x = k - 1 /\ x < w * n
    BY <1>2
  <1>5. PICK i \in Nat, j \in 0..(n - 1) : x = i * n + j /\ i < w
    <2>1. n > 0 /\ x < w * n
      BY <1>1, <1>4
    <2>2. PICK i \in Nat, j \in 0..(n - 1) : x = i * n + j /\ \A m \in Nat : x < m * n => i < m
      BY ONLY <2>1, n \in Nat, x \in Nat, Place
    <2> QED
      BY <2>1, <2>2
  <1>6. units[x + 1] = SectorUnit(d, q + i, j)
    <2>1. i \in 0..(w - 1)
      BY <1>5
    <2> QED
      BY <1>1, <1>5, <2>1
  <1>7. x + 1 = k
    BY <1>4
  <1>8. q * n + x = (q + i) * n + j
    <2>1. (q + i) * n = q * n + i * n /\ q * n \in Int /\ i * n \in Int
      BY Distr
    <2> QED
      BY <1>5, <2>1
  <1>9. ImageUnit(d, q * n + x) = SectorUnit(d, q + i, j)
    <2>1. q + i \in Nat
      OBVIOUS
    <2> QED
      BY <1>1, <1>8, <2>1, ImageAt
  <1> QED
    BY <1>4, <1>6, <1>7, <1>9

(* A buffer that holds the image from sector s on, and what is put behind. *)
LEMMA WindowBehind ==
    ASSUME NEW d \in Drives, NEW s \in Nat, NEW c \in Nat, NEW U, NEW a \in Seq(U), NEW u \in Seq(U),
           Len(a) = c * d.bps, IsWindow(d, s, a), IsWindow(d, s + c, u)
    PROVE  IsWindow(d, s, a \o u)
  <1>1. PICK n \in Nat : n = d.bps
    BY StartsAre
  <1>2. PICK x \in Nat, y \in Nat : x = s * n /\ y = c * n
    <2>1. s * n \in Nat /\ c * n \in Nat
      OBVIOUS
    <2> QED
      BY <2>1
  <1>3. (s + c) * n = x + y
    BY <1>2, Distr
  <1>4. /\ Len(a) \in Nat /\ Len(u) \in Nat /\ Len(a \o u) = Len(a) + Len(u)
        /\ \A i \in 1..Len(a) : (a \o u)[i] = a[i]
        /\ \A i \in 1..Len(u) : (a \o u)[Len(a) + i] = u[i]
    BY ONLY a \in Seq(U), u \in Seq(U), JoinedList
  <1>5. PICK m \in Nat : m = Len(u)
    BY <1>4
  <1>6. Len(a) = y
    BY <1>1, <1>2
  <1>7. ASSUME NEW k \in 1..(y + m) PROVE (a \o u)[k] = ImageUnit(d, x + (k - 1))
    <2>1. CASE k <= y
      <3>1. k \in 1..y
        BY <2>1
      <3>2. a[k] = ImageUnit(d, x + (k - 1))
        BY <1>1, <1>2, <1>6, <3>1 DEF IsWindow
      <3> QED
        BY <1>4, <1>6, <3>1, <3>2
    <2>2. CASE ~(k <= y)
      <3>1. PICK i \in 1..m : k = y + i
        <4>1. k - y \in 1..m /\ k = y + (k - y)
          BY <2>2
        <4> QED
          BY <4>1
      <3>2. u[i] = ImageUnit(d, (x + y) + (i - 1))
        BY <1>1, <1>3, <1>5 DEF IsWindow
      <3>3. (x + y) + (i - 1) = x + (k - 1)
        BY <3>1
      <3> QED
        BY <1>4, <1>5, <1>6, <3>1, <3>2, <3>3
    <2> QED
      BY <2>1, <2>2
  <1> QED
    BY <1>1, <1>2, <1>4, <1>5, <1>6, <1>7 DEF IsWindow

LEMMA PartitionWindow ==
    ASSUME NEW d \in Drives, NEW s \in Nat, NEW w \in Nat, NEW units, Len(units) = w * d.bps,
           \A i \in 0..(w - 1), j \in 0..(d.bps - 1) :
               units[(i * d.bps + j) + 1] = PartitionUnit(d, s + i, j)
    PROVE  IsWindow(d, s + d.mbr_sectors, units)
  <1>1. PICK m \in Nat : m = d.mbr_sectors
    BY StartsAre
  <1>2. s + m \in Nat
    OBVIOUS
  <1>3. ASSUME NEW i \in 0..(w - 1), NEW j \in 0..(d.bps - 1)
        PROVE  units[(i * d.bps + j) + 1] = SectorUnit(d, (s + m) + i, j)
    <2>1. PICK p \in Nat : p = s + i
      OBVIOUS
    <2>2. (s + m) + i = p + d.mbr_sectors
      BY <1>1, <2>1
    <2>3. SectorUnit(d, (s + m) + i, j) = PartitionUnit(d, p, j)
      BY <2>2, SectorOfPartition
    <2> QED
      BY <2>1, <2>3
  <1>4. IsWindow(d, s + m, units)
    BY ONLY <1>2, <1>3, d \in Drives, w \in Nat, Len(units) = w * d.bps, WindowIs
  <1> QED
    BY <1>1, <1>4

(* Where a unit of a window is.                                            *)
LEMMA InWindow ==
    ASSUME NEW n \in Nat, NEW w \in Nat, NEW i \in 0..(w - 1), NEW j \in 0..(n - 1)
    PROVE  i \in Nat /\ i * n + j \in Nat /\ (i * n + j) + 1 \in 1..(w * n) /\ w * n \in Nat
  <1>1. (i + 1) * n <= w * n /\ (i + 1) * n = i * n + n
    <2>1. i + 1 \in Int /\ i + 1 <= w
      OBVIOUS
    <2>2. (i + 1) * n <= w * n
      BY <2>1, Distr
    <2> QED
      BY <2>2
  <1>2. i * n \in Nat /\ w * n \in Nat
    OBVIOUS
  <1> QED
    BY <1>1, <1>2

LEMMA PadWindow ==
    ASSUME NEW d \in Drives, NEW s \in Nat, s > 0, NEW w \in Nat, s + w <= d.mbr_sectors
    PROVE  IsWindow(d, s, Zeros(w * d.bps))
  <1>1. PICK n \in Nat, m \in Nat : n = d.bps /\ m = d.mbr_sectors
    BY StartsAre
  <1>2. w * n \in Nat
    OBVIOUS
  <1>3. Len(Zeros(w * n)) = w * n /\ \A k \in 1..(w * n) : Zeros(w * n)[k] = Zero
    BY <1>2, ZerosAre
  <1>4. ASSUME NEW i \in 0..(w - 1), NEW j \in 0..(n - 1)
        PROVE  Zeros(w * n)[(i * n + j) + 1] = SectorUnit(d, s + i, j)
    <2>1. (i * n + j) + 1 \in 1..(w * n)
      BY InWindow
    <2>2. ~(s + i >= m) /\ s + i # 0
      BY <1>1
    <2>3. SectorUnit(d, s + i, j) = Zero
      BY <1>1, <2>2, Zenon DEF SectorUnit
    <2> QED
      BY <1>3, <2>1, <2>3
  <1> QED
    BY <1>1, <1>3, <1>4, WindowIs

LEMMA MbrWindow ==
    ASSUME drv \in Drives, drv.mbr_sectors # 0
    PROVE  IsWindow(drv, 0, MbrUnits)
  <1>1. PICK n \in Nat, m \in Nat : n = drv.bps /\ m = drv.mbr_sectors /\ m # 0
    BY StartsAre
  <1>2. Len(MbrUnits) = 1 * n
    BY <1>1, MbrUnitsAre
  <1>3. ASSUME NEW i \in 0..(1 - 1), NEW j \in 0..(n - 1)
        PROVE  MbrUnits[(i * n + j) + 1] = SectorUnit(drv, 0 + i, j)
    <2>1. i = 0 /\ (i * n + j) + 1 = j + 1 /\ j + 1 \in 1..n /\ (j + 1) - 1 = j
      OBVIOUS
    <2>2. MbrUnits[j + 1] = <<"mbr", j>>
      BY <1>1, <2>1 DEF MbrUnits
    <2>3. ~(0 >= drv.mbr_sectors)
      BY <1>1
    <2>4. SectorUnit(drv, 0, j) = <<"mbr", j>>
      BY <2>3 DEF SectorUnit
    <2> QED
      BY <2>1, <2>2, <2>4
  <1> QED
    <2>1. 0 \in Nat /\ 1 \in Nat
      OBVIOUS
    <2> QED
      BY ONLY <1>1, <1>2, <1>3, <2>1, drv \in Drives, WindowIs

LEMMA BootWindow ==
    ASSUME drv \in Drives, NEW s \in Nat, NEW w \in Nat, s + w <= drv.fat1_start
    PROVE  IsWindow(drv, s + drv.mbr_sectors, BootUnits(s, w))
  <1>1. PICK n \in Nat, f \in Nat : n = drv.bps /\ n > 0 /\ f = drv.fat1_start
    BY StartsAre
  <1>2. Len(BootUnits(s, w)) = w * n
    BY <1>1, BootUnitsAre
  <1>3. ASSUME NEW i \in 0..(w - 1), NEW j \in 0..(n - 1)
        PROVE  BootUnits(s, w)[(i * n + j) + 1] = PartitionUnit(drv, s + i, j)
    <2>1. PICK k \in 1..(w * n) : k = (i * n + j) + 1
      BY InWindow
    <2>2. (k - 1) \div n = i /\ (k - 1) % n = j
      <3>1. PICK x : x = k - 1
        OBVIOUS
      <3>2. x = i * n + j /\ i \in Nat /\ n > 0
        BY <1>1, <2>1, <3>1, InWindow
      <3>3. x \div n = i /\ x % n = j
        BY ONLY <3>2, n \in Nat, j \in 0..(n - 1), PlaceIs
      <3> QED
        BY <3>1, <3>3
    <2>3. BootUnits(s, w)[k] = BootUnit(drv, s + (k - 1) \div n, (k - 1) % n)
      BY <1>1 DEF BootUnits
    <2>4. s + i \in Nat /\ s + i < f
      BY <1>1
    <2>5. PartitionUnit(drv, s + i, j) = BootUnit(drv, s + i, j)
      BY <1>1, <2>4, BootRegion
    <2> QED
      BY <2>1, <2>2, <2>3, <2>5
  <1> QED
    BY ONLY <1>1, <1>2, <1>3, drv \in Drives, s \in Nat, w \in Nat, PartitionWindow

LEMMA RootWindow ==
    ASSUME NEW d \in Drives, NEW s \in Nat, NEW w \in Nat, w > 0, s >= d.root_start, s + w <= d.data_start,
           NEW units, units = read_sector_dir(d, s - d.root_start, w, d.root_dir)
    PROVE  IsWindow(d, s + d.mbr_sectors, units)
  <1>1. PICK n \in Nat, f \in Nat, e \in Nat : n = d.bps /\ f = d.root_start /\ e = d.data_start
    BY StartsAre
  <1>2. PICK g \in Nat : g = s - f
    <2>1. s - f \in Nat
      BY <1>1
    <2> QED
      BY <2>1
  <1>3. PICK o \in Nat : o = g * n
    <2>1. g * n \in Nat
      OBVIOUS
    <2> QED
      BY <2>1
  <1>4. /\ Len(units) = w * n
        /\ \A k \in 1..(w * n) : units[k] = UnitAt(DirUnits(d, d.root_dir), o + k - 1)
    <2>1. Dir(d, d.root_dir)
      BY RangesAre DEF Dir, Shaped
    <2>2. units = read_sector_dir(d, g, w, d.root_dir) /\ w > 0
      BY <1>1, <1>2
    <2>3. PICK room : room = w * d.bps
      OBVIOUS
    <2>4. o = g * d.bps
      BY <1>1, <1>3
    <2>5. PICK dir : dir = d.root_dir
      OBVIOUS
    <2>6. /\ Len(read_sector_dir(d, g, w, dir)) = room
          /\ \A k \in 1..room : read_sector_dir(d, g, w, dir)[k] = UnitAt(DirUnits(d, dir), o + k - 1)
      <3>1. Dir(d, dir) /\ w > 0
        BY <2>1, <2>2, <2>5
      <3> QED
        BY ONLY <2>3, <2>4, <3>1, g \in Nat, w \in Nat, DirWindow
    <2> QED
      BY <1>1, <2>2, <2>3, <2>5, <2>6
  <1>5. ASSUME NEW i \in 0..(w - 1), NEW j \in 0..(n - 1)
        PROVE  units[(i * n + j) + 1] = PartitionUnit(d, s + i, j)
    <2>1. PICK x \in Nat : x = i * n + j /\ x + 1 \in 1..(w * n)
      BY InWindow
    <2>2. s + i \in Nat /\ s + i >= f /\ s + i < e
      BY <1>1
    <2>3. PartitionUnit(d, s + i, j) = UnitAt(DirUnits(d, d.root_dir), ((s + i) - f) * n + j)
      BY <1>1, <2>2, RootRegion
    <2>4. ((s + i) - f) * n + j = o + x
      <3>1. (s + i) - f = g + i
        BY <1>2
      <3>2. (g + i) * n = g * n + i * n
        BY Distr
      <3>3. i * n \in Int
        OBVIOUS
      <3> QED
        BY <1>3, <2>1, <3>1, <3>2, <3>3
    <2>5. units[x + 1] = UnitAt(DirUnits(d, d.root_dir), o + (x + 1) - 1)
      BY <1>4, <2>1
    <2>6. o + (x + 1) - 1 = o + x
      OBVIOUS
    <2> QED
      BY <2>1, <2>3, <2>4, <2>5, <2>6
  <1>6. Len(units) = w * n
    BY <1>4
  <1> QED
    BY ONLY <1>1, <1>5, <1>6, d \in Drives, s \in Nat, w \in Nat, PartitionWindow

LEMMA EmptyWindow ==
    ASSUME NEW d \in Drives, NEW s \in Nat, NEW w \in Nat, s >= d.data_end
    PROVE  IsWindow(d, s + d.mbr_sectors, Zeros(w * d.bps))
  <1>1. PICK n \in Nat, e \in Nat : n = d.bps /\ e = d.data_end
    BY StartsAre, RangesAre
  <1>2. w * n \in Nat
    OBVIOUS
  <1>3. Len(Zeros(w * n)) = w * n /\ \A k \in 1..(w * n) : Zeros(w * n)[k] = Zero
    BY <1>2, ZerosAre
  <1>4. ASSUME NEW i \in 0..(w - 1), NEW j \in 0..(n - 1)
        PROVE  Zeros(w * n)[(i * n + j) + 1] = PartitionUnit(d, s + i, j)
    <2>1. (i * n + j) + 1 \in 1..(w * n)
      BY InWindow
    <2>2. s + i \in Nat /\ s + i >= e
      BY <1>1
    <2>3. PartitionUnit(d, s + i, j) = Zero
      BY <1>1, <2>2, EmptyRegion
    <2> QED
      BY <1>3, <2>1, <2>3
  <1>5. Len(Zeros(w * n)) = w * n
    BY <1>3
  <1> QED
    BY ONLY <1>1, <1>4, <1>5, d \in Drives, s \in Nat, w \in Nat, PartitionWindow

LEMMA FileWindow ==
    ASSUME NEW h, NEW s, NEW a, NEW e, NEW n, NEW w, NEW o, TurnOf(h, s, a, e, n, w, o),
           s >= drv.data_start, NEW i \in 1..Len(drv.ranges), h = drv.ranges[i].file,
           a = drv.ranges[i].sectstart, e = drv.ranges[i].sectend
    PROVE  IsWindow(drv, s + drv.mbr_sectors, DataUnits(h, s, w))
  <1>1. /\ drv \in Drives /\ s \in Nat /\ rem \in Nat /\ rem > 0 /\ a \in Nat /\ e \in Nat /\ n \in Nat
        /\ a = drv.file[h].startsect /\ a <= s /\ s < e /\ n = drv.bps
        /\ w = Min2(e - s, rem) /\ o = (s - a) * n
    BY DEF TurnOf
  <1>2. PICK units : units = DataUnits(h, s, w)
    OBVIOUS
  <1>3. /\ w \in Nat /\ o \in Nat /\ Len(DataUnits(h, s, w)) = w * n
        /\ \A k \in 1..(w * n) :
              DataUnits(h, s, w)[k] =
                IF drv.file[h].kind = "dir" THEN UnitAt(DirUnits(drv, h), o + k - 1)
                ELSE IF o + k - 1 < Min2(drv.file[h].size, drv.file[h].disk)
                     THEN <<"data", h, o + k - 1>> ELSE Zero
    BY ONLY TurnOf(h, s, a, e, n, w, o), DataUnitsAre
  <1>4. w \in Nat /\ Len(units) = w * n /\ \A k \in 1..(w * n) : units[k] = UnitOfFile(drv, h, o + k - 1)
    BY <1>2, <1>3, Zenon DEF UnitOfFile
  <1>10. s \in Nat /\ a \in Nat /\ e \in Nat /\ n \in Nat /\ w \in Nat /\ o \in Nat /\ a <= s
    BY <1>1, <1>3
  <1>5. w <= e - s
    <2>1. w = Min2(e - s, rem) /\ rem \in Nat /\ s < e
      BY <1>1
    <2> QED
      BY ONLY <1>10, <2>1 DEF Min2
  <1>6. PICK f \in Nat : f = drv.data_start
    BY <1>1, StartsAre
  <1>7. ASSUME NEW x \in 0..(w - 1), NEW j \in 0..(n - 1)
        PROVE  units[(x * n + j) + 1] = PartitionUnit(drv, s + x, j)
    <2>1. PICK y \in Nat : y = x * n + j /\ y + 1 \in 1..(w * n)
      BY <1>1, <1>4, InWindow
    <2>2. PICK p \in Nat : p = s + x /\ p >= f /\ a <= p /\ p < e
      <3>1. s >= f
        BY <1>6
      <3>2. s + x \in Nat /\ s + x >= f /\ a <= s + x /\ s + x < e
        BY ONLY <1>5, <1>10, <3>1, x \in 0..(w - 1), f \in Nat
      <3> QED
        BY ONLY <3>2
    <2>3. PartitionUnit(drv, p, j) = UnitOfFile(drv, h, (p - a) * n + j)
      <3>1. /\ drv \in Drives /\ p >= drv.data_start /\ drv.ranges[i].sectstart <= p
            /\ p < drv.ranges[i].sectend /\ h = drv.ranges[i].file
        BY <1>1, <1>6, <2>2
      <3>2. PartitionUnit(drv, p, j) = UnitOfFile(drv, h, (p - drv.file[h].startsect) * drv.bps + j)
        BY ONLY <3>1, p \in Nat, i \in 1..Len(drv.ranges), FileRegion
      <3> QED
        BY <1>1, <3>2, Zenon
    <2>4. (p - a) * n + j = o + y
      <3>1. PICK g \in Int : g = s - a
        BY ONLY <1>10
      <3>2. p - a = g + x
        <4>1. p = s + x
          BY <2>2
        <4> QED
          BY ONLY <1>10, <3>1, <4>1, x \in 0..(w - 1)
      <3>3. (g + x) * n = g * n + x * n /\ g * n \in Int /\ x * n \in Int
        BY ONLY <1>10, x \in 0..(w - 1), g \in Int, Distr
      <3>4. o = g * n /\ y = x * n + j
        BY <1>1, <2>1, <3>1
      <3>5. PICK u \in Int, v \in Int : u = g * n /\ v = x * n
        BY ONLY <3>3
      <3>6. (p - a) * n = u + v
        BY ONLY <3>2, <3>3, <3>5, Zenon
      <3>7. o = u /\ y = v + j /\ j \in Int
        BY ONLY <3>4, <3>5, <1>10, j \in 0..(n - 1)
      <3> QED
        BY ONLY <3>6, <3>7, u \in Int, v \in Int
    <2>5. units[y + 1] = UnitOfFile(drv, h, o + (y + 1) - 1)
      BY <1>4, <2>1
    <2>6. o + (y + 1) - 1 = o + y
      BY <1>3
    <2> QED
      BY <2>1, <2>2, <2>3, <2>4, <2>5, <2>6
  <1>8. Len(units) = w * n /\ n = drv.bps /\ drv \in Drives
    BY <1>1, <1>4
  <1>9. IsWindow(drv, s + drv.mbr_sectors, units)
    <2>1. s \in Nat /\ w \in Nat
      BY <1>10
    <2> QED
      BY ONLY <1>7, <1>8, <2>1, PartitionWindow
  <1> QED
    BY <1>2, <1>9

(* The entry of a FAT in the image.                                        *)
Table(d, start, limit) ==
    \/ start = d.fat1_start /\ limit = d.fat2_start
    \/ start = d.fat2_start /\ limit = d.root_start

LEMMA FatPlace ==
    ASSUME NEW d \in Drives, NEW start, NEW limit, Table(d, start, limit),
           NEW x \in Nat, x < (limit - start) * d.bps,
           NEW b, b = (start + d.mbr_sectors) * d.bps + x
    PROVE  ImageUnit(d, b) = FatEntry(d, x)
  <1>1. PICK n \in Nat, m \in Nat : n = d.bps /\ n > 0 /\ m = d.mbr_sectors
    BY StartsAre
  <1>2. start \in Nat /\ limit \in Nat /\ limit - start \in Nat
    BY StartsAre DEF Table
  <1>3. PICK c \in Nat : c = limit - start
    BY <1>2
  <1>4. PICK i \in Nat, j \in 0..(n - 1) : x = i * n + j /\ i < c
    <2>1. n > 0 /\ x < c * n
      BY <1>1, <1>3
    <2>2. PICK i \in Nat, j \in 0..(n - 1) : x = i * n + j /\ \A z \in Nat : x < z * n => i < z
      BY ONLY <2>1, n \in Nat, x \in Nat, Place
    <2> QED
      BY <2>1, <2>2
  <1>5. PICK p \in Nat, q \in Nat : p = start + i /\ q = p + m
    <2>1. start + i \in Nat /\ (start + i) + m \in Nat
      BY <1>2
    <2> QED
      BY <2>1
  <1>6. b = q * n + j
    <2>1. PICK g \in Nat : g = start + m /\ q = g + i
      <3>1. start + m \in Nat /\ q = (start + m) + i
        BY <1>2, <1>5
      <3> QED
        BY <3>1
    <2>2. (g + i) * n = g * n + i * n /\ g * n \in Int /\ i * n \in Int
      BY Distr
    <2>3. b = g * n + x
      BY <1>1, <2>1
    <2> QED
      BY <1>4, <2>1, <2>2, <2>3
  <1>7. ImageUnit(d, b) = SectorUnit(d, q, j)
    BY <1>1, <1>6, ImageAt
  <1>8. SectorUnit(d, q, j) = PartitionUnit(d, p, j)
    BY <1>1, <1>5, SectorOfPartition
  <1>9. PartitionUnit(d, p, j) = FatEntry(d, (p - start) * n + j)
    <2>1. p >= start /\ p < limit
      BY <1>2, <1>3, <1>4, <1>5
    <2> QED
      BY <1>1, <2>1, FatRegion DEF Table
  <1>10. p - start = i
    BY <1>2, <1>5
  <1> QED
    BY <1>4, <1>7, <1>8, <1>9, <1>10

(* The two entries that are written before the loop.                       *)
LEMMA HeadWindow ==
    ASSUME NEW d \in Drives, NEW start, NEW limit, Table(d, start, limit),
           NEW s \in Nat, start <= s, s < limit, NEW g \in Nat, g = s - start
    PROVE  IsWindow(d, s + d.mbr_sectors, FatHead(g))
  <1>1. PICK n \in Nat, m \in Nat : n = d.bps /\ n >= 2 /\ m = d.mbr_sectors
    BY StartsAre, RangesAre DEF Shaped
  <1>2. start \in Nat /\ limit \in Nat
    BY StartsAre DEF Table
  <1>3. CASE g = 0
    <2>1. s = start /\ limit - start \in Nat /\ limit - start > 0
      BY <1>2, <1>3
    <2>2. PICK c \in Nat : c = limit - start /\ c > 0
      BY <2>1
    <2>3. c * n \in Nat /\ c * n >= n
      BY <2>2, Rows
    <2>4. FatHead(g) = <<<<"media">>, <<"reserved">>>>
      BY <1>3 DEF FatHead
    <2>5. PICK z \in Nat : z = (start + m) * n
      <3>1. start + m \in Nat
        BY <1>2
      <3>2. (start + m) * n \in Nat
        BY <3>1, Distr
      <3> QED
        BY <3>2
    <2>6. ASSUME NEW k \in 1..2 PROVE ImageUnit(d, z + (k - 1)) = FatEntry(d, k - 1)
      <3>1. PICK x \in Nat : x = k - 1 /\ x < c * n
        BY <1>1, <2>3
      <3>2. ImageUnit(d, z + x) = FatEntry(d, x)
        BY <1>1, <2>2, <2>5, <3>1, FatPlace
      <3> QED
        BY <3>1, <3>2
    <2>7. FatEntry(d, 0) = <<"media">> /\ FatEntry(d, 1) = <<"reserved">>
      <3>1. 0 # 1 /\ ~(0 > 1) /\ ~(1 > 1)
        OBVIOUS
      <3> QED
        BY <3>1, Zenon DEF FatEntry
    <2>8. ImageUnit(d, z + (1 - 1)) = <<"media">> /\ ImageUnit(d, z + (2 - 1)) = <<"reserved">>
      <3>1. 1 \in 1..2 /\ 2 \in 1..2 /\ 1 - 1 = 0 /\ 2 - 1 = 1
        OBVIOUS
      <3>2. ImageUnit(d, z + (1 - 1)) = FatEntry(d, 1 - 1) /\ ImageUnit(d, z + (2 - 1)) = FatEntry(d, 2 - 1)
        BY <2>6, <3>1
      <3> QED
        BY <2>7, <3>1, <3>2
    <2>9. (s + d.mbr_sectors) * d.bps = z
      BY <1>1, <2>1, <2>5
    <2>10. Len(FatHead(g)) = 2 /\ FatHead(g)[1] = <<"media">> /\ FatHead(g)[2] = <<"reserved">>
      BY <2>4
    <2>11. \A k \in 1..2 : k = 1 \/ k = 2
      OBVIOUS
    <2> QED
      BY <2>8, <2>9, <2>10, <2>11 DEF IsWindow
  <1>4. CASE g # 0
    <2>1. FatHead(g) = <<>> /\ Len(FatHead(g)) = 0
      BY <1>4 DEF FatHead
    <2> QED
      BY <2>1 DEF IsWindow
  <1> QED
    BY <1>3, <1>4

-----------------------------------------------------------------------------
(* The inductive invariant.  The buffer of vdf_read_sectors() holds the    *)
(* image from its first sector on.                                         *)
OutIs == pc # "idle" => IsWindow(drv, soff, out)

(* The FAT that the loop of read_sector_fat() is in, and the entry of it   *)
(* that comes next: the loop follows the right chain.                      *)
TableStart == IF pc = "chain1" THEN drv.fat1_start ELSE drv.fat2_start
TableEnd   == IF pc = "chain1" THEN drv.fat2_start ELSE drv.root_start

ChainIs ==
    pc \in Chains =>
        /\ TableStart <= sector /\ sector <= TableEnd
        /\ \E x \in Nat : /\ x >= 2 /\ x + left = (sector - TableStart) * drv.bps
                          /\ Follows(drv, fat, x)

(* What vdf_read_bytes() has returned, and where it is to go on.           *)
ResultIs ==
    /\ \A i \in 1..Len(result) : result[i] = ImageUnit(drv, req.off + (i - 1))
    /\ req.off + Len(result) <= Bytes
    /\ phase = "head" => result = <<>> /\ soff = req.off \div drv.bps
    /\ phase \in {"body", "tail"} => Left = 0 \/ req.off + Len(result) = soff * drv.bps
    /\ phase = "done" => Len(result) = Min2(req.cnt, Bytes - req.off)

ImageInv ==
    FilesFit(drv) => StepInv /\ (AllHaveRanges(drv) => OutIs /\ ChainIs /\ ResultIs)

(* Steps inside vdf_read_sectors() leave the result alone.                 *)
LEMMA ResultStays ==
    ASSUME ResultIs, UNCHANGED <<drv, req, result, soff>>, phase' = phase \/ phase' = "error"
    PROVE  ResultIs'
  BY DEF ResultIs, Bytes, Left

(* The buffer grows by a window.                                           *)
LEMMA OutGrows ==
    ASSUME StepInv, OutIs, pc # "idle", left = 0, NEW c \in Nat, c = Written,
           NEW units \in Seq(Units(drv)), IsWindow(drv, soff + c, units),
           out' = out \o units, UNCHANGED <<drv, soff>>
    PROVE  OutIs'
  <1>1. drv \in Drives /\ soff \in Nat /\ out \in Seq(Units(drv))
    BY DEF StepInv, Types
  <1>2. Len(out) = c * drv.bps
    BY LengthIs
  <1>3. IsWindow(drv, soff, out) /\ IsWindow(drv, soff + c, units)
    BY DEF OutIs
  <1>4. IsWindow(drv, soff, out \o units)
    BY ONLY <1>1, <1>2, <1>3, c \in Nat, units \in Seq(Units(drv)), WindowBehind
  <1> QED
    BY <1>4 DEF OutIs, IsWindow

LEMMA OutStays ==
    ASSUME OutIs, pc # "idle", UNCHANGED <<drv, soff, out>>
    PROVE  OutIs'
  BY DEF OutIs, IsWindow

(* A region that is written in one piece.                                  *)
LEMMA RegionImage ==
    ASSUME StepInv, OutIs, NEW r, NEW limit \in Nat, NEW units, NEW next, Region(r, limit, units, next),
           r \in {"pad", "boot", "root"}, next \in {"partition", "fat1", "data"},
           sector < limit => /\ units \in Seq(Units(drv))
                             /\ IsWindow(drv, Dev, units)
    PROVE  OutIs' /\ ChainIs'
  <1>0. /\ drv \in Drives /\ sector \in Nat /\ cnt \in Nat /\ pc = r /\ pc # "idle" /\ left = 0
        /\ Dev = soff + cnt
    BY DEF StepInv, Types, Counted, Walking, Chains, Region
  <1>1. ChainIs'
    BY DEF ChainIs, Chains, Region
  <1>2. CASE sector < limit
    <2>1. out' = out \o units /\ drv' = drv /\ soff' = soff
      BY <1>2 DEF Region
    <2>2. cnt = Written
      BY <1>0 DEF Written
    <2>3. units \in Seq(Units(drv)) /\ IsWindow(drv, soff + cnt, units)
      BY <1>0, <1>2
    <2> QED
      BY <1>0, <1>1, <2>1, <2>2, <2>3, OutGrows
  <1>3. CASE ~(sector < limit)
    <2>1. UNCHANGED <<drv, soff, out>>
      BY <1>3 DEF Region
    <2> QED
      BY <1>0, <1>1, <2>1, OutStays
  <1> QED
    BY <1>2, <1>3

LEMMA PadImage ==
    ASSUME StepInv, OutIs, ReadPad
    PROVE  OutIs' /\ ChainIs'
  <1>1. /\ drv \in Drives /\ sector \in Nat /\ rem \in Nat /\ rem > 0 /\ pc = "pad"
        /\ drv.mbr_sectors \in Nat /\ drv.bps \in Nat
        /\ drv.mbr_sectors = 0 \/ sector > 0
    BY DriveIs DEF StepInv, Types, ReadPad, Region, Counted, Walking, InRegion
  <1>2. ASSUME sector < drv.mbr_sectors
        PROVE  /\ Zeros(WantBelow(drv.mbr_sectors) * drv.bps) \in Seq(Units(drv))
               /\ IsWindow(drv, Dev, Zeros(WantBelow(drv.mbr_sectors) * drv.bps))
    <2>1. PICK w \in Nat : w = WantBelow(drv.mbr_sectors) /\ sector + w <= drv.mbr_sectors
      BY <1>1, <1>2, WantIs
    <2>2. w * drv.bps \in Nat
      BY <1>1, Distr
    <2>3. sector > 0
      BY <1>1, <1>2
    <2>4. Dev = sector
      BY <1>1 DEF Dev
    <2>5. IsWindow(drv, sector, Zeros(w * drv.bps))
      BY <1>1, <2>1, <2>3, PadWindow
    <2> QED
      BY <2>1, <2>2, <2>4, <2>5, ZerosAre
  <1> QED
    BY <1>1, <1>2, RegionImage DEF ReadPad

LEMMA BootImage ==
    ASSUME StepInv, OutIs, ReadBoot
    PROVE  OutIs' /\ ChainIs'
  <1>1. /\ drv \in Drives /\ sector \in Nat /\ rem \in Nat /\ rem > 0 /\ pc = "boot"
        /\ drv.fat1_start \in Nat
    BY DriveIs DEF StepInv, Types, ReadBoot, Region, Counted, Walking
  <1>2. ASSUME sector < drv.fat1_start
        PROVE  /\ BootUnits(sector, WantBelow(drv.fat1_start)) \in Seq(Units(drv))
               /\ IsWindow(drv, Dev, BootUnits(sector, WantBelow(drv.fat1_start)))
    <2>1. PICK w \in Nat : w = WantBelow(drv.fat1_start) /\ sector + w <= drv.fat1_start
      BY <1>1, <1>2, WantIs
    <2>2. Dev = sector + drv.mbr_sectors
      BY <1>1 DEF Dev
    <2>3. BootUnits(sector, w) \in Seq(Units(drv))
      BY <1>1, BootUnitsAre
    <2>4. IsWindow(drv, sector + drv.mbr_sectors, BootUnits(sector, w))
      BY <1>1, <2>1, BootWindow
    <2> QED
      BY <2>1, <2>2, <2>3, <2>4
  <1> QED
    BY <1>1, <1>2, RegionImage DEF ReadBoot

LEMMA RootImage ==
    ASSUME StepInv, OutIs, ReadRoot
    PROVE  OutIs' /\ ChainIs'
  <1>1. /\ drv \in Drives /\ sector \in Nat /\ rem \in Nat /\ rem > 0 /\ pc = "root"
        /\ drv.root_start \in Nat /\ drv.data_start \in Nat /\ RootEnd \in Nat
        /\ sector >= drv.root_start
        /\ RootEnd = drv.data_start \/ RootEnd = 0
    BY DriveIs DEF StepInv, Types, ReadRoot, Region, Counted, Walking, InRegion
  <1> DEFINE units == read_sector_dir(drv, sector - drv.root_start, WantBelow(RootEnd), drv.root_dir)
  <1>2. ASSUME sector < RootEnd
        PROVE  units \in Seq(Units(drv)) /\ IsWindow(drv, Dev, units)
    <2>1. PICK w \in Nat : w = WantBelow(RootEnd) /\ sector + w <= RootEnd /\ w > 0
      BY <1>1, <1>2, WantIs
    <2>2. Dev = sector + drv.mbr_sectors
      BY <1>1 DEF Dev
    <2>3. RootEnd = drv.data_start
      BY <1>1, <1>2
    <2>4. PICK g \in Nat : g = sector - drv.root_start
      <3>1. sector - drv.root_start \in Nat
        BY <1>1
      <3> QED
        BY <3>1
    <2>5. units = read_sector_dir(drv, g, w, drv.root_dir)
      BY <2>1, <2>4
    <2>6. read_sector_dir(drv, g, w, drv.root_dir) \in Seq(Units(drv))
      <3>1. PICK dir, x, y : dir = drv.root_dir /\ x = g * drv.bps /\ y = w * drv.bps
        OBVIOUS
      <3>2. Dir(drv, dir) /\ w > 0
        BY <1>1, <2>1, <3>1, RootIsDir
      <3>3. read_sector_dir(drv, g, w, dir) \in Seq(Units(drv))
        BY ONLY <3>1, <3>2, g \in Nat, w \in Nat, DirWindow
      <3> QED
        BY <3>1, <3>3
    <2>7. IsWindow(drv, sector + drv.mbr_sectors, units)
      <3>1. sector + w <= drv.data_start /\ w > 0 /\ units = read_sector_dir(drv, sector - drv.root_start, w, drv.root_dir)
        BY <2>1, <2>3
      <3> HIDE DEF units
      <3> QED
        BY ONLY <1>1, <3>1, w \in Nat, RootWindow
    <2> QED
      BY <2>2, <2>5, <2>6, <2>7
  <1> HIDE DEF units
  <1>3. Region("root", RootEnd, units, "data")
    BY DEF ReadRoot, units
  <1> QED
    BY <1>1, <1>2, <1>3, RegionImage

LEMMA MbrImage ==
    ASSUME StepInv, OutIs, ReadMbr
    PROVE  OutIs' /\ ChainIs'
  <1>0. /\ drv \in Drives /\ sector \in Nat /\ cnt \in Nat /\ soff \in Nat /\ pc = "mbr" /\ left = 0
        /\ Dev = soff + cnt /\ cnt = 0
    BY DEF StepInv, Types, Counted, Walking, Chains, ReadMbr, InRegion
  <1>1. ChainIs'
    BY DEF ChainIs, Chains, ReadMbr
  <1>2. CASE drv.mbr_sectors = 0 \/ sector # 0
    <2>1. UNCHANGED <<drv, soff, out>>
      BY <1>2 DEF ReadMbr
    <2> QED
      BY <1>0, <1>1, <2>1, OutStays
  <1>3. CASE ~(drv.mbr_sectors = 0 \/ sector # 0)
    <2>1. out' = out \o MbrUnits /\ drv' = drv /\ soff' = soff
      BY <1>3 DEF ReadMbr
    <2>2. soff + 0 = 0 /\ 0 = Written
      BY <1>0, <1>3 DEF Dev, Written
    <2>3. MbrUnits \in Seq(Units(drv)) /\ IsWindow(drv, soff + 0, MbrUnits)
      <3>1. MbrUnits \in Seq(Units(drv))
        BY <1>0, MbrUnitsAre
      <3>2. IsWindow(drv, 0, MbrUnits)
        BY <1>0, <1>3, MbrWindow
      <3> QED
        BY <2>2, <3>1, <3>2
    <2>4. pc # "idle" /\ 0 \in Nat
      BY <1>0
    <2> QED
      BY <1>0, <1>1, <2>1, <2>2, <2>3, <2>4, OutGrows
  <1> QED
    BY <1>2, <1>3

LEMMA QuietImage ==
    ASSUME StepInv, OutIs, LeaveMbr \/ LeaveFat \/ EnterData \/ LeaveData
    PROVE  OutIs' /\ ChainIs'
  <1>1. pc # "idle" /\ UNCHANGED <<drv, soff, out>> /\ pc' \notin Chains
    BY DEF LeaveMbr, LeaveFat, EnterData, LeaveData, Chains
  <1> QED
    BY <1>1, OutStays DEF ChainIs

(* Before the loop of read_sector_fat(): the search finds the chain that   *)
(* the first entry belongs to.                                             *)
LEMMA EnterFatImage ==
    ASSUME StepInv, AllHaveRanges(drv), OutIs, NEW r, NEW base, NEW limit, NEW loop, NEW next,
           EnterFat(r, base, limit, loop, next),
           \/ r = "fat1" /\ base = drv.fat1_start /\ limit = drv.fat2_start /\ loop = "chain1" /\ next = "fat2"
           \/ r = "fat2" /\ base = drv.fat2_start /\ limit = drv.root_start /\ loop = "chain2" /\ next = "root"
    PROVE  OutIs' /\ ChainIs'
  <1>0. /\ drv \in Drives /\ sector \in Nat /\ rem \in Nat /\ cnt \in Nat /\ soff \in Nat
        /\ pc = r /\ pc # "idle" /\ left = 0 /\ rem > 0 /\ sector >= base
        /\ Dev = soff + cnt /\ Dev = sector + drv.mbr_sectors /\ Written = cnt
    BY DEF StepInv, Types, Counted, Walking, Chains, EnterFat, InRegion, Dev, Written
  <1>1. base \in Nat /\ limit \in Nat /\ Table(drv, base, limit)
    BY <1>0, StartsAre DEF Table
  <1>2. CASE ~(sector < limit)
    <2>1. UNCHANGED <<drv, soff, out>> /\ pc' = next
      BY <1>2 DEF EnterFat
    <2>2. pc' \notin Chains
      BY <2>1 DEF Chains
    <2> QED
      BY <1>0, <2>1, <2>2, OutStays DEF ChainIs
  <1>3. CASE sector < limit
    <2>1. PICK w \in Nat : w = WantBelow(limit) /\ 0 < w /\ sector + w <= limit
      BY <1>0, <1>1, <1>3, WantIs
    <2>2. PICK g \in Nat : g = sector - base
      <3>1. sector - base \in Nat
        BY <1>0, <1>1
      <3> QED
        BY <3>1
    <2>3. /\ out' = out \o FatHead(g) /\ fat' = FatStart(drv, g)
          /\ left' = w * drv.bps - Len(FatHead(g)) /\ sector' = sector + w /\ pc' = loop
          /\ drv' = drv /\ soff' = soff
      BY <1>3, <2>1, <2>2 DEF EnterFat
    <2>4. PICK n \in Nat : n = drv.bps /\ n >= 2
      BY <1>0, DriveIs
    <2>5. OutIs'
      <3>1. FatHead(g) \in Seq(Units(drv))
        BY FatHeadIs
      <3>2. base <= sector /\ sector < limit
        BY <1>0, <1>1, <1>3
      <3>3. IsWindow(drv, sector + drv.mbr_sectors, FatHead(g))
        BY ONLY <1>0, <1>1, <2>2, <3>2, g \in Nat, HeadWindow
      <3>4. IsWindow(drv, soff + cnt, FatHead(g))
        BY <1>0, <3>3
      <3> QED
        BY <1>0, <2>3, <3>1, <3>4, OutGrows
    <2>6. PICK x \in Nat : x = (IF g = 0 THEN 2 ELSE g * n) /\ x >= 2 /\ x = g * n + Len(FatHead(g))
      <3>1. CASE g = 0
        <4>1. Len(FatHead(g)) = 2 /\ g * n = 0
          BY <3>1, FatHeadIs
        <4>2. 2 = (IF g = 0 THEN 2 ELSE g * n) /\ 2 = g * n + Len(FatHead(g))
          <5>1. 0 + 2 = 2
            OBVIOUS
          <5> QED
            BY ONLY <3>1, <4>1, <5>1, Zenon
        <4>3. 2 \in Nat /\ 2 >= 2
          OBVIOUS
        <4> QED
          BY ONLY <4>2, <4>3
      <3>2. CASE g # 0
        <4>1. Len(FatHead(g)) = 0
          BY <3>2, FatHeadIs
        <4>2. g * n \in Nat /\ g * n >= n
          BY <3>2, Rows
        <4> QED
          BY <2>4, <3>2, <4>1, <4>2
      <3> QED
        BY <3>1, <3>2
    <2>7. Follows(drv, fat', x)
      <3>1. x = (IF g = 0 THEN 2 ELSE g * drv.bps) /\ x >= 2
        BY <2>4, <2>6
      <3>2. Follows(drv, FatStart(drv, g), x)
        BY ONLY <1>0, <3>1, AllHaveRanges(drv), g \in Nat, x \in Nat, FollowStart
      <3> QED
        BY <2>3, <3>2
    <2>8. TableStart' = base /\ TableEnd' = limit
      BY <2>3 DEF TableStart, TableEnd
    <2>9. sector' \in Nat /\ base <= sector' /\ sector' <= limit /\ sector' - base = g + w
      <3>1. sector' = sector + w /\ sector \in Nat /\ sector >= base
        BY <1>0, <2>3
      <3> QED
        BY ONLY <1>1, <2>1, <2>2, <3>1, w \in Nat, g \in Nat
    <2>10. x + left' = (sector' - base) * n
      <3>1. (g + w) * n = g * n + w * n /\ g * n \in Int /\ w * n \in Int
        BY Distr
      <3>2. PICK k \in Int : k = Len(FatHead(g))
        BY FatHeadIs
      <3>3. left' = w * n - k /\ x = g * n + k
        BY <2>3, <2>4, <2>6, <3>2
      <3>4. PICK u \in Int, v \in Int : u = g * n /\ v = w * n
        BY <3>1
      <3>5. left' = v - k /\ x = u + k
        BY <3>3, <3>4
      <3>6. x + left' = u + v
        BY ONLY <3>5, u \in Int, v \in Int, k \in Int
      <3> QED
        BY <2>9, <3>1, <3>4, <3>6
    <2>11. ChainIs'
      <3>1. drv' = drv /\ drv.bps = n
        BY <2>3, <2>4
      <3>2. /\ TableStart' <= sector' /\ sector' <= TableEnd'
            /\ x + left' = (sector' - TableStart') * drv'.bps /\ Follows(drv', fat', x)
        BY <2>7, <2>8, <2>9, <2>10, <3>1
      <3> QED
        BY <2>6, <3>2 DEF ChainIs
    <2> QED
      BY <2>5, <2>11
  <1> QED
    BY <1>2, <1>3

(* One turn of the loop: it writes the entry that the image has there.     *)
LEMMA FatTurnImage ==
    ASSUME StepInv, AllHaveRanges(drv), FilesFit(drv), OutIs, ChainIs, FatTurn
    PROVE  OutIs' /\ ChainIs'
  <1>0. /\ drv \in Drives /\ out \in Seq(Units(drv)) /\ left \in Nat /\ left > 0 /\ pc \in Chains
        /\ fat \in [ent : Nat, clust : Nat, file : Int] /\ cnt \in Nat /\ soff \in Nat /\ sector \in Nat
        /\ sector + drv.mbr_sectors = soff + cnt /\ pc # "idle"
    BY DEF StepInv, Types, FatTurn, Chains, Counted, Dev
  <1>1. /\ out' = Append(out, FatUnit(drv, fat)) /\ fat' = FatNext(drv, fat) /\ left' = left - 1
        /\ UNCHANGED <<drv, soff, pc, sector>>
    BY DEF FatTurn
  <1>2. PICK n \in Nat, m \in Nat, b \in Nat, e \in Nat :
          n = drv.bps /\ n > 0 /\ m = drv.mbr_sectors /\ b = TableStart /\ e = TableEnd
    <2>1. TableStart \in Nat /\ TableEnd \in Nat
      BY <1>0, StartsAre DEF TableStart, TableEnd
    <2> QED
      BY <1>0, <2>1, StartsAre
  <1>3. Table(drv, b, e)
    BY <1>0, <1>2 DEF Table, TableStart, TableEnd, Chains
  <1>4. b <= sector /\ sector <= e
    BY <1>0, <1>2 DEF ChainIs
  <1>5. PICK x \in Nat : x >= 2 /\ x + left = (sector - b) * n /\ Follows(drv, fat, x)
    BY <1>0, <1>2 DEF ChainIs
  <1>6. FatUnit(drv, fat) = FatEntry(drv, x) /\ Follows(drv, fat', x + 1)
    <2>1. x >= 2 /\ Follows(drv, fat, x) /\ drv \in Drives /\ fat \in [ent : Nat, clust : Nat, file : Int]
      BY <1>0, <1>5
    <2>2. FatUnit(drv, fat) = FatEntry(drv, x) /\ Follows(drv, FatNext(drv, fat), x + 1)
      BY ONLY <2>1, AllHaveRanges(drv), FilesFit(drv), x \in Nat, FollowTurn
    <2> QED
      BY <1>1, <2>2
  <1>7. PICK z \in Nat, y \in Nat, k \in Nat : z = sector * n /\ y = b * n /\ k = m * n
    <2>1. sector * n \in Nat /\ b * n \in Nat /\ m * n \in Nat
      BY <1>0, Distr
    <2> QED
      BY <2>1
  <1>8. x + left = z - y /\ (b + m) * n = y + k
    <2>1. (sector - b) * n = sector * n - b * n /\ (b + m) * n = b * n + m * n
      BY <1>0, Distr
    <2> QED
      BY <1>5, <1>7, <2>1
  <1>9. x < (e - b) * n
    <2>1. sector - b <= e - b /\ sector - b \in Int /\ e - b \in Int
      BY <1>0, <1>4
    <2>2. (sector - b) * n <= (e - b) * n /\ (e - b) * n \in Int
      BY <2>1, Distr
    <2>3. x + left <= (e - b) * n
      BY <1>5, <2>2
    <2>4. left \in Nat /\ left > 0
      BY <1>0
    <2>5. PICK u \in Int : u = (e - b) * n
      BY <2>2
    <2> QED
      BY ONLY <2>3, <2>4, <2>5, x \in Nat, u \in Int
  <1>10. PICK p \in Nat, v \in Nat : p = soff * n /\ v = cnt * n
    <2>1. soff * n \in Nat /\ cnt * n \in Nat
      BY <1>0, Distr
    <2> QED
      BY <2>1
  <1>11. z + k = p + v
    <2>1. sector + m = soff + cnt
      BY <1>0, <1>2
    <2>2. (sector + m) * n = sector * n + m * n /\ (soff + cnt) * n = soff * n + cnt * n
      BY <1>0, Distr
    <2> QED
      BY <1>7, <1>10, <2>1, <2>2
  <1>12. PICK l \in Nat : l = Len(out) /\ l = v - left
    <2>1. Written = cnt
      BY <1>0 DEF Written, Chains
    <2>2. Len(out) = cnt * n - left /\ Len(out) \in Nat
      BY <1>0, <1>2, <2>1, LenProperties DEF StepInv, InStep
    <2> QED
      BY <1>10, <2>2
  <1>13. p + l = (y + k) + x
    <2>1. left \in Nat
      BY <1>0
    <2> QED
      BY ONLY <2>1, <1>8, <1>11, <1>12, x \in Nat, z \in Nat, y \in Nat, k \in Nat, p \in Nat, v \in Nat, l \in Nat
  <1>14. ImageUnit(drv, p + l) = FatUnit(drv, fat)
    <2>1. p + l = (b + drv.mbr_sectors) * drv.bps + x /\ x < (e - b) * drv.bps /\ drv \in Drives
      BY <1>0, <1>2, <1>8, <1>9, <1>13
    <2>2. ImageUnit(drv, p + l) = FatEntry(drv, x)
      BY ONLY <1>3, <2>1, x \in Nat, FatPlace
    <2> QED
      BY <1>6, <2>2
  <1>15. OutIs'
    <2>1. FatUnit(drv, fat) \in Units(drv)
      BY <1>0, DriveIs, FatNextIs
    <2>2. /\ Len(out') = l + 1 /\ out'[l + 1] = FatUnit(drv, fat)
          /\ \A i \in 1..l : out'[i] = out[i]
      <3>1. PICK u : u = FatUnit(drv, fat)
        OBVIOUS
      <3>2. out \in Seq(Units(drv)) /\ u \in Units(drv)
        BY <1>0, <2>1, <3>1
      <3>3. /\ Len(Append(out, u)) = Len(out) + 1 /\ Append(out, u)[Len(out) + 1] = u
            /\ \A i \in 1..Len(out) : Append(out, u)[i] = out[i]
        BY ONLY <3>2, AppendProperties
      <3> QED
        BY <1>1, <1>12, <3>1, <3>3
    <2>3. \A i \in 1..l : out[i] = ImageUnit(drv, p + (i - 1))
      BY <1>0, <1>2, <1>10, <1>12 DEF OutIs, IsWindow
    <2>4. ASSUME NEW i \in 1..(l + 1) PROVE out'[i] = ImageUnit(drv, p + (i - 1))
      <3>1. CASE i <= l
        <4>1. i \in 1..l
          BY <3>1
        <4> QED
          BY <2>2, <2>3, <4>1
      <3>2. CASE i = l + 1
        <4>1. i - 1 = l
          BY <3>2
        <4> QED
          BY <1>14, <2>2, <3>2, <4>1
      <3> QED
        BY <3>1, <3>2
    <2> QED
      BY <1>1, <1>2, <1>10, <2>2, <2>4 DEF OutIs, IsWindow
  <1>16. ChainIs'
    <2>1. TableStart' = b /\ TableEnd' = e
      BY <1>1, <1>2 DEF TableStart, TableEnd
    <2>2. PICK y1 \in Nat : y1 = x + 1 /\ y1 >= 2 /\ y1 + left' = (sector - b) * n
      <3>1. left \in Nat /\ left' = left - 1
        BY <1>0, <1>1
      <3>2. x + 1 \in Nat /\ x + 1 >= 2 /\ (x + 1) + left' = x + left
        BY ONLY <3>1, <1>5, x \in Nat
      <3> QED
        BY <1>5, <3>2
    <2>3. Follows(drv', fat', y1)
      BY <1>1, <1>6, <2>2
    <2>4. /\ TableStart' <= sector' /\ sector' <= TableEnd'
          /\ y1 >= 2 /\ y1 + left' = (sector' - TableStart') * drv'.bps
      BY <1>1, <1>2, <1>4, <2>1, <2>2
    <2> QED
      BY <2>3, <2>4 DEF ChainIs
  <1> QED
    BY <1>15, <1>16

(* Only behind the last file nothing is found.                             *)
LEMMA MissIsBehind ==
    ASSUME NEW d \in Drives, AllHaveRanges(d), NEW s \in Nat, s >= d.data_start,
           Miss = find_file_sector(d.ranges, d.file_cnt, d.data_end, s)
    PROVE  s >= d.data_end
  <1>1. Shaped(d) /\ Tiled(d) /\ Numbered(d)
    BY DrivesAssumption
  <1>2. PICK n \in Nat, a \in Nat, e \in Nat : n = Len(d.ranges) /\ a = d.data_start /\ e = d.data_end
    BY <1>1, LenProperties DEF Shaped
  <1>3. SUFFICES ASSUME s < e PROVE FALSE
    BY <1>2
  <1>4. \A j \in 1..n : ~(s < d.ranges[j].sectend)
    <2>1. \/ s >= e
          \/ Miss \in 1..n
          \/ \A j \in 1..n : j <= d.file_cnt => ~(s < d.ranges[j].sectend)
      BY <1>1, <1>2, FindSector
    <2>2. Miss \notin 1..n
      BY DEF Miss
    <2>3. d.file_cnt = n
      BY <1>2 DEF AllHaveRanges
    <2> QED
      BY <1>3, <2>1, <2>2, <2>3
  <1>5. CASE n = 0
    <2>1. e = a
      BY <1>1, <1>2, <1>5 DEF Tiled
    <2> QED
      BY <1>2, <1>3, <2>1
  <1>6. CASE n # 0
    <2>1. n > 0 /\ n \in 1..n
      BY <1>6
    <2>2. d.ranges[n].sectend = e
      BY <1>1, <1>2, <2>1 DEF Tiled
    <2> QED
      BY <1>3, <1>4, <2>1, <2>2
  <1> QED
    BY <1>5, <1>6

(* One turn of read_sector_data().                                         *)
LEMMA FilesImage ==
    ASSUME StepInv, OutIs, pc = "files", rem > 0, NEW units \in Seq(Units(drv)),
           IsWindow(drv, sector + drv.mbr_sectors, units),
           out' = out \o units, UNCHANGED <<drv, soff, pc>>
    PROVE  OutIs' /\ ChainIs'
  <1>1. /\ rem \in Nat /\ cnt \in Nat /\ soff \in Nat /\ sector \in Nat /\ rem <= cnt /\ left = 0
        /\ drv \in Drives /\ Dev + rem = soff + cnt /\ Dev = sector + drv.mbr_sectors
    BY DEF StepInv, Types, Counted, Chains, Dev
  <1>2. PICK m \in Nat : m = drv.mbr_sectors
    BY <1>1, StartsAre
  <1>3. PICK c \in Nat : c = cnt - rem
    <2>1. cnt - rem \in Nat
      BY <1>1
    <2> QED
      BY <2>1
  <1>4. Written = c
    BY <1>3 DEF Written
  <1>5. sector + m = soff + c
    <2>1. (sector + m) + rem = soff + cnt
      BY <1>1, <1>2
    <2>2. rem \in Nat /\ cnt \in Nat /\ soff \in Nat /\ sector \in Nat
      BY <1>1
    <2> QED
      BY ONLY <1>3, <2>1, <2>2, m \in Nat, c \in Nat
  <1>6. IsWindow(drv, soff + c, units)
    BY <1>2, <1>5
  <1>7. OutIs'
    BY <1>1, <1>4, <1>6, OutGrows
  <1>8. ChainIs'
    BY DEF ChainIs, Chains
  <1> QED
    BY <1>7, <1>8

LEMMA BehindFilesImage ==
    ASSUME StepInv, AllHaveRanges(drv), OutIs, DataBehindFiles
    PROVE  OutIs' /\ ChainIs'
  <1>1. /\ drv \in Drives /\ rem \in Nat /\ sector \in Nat /\ pc = "files" /\ rem > 0
        /\ sector >= drv.data_start /\ drv.bps \in Nat
    BY DriveIs DEF StepInv, Types, DataBehindFiles, InRegion
  <1>2. Miss = find_file_sector(drv.ranges, drv.file_cnt, drv.data_end, sector)
    BY DEF DataBehindFiles, Found
  <1>3. sector >= drv.data_end
    BY <1>1, <1>2, MissIsBehind
  <1>4. IsWindow(drv, sector + drv.mbr_sectors, Zeros(rem * drv.bps))
    BY <1>1, <1>3, EmptyWindow
  <1>5. Zeros(rem * drv.bps) \in Seq(Units(drv))
    <2>1. rem * drv.bps \in Nat
      BY <1>1, Distr
    <2> QED
      BY <2>1, ZerosAre
  <1>6. out' = out \o Zeros(rem * drv.bps) /\ UNCHANGED <<drv, soff, pc>>
    BY DEF DataBehindFiles
  <1> QED
    BY <1>1, <1>4, <1>5, <1>6, FilesImage

LEMMA OfFileImage ==
    ASSUME StepInv, OutIs, FilesFit(drv), DataOfFile
    PROVE  OutIs' /\ ChainIs'
  <1>0. /\ drv \in Drives /\ rem \in Nat /\ sector \in Nat /\ pc = "files" /\ rem > 0
        /\ Found \in DOMAIN drv.ranges /\ sector >= drv.data_start
    <2>1. drv \in Drives /\ rem \in Nat /\ sector \in Nat
      BY DEF StepInv, Types
    <2>2. pc = "files" /\ rem > 0 /\ Found \in DOMAIN drv.ranges
      BY Zenon DEF DataOfFile
    <2> QED
      BY <2>1, <2>2 DEF StepInv, InRegion
  <1>1. PICK h \in DOMAIN drv.file, a \in Nat, e \in Nat :
             /\ Found \in 1..Len(drv.ranges) /\ h = drv.ranges[Found].file
             /\ a = drv.file[h].startsect /\ e = drv.file[h].endsect
             /\ a = drv.ranges[Found].sectstart /\ e = drv.ranges[Found].sectend
             /\ a <= sector /\ sector < e
             /\ drv.file[h].kind # "dir" => drv.file[h].size <= (e - a) * drv.bps
             /\ drv.file[h].kind = "dir" => Dir(drv, h)
    BY <1>0, TurnIs
  <1>2. PICK w : w = Min2(e - sector, rem)
    OBVIOUS
  <1>3. out' = out \o DataUnits(h, sector, w) /\ UNCHANGED <<drv, soff, pc>>
    <2>1. w = Min2(drv.file[drv.ranges[Found].file].endsect - sector, rem)
      BY <1>1, <1>2
    <2> QED
      BY <1>1, <2>1, Zenon DEF DataOfFile
  <1>4. PICK n \in Nat, s \in Nat, i \in 1..Len(drv.ranges) : n = drv.bps /\ s = sector /\ i = Found
    BY <1>0, <1>1, StartsAre
  <1>5. PICK o : o = (s - a) * n
    OBVIOUS
  <1>6. TurnOf(h, s, a, e, n, w, o)
    <2>1. /\ drv \in Drives /\ rem \in Nat /\ rem > 0 /\ a = drv.file[h].startsect /\ e = drv.file[h].endsect
          /\ a <= s /\ s < e /\ n = drv.bps
          /\ w = Min2(e - s, rem)
      BY <1>0, <1>1, <1>2, <1>4
    <2>2. /\ drv.file[h].kind = "dir" => Dir(drv, h)
          /\ drv.file[h].kind # "dir" => drv.file[h].size <= (e - a) * n
      BY <1>1, <1>4
    <2> QED
      BY <1>5, <2>1, <2>2 DEF TurnOf
  <1>7. PICK units : units = DataUnits(h, s, w)
    OBVIOUS
  <1>8. units \in Seq(Units(drv))
    <2>1. DataUnits(h, s, w) \in Seq(Units(drv))
      BY ONLY <1>6, DataUnitsAre
    <2> QED
      BY <1>7, <2>1
  <1>9. IsWindow(drv, s + drv.mbr_sectors, units)
    <2>1. /\ s >= drv.data_start /\ h = drv.ranges[i].file
          /\ a = drv.ranges[i].sectstart /\ e = drv.ranges[i].sectend
      BY <1>0, <1>1, <1>4
    <2>2. IsWindow(drv, s + drv.mbr_sectors, DataUnits(h, s, w))
      BY ONLY <1>6, <2>1, i \in 1..Len(drv.ranges), FileWindow
    <2> QED
      BY <1>7, <2>2
  <1>10. out' = out \o units /\ IsWindow(drv, sector + drv.mbr_sectors, units)
    BY <1>3, <1>4, <1>7, <1>9
  <1> QED
    BY <1>0, <1>3, <1>8, <1>10, FilesImage

-----------------------------------------------------------------------------
(* vdf_read_bytes(): what is asked for and what has been delivered.        *)
LEMMA RequestIs ==
    ASSUME StepInv
    PROVE  \E n \in Nat, t \in Nat, off \in Nat, q \in Nat, l \in Nat :
             /\ n = drv.bps /\ n > 0 /\ t = Total /\ off = req.off /\ q = req.cnt /\ l = Len(result)
             /\ Bytes = t * n /\ off < t * n /\ Left = q - l /\ l <= q /\ t * n \in Nat
  <1>1. drv \in Drives /\ result \in Seq(Units(drv)) /\ req.off \in 0..(Bytes - 1) /\ req.cnt \in Nat
        /\ Len(result) <= req.cnt
    BY DEF StepInv, Types, Asked
  <1>2. PICK n \in Nat, t \in Nat : n = drv.bps /\ n > 0 /\ t = Total
    <2>1. drv.bps \in Nat /\ drv.bps > 0 /\ drv.sectors \in Nat /\ drv.mbr_sectors \in Nat
      BY <1>1, StartsAre
    <2>2. Total \in Nat
      BY <2>1 DEF Total
    <2> QED
      BY <2>1, <2>2
  <1>3. Bytes = t * n /\ t * n \in Nat
    BY <1>2, Distr DEF Bytes, Total
  <1>4. PICK b \in Nat : b = t * n
    BY <1>3
  <1>5. req.off \in Nat /\ req.off < b
    BY <1>1, <1>3, <1>4
  <1>6. Len(result) \in Nat
    BY <1>1, LenProperties
  <1> QED
    BY <1>1, <1>2, <1>3, <1>4, <1>5, <1>6 DEF Left

LEMMA BeginImage ==
    ASSUME StepInv, ResultIs, BeginHead \/ BeginBody \/ BeginTail
    PROVE  OutIs' /\ ChainIs' /\ ResultIs'
  <1>1. pc = "idle"
    BY DEF BeginHead, BeginBody, BeginTail
  <1>2. ASSUME NEW m, Call(m) PROVE OutIs' /\ ChainIs' /\ ResultIs'
    <2>1. UNCHANGED <<drv, req, result, soff>> /\ phase' = phase /\ out' = <<>> /\ pc' = "mbr"
      BY <1>2 DEF Call
    <2>2. Len(out') = 0
      BY <2>1
    <2>3. OutIs' /\ ChainIs'
      BY <2>1, <2>2 DEF OutIs, IsWindow, ChainIs, Chains
    <2> QED
      BY <2>1, <2>3, ResultStays
  <1>3. ASSUME NEW p, NextPhase(p),
               p \in {"body", "tail"} => Left = 0 \/ req.off + Len(result) = soff * drv.bps,
               p = "done" => Len(result) = Min2(req.cnt, Bytes - req.off),
               p \in {"body", "tail", "done"}
        PROVE  OutIs' /\ ChainIs' /\ ResultIs'
    <2>1. phase' = p /\ UNCHANGED <<drv, req, result, soff, pc>>
      BY <1>3 DEF NextPhase, callvars
    <2>2. OutIs' /\ ChainIs'
      BY <1>1, <2>1 DEF OutIs, ChainIs, Chains
    <2>3. Bytes' = Bytes /\ Left' = Left
      BY <2>1 DEF Bytes, Left
    <2>4. ResultIs'
      BY <1>3, <2>1, <2>3 DEF ResultIs
    <2> QED
      BY <2>2, <2>4
  <1>4. PICK n \in Nat, t \in Nat, off \in Nat, q \in Nat, l \in Nat :
             /\ n = drv.bps /\ n > 0 /\ t = Total /\ off = req.off /\ q = req.cnt /\ l = Len(result)
             /\ Bytes = t * n /\ off < t * n /\ Left = q - l /\ l <= q /\ t * n \in Nat
    BY RequestIs
  <1>5. CASE BeginHead /\ HeadAt = 0
    <2>1. NextPhase("body") /\ phase = "head"
      BY <1>5 DEF BeginHead
    <2>2. soff = off \div n /\ off % n = 0 /\ l = 0
      BY <1>4, <1>5, <2>1 DEF ResultIs, HeadAt
    <2>3. off = soff * n
      <3>1. PICK k \in Nat, j \in 0..(n - 1) : k = off \div n /\ j = off % n /\ off = k * n + j
        <4>1. n > 0
          BY <1>4
        <4> QED
          BY ONLY <4>1, n \in Nat, off \in Nat, Place
      <3>2. j = 0 /\ k = soff /\ k * n \in Nat
        BY <2>2, <3>1
      <3> QED
        BY <3>1, <3>2
    <2>4. req.off + Len(result) = soff * drv.bps
      <3>1. off + l = soff * n
        BY <2>2, <2>3
      <3> QED
        BY <1>4, <3>1
    <2> QED
      BY <1>3, <2>1, <2>4
  <1>6. CASE BeginBody /\ ~(Left >= drv.bps)
    <2>1. NextPhase("tail") /\ phase = "body"
      BY <1>6 DEF BeginBody
    <2>2. Left = 0 \/ req.off + Len(result) = soff * drv.bps
      BY <2>1 DEF ResultIs
    <2> QED
      BY <1>3, <2>1, <2>2
  <1>7. CASE BeginTail /\ ~(Left > 0)
    <2>1. NextPhase("done")
      BY <1>7 DEF BeginTail
    <2>2. l = q
      BY <1>4, <1>7
    <2>3. off + l <= t * n
      BY <1>4 DEF ResultIs
    <2>4. PICK b \in Nat : b = t * n
      BY <1>4
    <2>5. l = Min2(q, b - off)
      <3>1. off + l <= b
        BY <2>3, <2>4
      <3> QED
        BY ONLY <2>2, <3>1, off \in Nat, l \in Nat, q \in Nat, b \in Nat DEF Min2
    <2>6. Len(result) = Min2(req.cnt, Bytes - req.off)
      BY <1>4, <2>4, <2>5
    <2> QED
      BY <1>3, <2>1, <2>6
  <1> QED
    BY <1>2, <1>5, <1>6, <1>7 DEF BeginHead, BeginBody, BeginTail

(* The piece begins where the result ends.                                 *)
LEMMA PieceContinues ==
    ASSUME StepInv, ResultIs, pc = "return", NEW a \in Nat, NEW m, PieceSize(a, m)
    PROVE  req.off + Len(result) = soff * drv.bps + a
  <1>1. PICK n \in Nat, t \in Nat, off \in Nat, q \in Nat, l \in Nat :
             /\ n = drv.bps /\ n > 0 /\ t = Total /\ off = req.off /\ q = req.cnt /\ l = Len(result)
             /\ Bytes = t * n /\ off < t * n /\ Left = q - l /\ l <= q /\ t * n \in Nat
    BY RequestIs
  <1>2. phase \in Phases /\ Left > 0 /\ soff \in Nat
    BY DEF StepInv, Types, Called, Asked
  <1>3. CASE phase = "head"
    <2>1. a = off % n /\ soff = off \div n /\ l = 0
      BY <1>1, <1>3 DEF PieceSize, HeadAt, ResultIs
    <2>2. PICK k \in Nat, j \in 0..(n - 1) : k = off \div n /\ j = off % n /\ off = k * n + j
      <3>1. n > 0
        BY <1>1
      <3> QED
        BY ONLY <3>1, n \in Nat, off \in Nat, Place
    <2>3. off = soff * n + a
      BY <2>1, <2>2
    <2>4. off + l = off
      BY <2>1
    <2> QED
      BY <1>1, <2>3, <2>4
  <1>4. CASE phase # "head"
    <2>1. a = 0
      BY <1>4 DEF PieceSize
    <2>2. off + l = soff * n
      <3>1. Left # 0
        BY <1>1, <1>2
      <3> QED
        BY <1>1, <1>2, <1>4, <3>1 DEF ResultIs, Phases
    <2>3. soff * n \in Nat
      BY <1>2, Distr
    <2>4. soff * n + a = soff * n
      BY <2>1, <2>3
    <2> QED
      BY <1>1, <2>2, <2>4
  <1> QED
    BY <1>3, <1>4

(* All that was asked for, or all that there is.                           *)
LEMMA AllThereIs ==
    ASSUME NEW off \in Nat, NEW l \in Nat, NEW q \in Nat, NEW b \in Nat, l <= q, off + l <= b,
           l = q \/ off + l = b
    PROVE  l = Min2(q, b - off)
  BY DEF Min2

(* A call that has come to the end of the device before it could begin.    *)
LEMMA NothingImage ==
    ASSUME StepInv, ResultIs, Return, cnt < want, phase # "body"
    PROVE  ResultIs'
  <1>0. /\ pc = "return" /\ phase \in Phases /\ want = 1 /\ cnt \in Nat /\ soff \in Nat /\ want \in Nat
        /\ soff + cnt = Total /\ Left > 0
    BY DEF StepInv, Types, Return, Called, Counted, Asked
  <1>1. PICK n \in Nat, t \in Nat, off \in Nat, q \in Nat, l \in Nat :
             /\ n = drv.bps /\ n > 0 /\ t = Total /\ off = req.off /\ q = req.cnt /\ l = Len(result)
             /\ Bytes = t * n /\ off < t * n /\ Left = q - l /\ l <= q /\ t * n \in Nat
    BY RequestIs
  <1>2. soff = t
    <2>1. cnt = 0
      BY <1>0
    <2> QED
      BY <1>0, <1>1, <2>1
  <1>3. phase # "head"
    <2>1. SUFFICES ASSUME phase = "head" PROVE FALSE
      OBVIOUS
    <2>2. t = off \div n
      BY <1>1, <1>2, <2>1 DEF ResultIs
    <2>3. n > 0 /\ off < t * n
      BY <1>1
    <2>4. off \div n < t
      <3>1. \E k \in Nat, j \in 0..(n - 1) : k = off \div n /\ \A x \in Nat : off < x * n => k < x
        BY ONLY <2>3, n \in Nat, off \in Nat, Place
      <3> QED
        BY <2>3, <3>1
    <2> QED
      BY <2>2, <2>4
  <1>4. off + l = t * n
    <2>1. Left # 0 /\ phase = "tail"
      BY <1>0, <1>1, <1>3 DEF Phases
    <2> QED
      BY <1>1, <1>2, <2>1 DEF ResultIs
  <1>5. l = Min2(q, t * n - off)
    <2>1. PICK b \in Nat : b = t * n
      BY <1>1
    <2>2. l <= q /\ off + l = b /\ off + l <= b
      BY <1>1, <1>4, <2>1
    <2>3. l = Min2(q, b - off)
      BY ONLY <2>2, off \in Nat, l \in Nat, q \in Nat, b \in Nat, AllThereIs
    <2> QED
      BY <2>1, <2>3
  <1>6. /\ phase' = "done" /\ UNCHANGED <<drv, req, result>>
    BY DEF Return
  <1>7. Bytes' = Bytes
    BY <1>6 DEF Bytes
  <1>8. Len(result') = Min2(req'.cnt, Bytes' - req'.off)
    BY <1>1, <1>5, <1>6, <1>7
  <1> QED
    BY <1>6, <1>7, <1>8 DEF ResultIs

(* The piece is put behind what has been delivered.                        *)
LEMMA PieceImage ==
    ASSUME StepInv, OutIs, ResultIs, Return, phase = "body" \/ cnt = want
    PROVE  ResultIs'
  <1>0. /\ pc = "return" /\ phase \in Phases /\ cnt \in Nat /\ soff \in Nat /\ want \in Nat /\ left = 0
        /\ soff + cnt <= Total /\ (cnt < want => soff + cnt = Total) /\ cnt <= want /\ Left > 0
        /\ (phase # "body" => want = 1)
        /\ drv \in Drives /\ out \in Seq(Units(drv)) /\ result \in Seq(Units(drv))
    BY DEF StepInv, Types, Return, Called, Counted, Asked, Chains
  <1>1. PICK n \in Nat, t \in Nat, off \in Nat, q \in Nat, l \in Nat :
             /\ n = drv.bps /\ n > 0 /\ t = Total /\ off = req.off /\ q = req.cnt /\ l = Len(result)
             /\ Bytes = t * n /\ off < t * n /\ Left = q - l /\ l <= q /\ t * n \in Nat
    BY RequestIs
  <1>2. PICK a \in Nat, m \in Nat :
             /\ PieceSize(a, m)
             /\ m <= Left /\ a + m <= Len(out)
             /\ Piece \in Seq(Units(drv)) /\ Len(Piece) = m
             /\ \A i \in 1..m : Piece[i] = out[a + i]
    BY <1>0, PieceIs
  <1>3. PICK x \in Nat, y \in Nat, b \in Nat : x = soff * n /\ y = cnt * n /\ b = t * n
    <2>1. soff * n \in Nat /\ cnt * n \in Nat
      BY <1>0, Distr
    <2> QED
      BY <1>1, <2>1
  <1>4. Len(out) = y
    <2>1. Written = cnt
      BY <1>0 DEF Written
    <2>2. Len(out) = cnt * drv.bps
      BY <1>0, <2>1, LengthIs
    <2> QED
      BY <1>1, <1>3, <2>2
  <1>5. off + l = x + a
    <2>1. req.off + Len(result) = soff * drv.bps + a
      BY <1>0, <1>2, PieceContinues
    <2> QED
      BY <1>1, <1>3, <2>1
  <1>6. x + y <= b /\ (cnt < want => x + y = b)
    <2>1. (soff + cnt) * n = soff * n + cnt * n
      BY <1>0, Distr
    <2>2. soff + cnt \in Int /\ soff + cnt <= t /\ (cnt < want => soff + cnt = t)
      BY <1>0, <1>1
    <2>3. (soff + cnt) * n <= t * n
      BY <2>2, Distr
    <2>4. cnt < want => (soff + cnt) * n = t * n
      BY <2>2
    <2> QED
      BY <1>3, <2>1, <2>3, <2>4
  <1>7. result' = result \o Piece /\ UNCHANGED <<drv, req>> /\ soff' = soff + want
    BY <1>0 DEF Return
  <1>8. /\ Len(result') = l + m
        /\ \A i \in 1..l : result'[i] = result[i]
        /\ \A i \in 1..m : result'[l + i] = Piece[i]
    <2>1. result \in Seq(Units(drv)) /\ Piece \in Seq(Units(drv))
      BY <1>0, <1>2
    <2>2. /\ Len(result \o Piece) = Len(result) + Len(Piece)
          /\ \A i \in 1..Len(result) : (result \o Piece)[i] = result[i]
          /\ \A i \in 1..Len(Piece) : (result \o Piece)[Len(result) + i] = Piece[i]
      BY ONLY <2>1, JoinedList
    <2> QED
      BY <1>1, <1>2, <1>7, <2>2
  <1>9. \A i \in 1..(l + m) : result'[i] = ImageUnit(drv, off + (i - 1))
    <2> TAKE i \in 1..(l + m)
    <2>1. CASE i <= l
      <3>1. i \in 1..l
        BY <2>1
      <3>2. result[i] = ImageUnit(drv, off + (i - 1))
        BY <1>1, <3>1 DEF ResultIs
      <3> QED
        BY <1>8, <3>1, <3>2
    <2>2. CASE ~(i <= l)
      <3>1. PICK k \in 1..m : i = l + k
        <4>1. i - l \in 1..m /\ i = l + (i - l)
          BY <2>2
        <4> QED
          BY <4>1
      <3>2. result'[i] = out[a + k]
        BY <1>2, <1>8, <3>1
      <3>3. a + k \in 1..y
        <4>1. a + m <= y
          BY <1>2, <1>4
        <4> QED
          BY ONLY <4>1, k \in 1..m, a \in Nat, m \in Nat, y \in Nat
      <3>4. out[a + k] = ImageUnit(drv, x + ((a + k) - 1))
        BY <1>0, <1>1, <1>3, <1>4, <3>3 DEF OutIs, IsWindow
      <3>5. x + ((a + k) - 1) = off + (i - 1)
        BY ONLY <1>5, <3>1, k \in 1..m, a \in Nat, x \in Nat, off \in Nat, l \in Nat, m \in Nat
      <3> QED
        BY <3>2, <3>4, <3>5
    <2> QED
      BY <2>1, <2>2
  <1>10. l + m <= q /\ off + (l + m) <= b
    <2>1. m <= q - l /\ a + m <= y /\ x + y <= b
      BY <1>1, <1>2, <1>4, <1>6
    <2> QED
      BY ONLY <1>5, <2>1, l \in Nat, m \in Nat, q \in Nat, a \in Nat, y \in Nat, x \in Nat, b \in Nat, off \in Nat
  <1>11. Bytes' = b /\ req'.off = off /\ req'.cnt = q /\ drv' = drv /\ Left' = q - (l + m) /\ drv'.bps = n
    <2>1. Bytes' = Bytes
      BY <1>7 DEF Bytes
    <2> QED
      BY <1>1, <1>3, <1>7, <1>8, <2>1 DEF Left
  <1>12. phase' # "head" /\ phase' \in {"body", "tail", "done"}
    BY <1>0 DEF Return, Phases
  <1>13. /\ cnt < want => phase' = "done"
         /\ ~(cnt < want) /\ phase = "head" => phase' = "body"
         /\ ~(cnt < want) /\ phase = "body" => phase' = "tail"
         /\ ~(cnt < want) /\ phase = "tail" => phase' = "done"
    BY DEF Return
  <1>14. ASSUME phase' \in {"body", "tail"}
         PROVE  q - (l + m) = 0 \/ off + (l + m) = (soff + want) * n
    <2>1. cnt = want /\ phase \in {"head", "body"}
      <3>1. ~(cnt < want)
        BY <1>14, <1>13
      <3>2. cnt = want
        BY ONLY <1>0, <3>1
      <3> QED
        BY <1>0, <1>14, <1>13, <3>1, <3>2 DEF Phases
    <2>2. (soff + want) * n = x + y
      BY <1>0, <1>3, <2>1, Distr
    <2>3. CASE phase = "head"
      <3>1. y = n
        <4>1. cnt = 1 /\ 1 * n = n
          BY <1>0, <2>1, <2>3
        <4> QED
          BY <1>3, <4>1
      <3>2. a = HeadAt /\ m = Min2(n - a, q - l)
        BY <1>1, <1>2, <2>3 DEF PieceSize
      <3>3. m = q - l \/ m = n - a
        BY <3>2 DEF Min2
      <3>4. q - (l + m) = 0 \/ off + (l + m) = x + y
        BY ONLY <1>5, <3>1, <3>3, l \in Nat, m \in Nat, q \in Nat, a \in Nat, y \in Nat, x \in Nat, n \in Nat, off \in Nat
      <3> QED
        BY <2>2, <3>4
    <2>4. CASE phase = "body"
      <3>1. a = 0 /\ m = y
        BY <1>1, <1>2, <1>3, <2>4 DEF PieceSize
      <3>2. off + (l + m) = x + y
        BY ONLY <1>5, <3>1, l \in Nat, x \in Nat, y \in Nat, off \in Nat
      <3> QED
        BY <2>2, <3>2
    <2> QED
      BY <2>1, <2>3, <2>4
  <1>15. ASSUME phase' = "done"
         PROVE  l + m = Min2(q, b - off)
    <2>1. phase = "tail" \/ (phase = "body" /\ cnt < want)
      <3>1. CASE cnt < want
        BY <1>0, <3>1
      <3>2. CASE ~(cnt < want)
        BY <1>0, <1>15, <1>13, <3>2 DEF Phases
      <3> QED
        BY <3>1, <3>2
    <2>2. l + m = q \/ off + (l + m) = b
      <3>1. CASE phase = "tail"
        <4>1. m = q - l
          BY <1>1, <1>2, <3>1 DEF PieceSize
        <4> QED
          BY ONLY <4>1, l \in Nat, q \in Nat
      <3>2. CASE phase = "body" /\ cnt < want
        <4>1. a = 0 /\ m = y
          BY <1>1, <1>2, <1>3, <3>2 DEF PieceSize
        <4>2. x + y = b
          BY <1>6, <3>2
        <4> QED
          BY ONLY <1>5, <4>1, <4>2, l \in Nat, x \in Nat, y \in Nat, off \in Nat
      <3> QED
        BY <2>1, <3>1, <3>2
    <2>3. l + m \in Nat
      OBVIOUS
    <2> QED
      BY ONLY <1>10, <2>2, <2>3, off \in Nat, q \in Nat, b \in Nat, AllThereIs
  <1> QED
    BY <1>7, <1>8, <1>9, <1>10, <1>11, <1>12, <1>14, <1>15 DEF ResultIs

LEMMA ReturnImage ==
    ASSUME StepInv, OutIs, ResultIs, Return
    PROVE  OutIs' /\ ChainIs' /\ ResultIs'
  <1>1. pc' = "idle" /\ pc = "return"
    BY DEF Return
  <1>2. OutIs' /\ ChainIs'
    BY <1>1 DEF OutIs, ChainIs, Chains
  <1>3. cnt \in Nat /\ want \in Nat /\ cnt <= want
    BY <1>1 DEF StepInv, Types, Counted
  <1>4. CASE cnt < want /\ phase # "body"
    BY <1>2, <1>4, NothingImage
  <1>5. CASE ~(cnt < want /\ phase # "body")
    <2>1. phase = "body" \/ cnt = want
      BY <1>3, <1>5
    <2> QED
      BY <1>2, <2>1, PieceImage
  <1> QED
    BY <1>4, <1>5

-----------------------------------------------------------------------------
LEMMA InitImage ==
    ASSUME Init PROVE ImageInv
  <1>1. StepInv
    BY InitStep
  <1>2. PICK n \in Nat, t \in Nat, off \in Nat, q \in Nat, l \in Nat :
             /\ n = drv.bps /\ n > 0 /\ t = Total /\ off = req.off /\ q = req.cnt /\ l = Len(result)
             /\ Bytes = t * n /\ off < t * n /\ Left = q - l /\ l <= q /\ t * n \in Nat
    BY <1>1, RequestIs
  <1>3. /\ pc = "idle" /\ result = <<>> /\ soff = req.off \div drv.bps
        /\ phase = IF req.cnt = 0 THEN "done" ELSE "head"
    BY DEF Init
  <1>4. Len(result) = 0
    BY <1>3
  <1>5. PICK b \in Nat : b = t * n
    BY <1>2
  <1>6. off + 0 <= b /\ l = 0 /\ (q = 0 => 0 = Min2(q, b - off))
    <2>1. off < b /\ l = 0
      BY <1>2, <1>4, <1>5
    <2> QED
      BY ONLY <2>1, off \in Nat, b \in Nat, q \in Nat DEF Min2
  <1>7. ResultIs
    <2>1. req.off + Len(result) <= Bytes
      BY <1>2, <1>5, <1>6
    <2>2. phase = "done" => Len(result) = Min2(req.cnt, Bytes - req.off)
      BY <1>2, <1>3, <1>5, <1>6
    <2>3. phase = "head" => result = <<>> /\ soff = req.off \div drv.bps
      BY <1>3
    <2>4. phase \notin {"body", "tail"}
      BY <1>3
    <2>5. \A i \in 1..Len(result) : result[i] = ImageUnit(drv, req.off + (i - 1))
      BY <1>4
    <2> QED
      BY <2>1, <2>2, <2>3, <2>4, <2>5 DEF ResultIs
  <1>8. OutIs /\ ChainIs
    BY <1>3 DEF OutIs, ChainIs, Chains
  <1> QED
    BY <1>1, <1>7, <1>8 DEF ImageInv

LEMMA ImageInvInduction ==
    ASSUME ImageInv, [Next]_vars
    PROVE  ImageInv'
  <1>2. drv' = drv
    BY DriveStays
  <1> SUFFICES ASSUME FilesFit(drv)
               PROVE  StepInv' /\ (AllHaveRanges(drv)' => OutIs' /\ ChainIs' /\ ResultIs')
    BY <1>2 DEF ImageInv, FilesFit
  <1>1. StepInv /\ StepInv'
    BY StepInvInduction DEF ImageInv
  <1>0. ASSUME DataOfFile PROVE UNCHANGED <<drv, req, phase, result, soff>>
    BY <1>0, Zenon DEF DataOfFile
  <1>3. SUFFICES ASSUME AllHaveRanges(drv) PROVE OutIs' /\ ChainIs' /\ ResultIs'
    BY <1>1, <1>2 DEF AllHaveRanges
  <1>4. OutIs /\ ChainIs /\ ResultIs
    BY <1>3 DEF ImageInv
  <1>5. CASE BeginHead \/ BeginBody \/ BeginTail
    BY <1>1, <1>4, <1>5, BeginImage
  <1>6. CASE Return
    BY <1>1, <1>4, <1>6, ReturnImage
  <1>7. CASE ReadMbr
    <2>1. ResultIs'
      BY <1>4, <1>7, ResultStays DEF ReadMbr
    <2> QED
      BY <1>1, <1>4, <1>7, <2>1, MbrImage
  <1>8. CASE ReadPad
    <2>1. ResultIs'
      BY <1>4, <1>8, ResultStays DEF ReadPad, Region
    <2> QED
      BY <1>1, <1>4, <1>8, <2>1, PadImage
  <1>9. CASE ReadBoot
    <2>1. ResultIs'
      BY <1>4, <1>9, ResultStays DEF ReadBoot, Region
    <2> QED
      BY <1>1, <1>4, <1>9, <2>1, BootImage
  <1>10. CASE ReadRoot
    <2>1. ResultIs'
      BY <1>4, <1>10, ResultStays DEF ReadRoot, Region
    <2> QED
      BY <1>1, <1>4, <1>10, <2>1, RootImage
  <1>11. CASE ReadFat1 \/ ReadFat2
    <2>1. ResultIs'
      BY <1>4, <1>11, ResultStays DEF ReadFat1, ReadFat2, EnterFat
    <2>2. FatEnd = drv.root_start
      BY <1>1, DriveIs DEF StepInv, Types
    <2>3. \/ EnterFat("fat1", drv.fat1_start, drv.fat2_start, "chain1", "fat2")
          \/ EnterFat("fat2", drv.fat2_start, drv.root_start, "chain2", "root")
      BY <1>11, <2>2 DEF ReadFat1, ReadFat2
    <2>4. OutIs' /\ ChainIs'
      BY <1>1, <1>3, <1>4, <2>3, EnterFatImage
    <2> QED
      BY <2>1, <2>4
  <1>12. CASE FatTurn
    <2>1. ResultIs'
      BY <1>4, <1>12, ResultStays DEF FatTurn
    <2> QED
      BY <1>1, <1>3, <1>4, <1>12, <2>1, FatTurnImage
  <1>13. CASE LeaveMbr \/ LeaveFat \/ EnterData \/ LeaveData
    <2>1. ResultIs'
      BY <1>4, <1>13, ResultStays DEF LeaveMbr, LeaveFat, EnterData, LeaveData
    <2> QED
      BY <1>1, <1>4, <1>13, <2>1, QuietImage
  <1>14. CASE DataBehindFiles
    <2>1. ResultIs'
      BY <1>4, <1>14, ResultStays DEF DataBehindFiles
    <2> QED
      BY <1>1, <1>3, <1>4, <1>14, <2>1, BehindFilesImage
  <1>15. CASE DataOfFile
    <2>1. ResultIs'
      BY <1>4, <1>15, <1>0, ResultStays
    <2> QED
      BY <1>1, <1>4, <1>15, <2>1, OfFileImage
  <1>16. CASE DataFails
    <2>1. ResultIs'
      BY <1>4, <1>16, ResultStays DEF DataFails
    <2>2. OutIs' /\ ChainIs'
      BY <1>16 DEF DataFails, OutIs, ChainIs, Chains
    <2> QED
      BY <2>1, <2>2
  <1>17. CASE UNCHANGED vars
    <2>1. UNCHANGED <<drv, req, phase, result, soff, pc, sector, out, fat, left>>
      BY <1>17 DEF vars, callvars
    <2>2. ResultIs'
      BY <1>4, <2>1, ResultStays
    <2>3. OutIs'
      BY <1>4, <2>1 DEF OutIs, IsWindow
    <2>4. ChainIs'
      BY <1>4, <2>1 DEF ChainIs, TableStart, TableEnd
    <2> QED
      BY <2>2, <2>3, <2>4
  <1> QED
    BY <1>5, <1>6, <1>7, <1>8, <1>9, <1>10, <1>11, <1>12, <1>13, <1>14, <1>15, <1>16, <1>17
       DEF Next, ReadStep, Done

LEMMA ImageInvAlways == Spec => []ImageInv
  <1>1. Init => ImageInv
    BY InitImage
  <1>2. ImageInv /\ [Next]_vars => ImageInv'
    BY ImageInvInduction
  <1> QED
    BY <1>1, <1>2, PTL DEF Spec

(* Whatever the drive, as long as every file of the list has a range (the  *)
(* loops of fat.c and read_data.c compare with file_cnt, which is the      *)
(* length of the array only when no listed file is empty) and fits its     *)
(* clusters (the antecedent of ReadIsImage), and whatever the request,     *)
(* vdf_read_bytes() returns the bytes of the one image: no cut at a        *)
(* sector, a region or a file, no FAT window that begins inside a chain    *)
(* and no directory window that begins inside a long name changes what is  *)
(* read.                                                                   *)
THEOREM ReadGivesTheImage == Spec => [](AllHaveRanges(drv) => ReadIsImage)
  <1>1. ASSUME ImageInv, AllHaveRanges(drv) PROVE ReadIsImage
    <2> SUFFICES ASSUME FilesFit(drv) PROVE ReadIsImage
      BY DEF ReadIsImage
    <2>1. ResultIs /\ StepInv
      BY <1>1 DEF ImageInv
    <2>2. PICK off \in Nat, l \in Nat : off = req.off /\ l = Len(result)
      BY <2>1, RequestIs
    <2>3. \A i \in 1..l : off + i - 1 = off + (i - 1)
      OBVIOUS
    <2> QED
      BY <2>1, <2>2, <2>3 DEF ResultIs, ReadIsImage
  <1>2. ImageInv => (AllHaveRanges(drv) => ReadIsImage)
    BY <1>1
  <1> QED
    BY <1>2, ImageInvAlways, PTL
=============================================================================
