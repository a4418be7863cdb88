------------------------------ MODULE MCFat12 -------------------------------
(***************************************************************************)
(* Fat12 with sectors of eight bytes (five and a third entries, as a       *)
(* sector of 512 bytes has 341 and a third), nibbles below four, and up to *)
(* three chains, so that the clusters outgrow two nibbles.                 *)
(***************************************************************************)
EXTENDS Fat12

Table(lens) ==
    LET End(k) == FirstCluster + (IF k > 0 THEN lens[1] ELSE 0)
                  + (IF k > 1 THEN lens[2] ELSE 0) + (IF k > 2 THEN lens[3] ELSE 0)
    IN  [ranges |-> [k \in 1..Len(lens) |-> [fatstart |-> End(k - 1), fatend |-> End(k)]],
         file_cnt |-> Len(lens), data_cluster_end |-> End(Len(lens))]

Chains == UNION {[1..n -> 1..6] : n \in 0..3}
SomeTables == {Table(c) : c \in Chains}

FirstWindows == {[sector |-> 0, scnt |-> n] : n \in 1..4}
AllWindows == {[sector |-> s, scnt |-> n] : s \in 0..2, n \in 1..2}
=============================================================================
