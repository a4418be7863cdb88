-------------------------- MODULE NbdSessionProofs -------------------------
(***************************************************************************)
(* An NBD connection does what NbdService promises, for any requests, any  *)
(* size of drive and of buffer, and however the bytes arrive: proofs about *)
(* NbdSession.                                                             *)
(***************************************************************************)
EXTENDS NbdSession, ListLemmas, SequenceTheorems, TLAPS

UnitSet    == Nat \X {1, 2, 3}
Cmds       == {"none"} \cup {r.cmd : r \in Requests}
HasData(r) == r.cmd = "WRITE" /\ r.len > 0
Plain(r)   == ~HasData(r) /\ ~Service!Wrapped(r)

(* The answers to a set of requests, as a function of the requests.        *)
AnswerTo(r, i) ==
    CASE Service!Acked(r) -> <<<<"reply", i>>>>
      [] r.cmd = "READ" /\ Service!InRange(r) -> <<<<"reply", i>>>> \o Data(r.off, r.len)
      [] Service!Wrapped(r) -> <<<<"reply", i>>>>
      [] OTHER -> <<>>

AnswersOf(a, S) == FlattenSeq([i \in DOMAIN a |-> IF i \in S THEN AnswerTo(a[i], i) ELSE <<>>])

Sent == {"reply", "byte"} \X Int

(* The types.  The halves of a request are from requests of the peer, or   *)
(* they are from none.                                                     *)
TypeInv ==
    /\ driver \in Drivers /\ asked \in Seq(Requests) /\ got \in Seq(Sent)
    /\ strayed \in BOOLEAN /\ broken \in BOOLEAN
    /\ peer \in {"open", "closed", "poked", "reset"}
    /\ pc \in {"recv", "decode", "switch", "reply", "data", "drain", "over"}
    /\ net \in Seq(UnitSet)
    /\ \A i \in 1..Len(net) : net[i][1] \in 1..Len(asked)
    /\ request \in [1..Size -> UnitSet \cup {Garbage}]
    /\ \A i \in 1..Size : request[i][2] # 0 => request[i][1] \in 1..Len(asked)
    /\ total \in 0..(Size + BuffLen)
    /\ ~broken /\ pc = "recv" => total < Size
    /\ pc \in {"switch", "reply", "data"} => total = 0
    /\ ~broken /\ pc = "decode" => total <= Size
    /\ cur \in [to : Nat, cmd : Cmds, off : Nat, len : Nat]
    /\ pc = "data" => cur.len > 0
    /\ pc = "drain" => cur.len > 0 /\ (broken \/ total < Least(cur.len, BuffLen))

(* What is left to read of the stream: the part of a request that          *)
(* sock_read() has, and what is in the net.                                *)
Held   == IF pc \in {"recv", "decode"} THEN total ELSE 0
Stream == [i \in 1..(Held + Len(net)) |-> IF i <= Held THEN request[i] ELSE net[i - Held]]

(* The units u of requests in a are in order: a unit comes behind those of *)
(* the requests before its own, and the two halves of a request are        *)
(* neighbours.                                                             *)
Before(u, v) == u[1] < v[1] \/ (u[1] = v[1] /\ (u[2] < v[2] \/ v[2] = 3))

InOrder(u, a) ==
    /\ u \in Seq(UnitSet)
    /\ \A i \in 1..Len(u) : u[i][1] \in 1..Len(a)
    /\ \A i, k \in 1..Len(u) : i < k => Before(u[i], u[k])
    /\ \A i \in 1..Len(u) : u[i][2] = 1 => i < Len(u) /\ u[i + 1] = <<u[i][1], 2>>
    /\ \A i \in 1..Len(u) : u[i][2] = 3 => HasData(a[u[i][1]])

AllBehind(u, n) == \A i \in 1..Len(u) : Before(<<n, 2>>, u[i])
AllAfter(u, S)  == \A m \in S : \A i \in 1..Len(u) : m < u[i][1]

StreamInv == InOrder(Stream, asked) /\ (pc = "decode" => total = Size)

(* The request that is served.                                             *)
CurInv ==
    /\ pc \in {"switch", "reply"} =>
         /\ cur.to \in 1..Len(asked)
         /\ cur.cmd = asked[cur.to].cmd /\ cur.off = asked[cur.to].off /\ cur.len = asked[cur.to].len
         /\ AllBehind(Stream, cur.to)
    /\ pc = "reply" => Answered(cur)

(* What the peer has got and is about to get are the answers to S.         *)
Pending == IF pc = "data" /\ OnDrive THEN Data(cur.off, cur.len) ELSE <<>>

Answers(S) ==
    /\ got \o Pending = AnswersOf(asked, S)
    /\ ~strayed => S = 1..Len(asked) \/ S = 1..(Len(asked) - 1)
    /\ AllAfter(Stream, S)
    /\ pc \in {"switch", "reply"} => \A m \in S : m < cur.to

Open == peer = "open" /\ ~broken /\ pc \notin {"drain", "over"}

ServeInv ==
    Open => StreamInv /\ CurInv /\ (\E S \in SUBSET (1..Len(asked)) : Answers(S))

(* A peer that waits has sent at most one request that is not read, and no *)
(* data; it has asked for no read whose end wraps.                         *)
WaitInv ==
    ~strayed => /\ broken => peer # "open"
                /\ \A i \in 1..Len(asked) : Plain(asked[i])
                /\ pc = "recv" => total + Len(net) <= Size
                /\ pc \in {"decode", "switch", "reply", "data", "drain"} => net = <<>>
                /\ pc = "drain" => peer # "open"
                /\ pc = "data" => OnDrive \/ peer # "open"

SessionInv == TypeInv /\ ServeInv /\ WaitInv

-----------------------------------------------------------------------------
(* Sequences of units.                                                     *)

(* What a recv() leaves behind.                                            *)
LEMMA RestOf ==
    ASSUME NEW U, NEW s \in Seq(U), NEW k \in Nat, k <= Len(s)
    PROVE  /\ SubSeq(s, k + 1, Len(s)) \in Seq(U)
           /\ Len(SubSeq(s, k + 1, Len(s))) = Len(s) - k
           /\ \A j \in 1..(Len(s) - k) : SubSeq(s, k + 1, Len(s))[j] = s[j + k]
  <1>1. Len(s) \in Nat
    BY LenProperties
  <1>2. \A i \in (k + 1)..Len(s) : s[i] \in U
    BY <1>1, ElementOfSeq
  <1>3. /\ SubSeq(s, k + 1, Len(s)) \in Seq(U)
        /\ Len(SubSeq(s, k + 1, Len(s))) =
             IF k + 1 <= Len(s) THEN Len(s) - (k + 1) + 1 ELSE 0
        /\ \A i \in 1..(Len(s) - (k + 1) + 1) : SubSeq(s, k + 1, Len(s))[i] = s[(k + 1) + i - 1]
    BY <1>1, <1>2, SubSeqProperties
  <1> QED
    BY <1>1, <1>3

LEMMA JoinedUnits ==
    ASSUME NEW U, NEW a \in Seq(U), NEW b \in Seq(U)
    PROVE  /\ a \o b \in Seq(U)
           /\ Len(a) \in Nat /\ Len(b) \in Nat
           /\ Len(a \o b) = Len(a) + Len(b)
           /\ \A i \in 1..Len(a) : (a \o b)[i] = a[i]
           /\ \A i \in 1..Len(b) : (a \o b)[Len(a) + i] = b[i]
  <1>1. Len(a) \in Nat /\ Len(b) \in Nat
    BY LenProperties
  <1>2. /\ a \o b \in Seq(U) /\ Len(a \o b) = Len(a) + Len(b)
        /\ \A i \in 1..(Len(a) + Len(b)) :
               (a \o b)[i] = IF i <= Len(a) THEN a[i] ELSE b[i - Len(a)]
    BY ConcatProperties
  <1>3. ASSUME NEW i \in 1..Len(b) PROVE (a \o b)[Len(a) + i] = b[i]
    <2>1. Len(a) + i \in 1..(Len(a) + Len(b)) /\ ~(Len(a) + i <= Len(a)) /\ (Len(a) + i) - Len(a) = i
      BY <1>1
    <2> QED
      BY <1>2, <2>1
  <1> QED
    BY <1>1, <1>2, <1>3

(* The units of a request.                                                 *)
LEMMA UnitsOfRequest ==
    ASSUME NEW n \in Nat, NEW r \in Requests
    PROVE  /\ UnitsOf(n, r) \in Seq(UnitSet)
           /\ Len(UnitsOf(n, r)) >= Size
           /\ Len(UnitsOf(n, r)) > Size <=> HasData(r)
           /\ UnitsOf(n, r)[1] = <<n, 1>> /\ UnitsOf(n, r)[2] = <<n, 2>>
           /\ \A i \in 3..Len(UnitsOf(n, r)) : UnitsOf(n, r)[i] = <<n, 3>>
  <1>1. PICK d \in Nat : d = IF r.cmd = "WRITE" THEN r.len ELSE 0
    BY SessionAssumption
  <1> DEFINE h == <<<<n, 1>>, <<n, 2>>>>
             t == [i \in 1..d |-> <<n, 3>>]
  <1>2. UnitsOf(n, r) = h \o t
    BY <1>1 DEF UnitsOf
  <1>3. h \in Seq(UnitSet) /\ Len(h) = 2 /\ h[1] = <<n, 1>> /\ h[2] = <<n, 2>>
    BY DEF UnitSet
  <1>4. t \in Seq(UnitSet) /\ Len(t) = d /\ \A i \in 1..d : t[i] = <<n, 3>>
    BY DEF UnitSet
  <1> HIDE DEF h, t
  <1>5. /\ h \o t \in Seq(UnitSet) /\ Len(h \o t) = Len(h) + Len(t)
        /\ \A i \in 1..Len(h) : (h \o t)[i] = h[i]
        /\ \A i \in 1..Len(t) : (h \o t)[Len(h) + i] = t[i]
    <2>1. h \in Seq(UnitSet)
      BY <1>3
    <2>2. t \in Seq(UnitSet)
      BY <1>4
    <2> QED
      BY ONLY <2>1, <2>2, JoinedUnits
  <1>6. ASSUME NEW i \in 3..(2 + d) PROVE (h \o t)[i] = <<n, 3>>
    <2>1. i - 2 \in 1..d /\ 2 + (i - 2) = i
      OBVIOUS
    <2> QED
      BY <1>3, <1>4, <1>5, <2>1
  <1>7. d > 0 <=> HasData(r)
    <2>1. r.len \in Nat
      BY SessionAssumption
    <2> QED
      BY <1>1, <2>1 DEF HasData
  <1> QED
    BY <1>2, <1>3, <1>4, <1>5, <1>6, <1>7 DEF Size

-----------------------------------------------------------------------------
(* The answers.                                                            *)
LEMMA RepliesAre ==
    /\ \A S : Service!Replies(S) = AnswersOf(asked, S)
    /\ \A i : Service!ReplyTo(i) = AnswerTo(asked[i], i)
  <1>1. ASSUME NEW i PROVE Service!ReplyTo(i) = AnswerTo(asked[i], i)
    BY DEF Service!ReplyTo, AnswerTo, Data
  <1>2. ASSUME NEW S PROVE Service!Replies(S) = AnswersOf(asked, S)
    <2>1. [i \in DOMAIN asked |-> IF i \in S THEN Service!ReplyTo(i) ELSE <<>>]
            = [i \in DOMAIN asked |-> IF i \in S THEN AnswerTo(asked[i], i) ELSE <<>>]
      BY <1>1
    <2>2. \A q : Service!FlattenSeq(q) = FlattenSeq(q)
      BY Zenon DEF Service!FlattenSeq, FlattenSeq
    <2>3. Service!Replies(S) = FlattenSeq([i \in DOMAIN asked |-> IF i \in S THEN Service!ReplyTo(i) ELSE <<>>])
      BY <2>2, Zenon DEF Service!Replies
    <2> QED
      BY <2>1, <2>3, Zenon DEF AnswersOf
  <1> QED
    BY <1>1, <1>2

LEMMA RequestIs == \A r \in Requests : r.off \in Nat /\ r.len \in Nat
  <1> SUFFICES ASSUME NEW r \in Requests PROVE r.off \in Nat /\ r.len \in Nat
    OBVIOUS
  <1>1. r.off \in 0..(OffMod - 1) /\ r.len \in Nat /\ OffMod \in Nat
    BY SessionAssumption, Zenon
  <1>2. r.off \in Nat
    BY <1>1, SMT
  <1> QED
    BY <1>1, <1>2

LEMMA DataIs ==
    ASSUME NEW off \in Nat, NEW n \in Nat
    PROVE  /\ Data(off, n) \in Seq(Sent) /\ Len(Data(off, n)) = n
           /\ \A i \in 1..n : Data(off, n)[i] = <<"byte", off + i - 1>>
  BY DEF Data, Sent

LEMMA AnswerIs ==
    ASSUME NEW r \in Requests, NEW i \in Nat
    PROVE  AnswerTo(r, i) \in Seq(Sent)
  <1>1. <<<<"reply", i>>>> \in Seq(Sent) /\ <<>> \in Seq(Sent)
    BY DEF Sent
  <1>2. Data(r.off, r.len) \in Seq(Sent)
    BY RequestIs, DataIs
  <1>3. <<<<"reply", i>>>> \o Data(r.off, r.len) \in Seq(Sent)
    BY <1>1, <1>2, ConcatProperties
  <1> QED
    BY <1>1, <1>3 DEF AnswerTo

LEMMA PartsAre ==
    ASSUME NEW a \in Seq(Requests), NEW S
    PROVE  LET q == [i \in DOMAIN a |-> IF i \in S THEN AnswerTo(a[i], i) ELSE <<>>]
           IN  q \in Seq(Seq(Sent)) /\ Len(q) = Len(a)
  <1> DEFINE q == [i \in DOMAIN a |-> IF i \in S THEN AnswerTo(a[i], i) ELSE <<>>]
  <1>1. Len(a) \in Nat /\ DOMAIN a = 1..Len(a) /\ \A i \in 1..Len(a) : a[i] \in Requests
    BY LenProperties, ElementOfSeq
  <1>2. \A i \in 1..Len(a) : AnswerTo(a[i], i) \in Seq(Sent)
    BY <1>1, AnswerIs
  <1>3. <<>> \in Seq(Sent)
    OBVIOUS
  <1>4. q \in [1..Len(a) -> Seq(Sent)]
    BY <1>1, <1>2, <1>3
  <1> HIDE DEF q
  <1>5. q \in Seq(Seq(Sent)) /\ Len(q) = Len(a)
    BY <1>1, <1>4
  <1> QED
    BY <1>5 DEF q

LEMMA AnswersType ==
    ASSUME NEW a \in Seq(Requests), NEW S
    PROVE  AnswersOf(a, S) \in Seq(Sent)
  <1> DEFINE q == [i \in DOMAIN a |-> IF i \in S THEN AnswerTo(a[i], i) ELSE <<>>]
  <1>1. q \in Seq(Seq(Sent)) /\ Len(q) = Len(a)
    BY PartsAre
  <1>2. AnswersOf(a, S) = FlattenSeq(q)
    BY DEF AnswersOf
  <1> HIDE DEF q
  <1>3. PICK F \in [0..Len(q) -> Seq(Sent)] : Flattens(F, q, Len(q))
    BY <1>1, FlattenExists
  <1>4. FlattenSeq(q) = F[Len(q)]
    BY <1>1, <1>3, FlattenIs
  <1>5. Len(q) \in Nat
    BY <1>1, LenProperties
  <1> QED
    BY <1>2, <1>3, <1>4, <1>5

(* A request that comes later changes no answer.                           *)
LEMMA AnswersStay ==
    ASSUME NEW a \in Seq(Requests), NEW r \in Requests, NEW S \in SUBSET (1..Len(a))
    PROVE  AnswersOf(Append(a, r), S) = AnswersOf(a, S)
  <1> DEFINE b == Append(a, r)
             q == [i \in DOMAIN a |-> IF i \in S THEN AnswerTo(a[i], i) ELSE <<>>]
             p == [i \in DOMAIN b |-> IF i \in S THEN AnswerTo(b[i], i) ELSE <<>>]
  <1>1. PICK n \in Nat : n = Len(a)
    BY LenProperties
  <1>2. /\ b \in Seq(Requests) /\ Len(b) = n + 1 /\ DOMAIN b = 1..(n + 1) /\ DOMAIN a = 1..n
        /\ \A i \in 1..n : b[i] = a[i]
    BY <1>1, AppendProperties, LenProperties
  <1>3. q \in Seq(Seq(Sent)) /\ Len(q) = n
    BY <1>1, PartsAre
  <1>4. p \in Seq(Seq(Sent)) /\ Len(p) = n + 1
    BY <1>2, PartsAre
  <1>5. Agree(p, q, n)
    BY <1>2 DEF Agree
  <1>6. EmptyBehind(p, n)
    BY <1>1, <1>2, <1>4 DEF EmptyBehind
  <1>7. EmptyBehind(q, n)
    BY <1>3 DEF EmptyBehind
  <1>8. AnswersOf(b, S) = FlattenSeq(p) /\ AnswersOf(a, S) = FlattenSeq(q)
    BY DEF AnswersOf
  <1> HIDE DEF b, p, q
  <1>9. n <= Len(p) /\ n <= Len(q)
    BY <1>3, <1>4
  <1>10. FlattenSeq(p) = FlattenSeq(q)
    BY ONLY <1>1, <1>3, <1>4, <1>5, <1>6, <1>7, <1>9, FlattenSame
  <1> QED
    BY <1>8, <1>10 DEF b

(* The answer to a request goes behind those to the ones before it.        *)
LEMMA AnswersGrow ==
    ASSUME NEW a \in Seq(Requests), NEW n \in 1..Len(a), NEW S \in SUBSET (1..Len(a)),
           \A m \in S : m < n
    PROVE  AnswersOf(a, S \cup {n}) = AnswersOf(a, S) \o AnswerTo(a[n], n)
  <1> DEFINE T == S \cup {n}
             q == [i \in DOMAIN a |-> IF i \in T THEN AnswerTo(a[i], i) ELSE <<>>]
             p == [i \in DOMAIN a |-> IF i \in S THEN AnswerTo(a[i], i) ELSE <<>>]
  <1>1. Len(a) \in Nat /\ DOMAIN a = 1..Len(a)
    BY LenProperties
  <1>2. PICK m \in Nat : n = m + 1
    BY <1>1
  <1>3. q \in Seq(Seq(Sent)) /\ Len(q) = Len(a)
    BY PartsAre
  <1>4. p \in Seq(Seq(Sent)) /\ Len(p) = Len(a)
    BY PartsAre
  <1>5. Agree(q, p, m)
    BY <1>1, <1>2 DEF Agree
  <1>6. EmptyBehind(q, n)
    BY <1>1, <1>2, <1>3 DEF EmptyBehind
  <1>7. EmptyBehind(p, m)
    BY <1>1, <1>2, <1>4 DEF EmptyBehind
  <1>8. AnswersOf(a, T) = FlattenSeq(q) /\ AnswersOf(a, S) = FlattenSeq(p)
    BY DEF AnswersOf
  <1>9. q[n] = AnswerTo(a[n], n)
    BY <1>1
  <1> HIDE DEF p, q, T
  <1>10. n \in 1..Len(q) /\ Len(p) = Len(q)
    BY <1>3, <1>4
  <1>11. FlattenSeq(q) = FlattenSeq(p) \o q[n]
    BY ONLY <1>2, <1>3, <1>4, <1>5, <1>6, <1>7, <1>10, FlattenOneMore
  <1> QED
    BY <1>8, <1>9, <1>11 DEF T

-----------------------------------------------------------------------------
(* The types.                                                              *)
LEMMA Facts ==
    ASSUME TypeInv
    PROVE  /\ Len(asked) \in Nat /\ Len(net) \in Nat
           /\ \A i \in 1..Len(asked) : /\ asked[i] \in Requests /\ asked[i].cmd \in Cmds
                                       /\ asked[i].off \in Nat /\ asked[i].len \in Nat
           /\ \A i \in 1..Len(net) : net[i] \in UnitSet
           /\ BuffLen \in Nat /\ BuffLen > 0 /\ Size = 2
           /\ request[1] \in UnitSet \cup {Garbage} /\ request[2] \in UnitSet \cup {Garbage}
  <1>1. asked \in Seq(Requests) /\ net \in Seq(UnitSet)
    BY DEF TypeInv
  <1>2. Len(asked) \in Nat /\ Len(net) \in Nat
    BY <1>1, LenProperties
  <1>3. \A i \in 1..Len(asked) : asked[i] \in Requests
    BY <1>1, ElementOfSeq
  <1>4. \A i \in 1..Len(net) : net[i] \in UnitSet
    BY <1>1, ElementOfSeq
  <1>5. \A r \in Requests : r.cmd \in Cmds /\ r.off \in Nat /\ r.len \in Nat
    BY RequestIs DEF Cmds
  <1>6. BuffLen \in Nat /\ BuffLen > 0
    <2>1. BuffLen \in Nat \ {0}
      BY SessionAssumption
    <2> QED
      BY <2>1
  <1>7. request \in [1..2 -> UnitSet \cup {Garbage}]
    BY DEF TypeInv, Size
  <1>8. request[1] \in UnitSet \cup {Garbage} /\ request[2] \in UnitSet \cup {Garbage}
    BY ONLY <1>7
  <1> QED
    BY <1>2, <1>3, <1>4, <1>5, <1>6, <1>8 DEF Size

LEMMA TypeInit == Init => TypeInv
  <1> SUFFICES ASSUME Init PROVE TypeInv
    OBVIOUS
  <1>1. NoCur \in [to : Nat, cmd : Cmds, off : Nat, len : Nat]
    BY DEF NoCur, Cmds
  <1>2. <<Garbage, Garbage>> \in [1..2 -> UnitSet \cup {Garbage}]
    OBVIOUS
  <1>3. \A i \in 1..2 : <<Garbage, Garbage>>[i][2] = 0
    BY DEF Garbage
  <1>4. BuffLen \in Nat
    BY SessionAssumption
  <1>5. Len(net) = 0 /\ net \in Seq(UnitSet) /\ asked \in Seq(Requests)
    BY DEF Init
  <1>6. /\ request \in [1..2 -> UnitSet \cup {Garbage}]
        /\ \A i \in 1..2 : request[i][2] # 0 => request[i][1] \in 1..Len(asked)
    BY <1>2, <1>3 DEF Init
  <1>7. cur \in [to : Nat, cmd : Cmds, off : Nat, len : Nat]
    BY <1>1 DEF Init
  <1>8. /\ driver \in Drivers /\ strayed = FALSE /\ broken = FALSE
        /\ peer = "open" /\ pc = "recv" /\ total = 0 /\ got \in Seq(Sent)
    BY DEF Init
  <1>9. \A i \in 1..Len(net) : net[i][1] \in 1..Len(asked)
    BY <1>5
  <1>10. total \in 0..(2 + BuffLen) /\ total < 2
    BY <1>4, <1>8
  <1> QED
    BY ONLY <1>5, <1>6, <1>7, <1>8, <1>9, <1>10 DEF TypeInv, Size

LEMMA PeerTypes ==
    ASSUME TypeInv, Peer
    PROVE  TypeInv'
  <1> USE Facts DEF TypeInv
  <1>1. CASE PeerLeaves
    BY <1>1 DEF PeerLeaves
  <1>2. CASE Reset
    BY <1>2 DEF Reset
  <1>3. ASSUME NEW r \in Requests, PeerAsks(r) PROVE TypeInv'
    <2> DEFINE n == Len(asked) + 1
               u == UnitsOf(n, r)
    <2>1. n \in Nat
      BY Facts
    <2>2. u \in Seq(UnitSet) /\ \A i \in 1..Len(u) : u[i][1] = n
      <3>1. /\ u \in Seq(UnitSet) /\ u[1] = <<n, 1>> /\ u[2] = <<n, 2>>
            /\ \A i \in 3..Len(u) : u[i] = <<n, 3>>
        BY ONLY <1>3, <2>1, UnitsOfRequest
      <3> HIDE DEF u, n
      <3>2. Len(u) \in Nat
        BY <3>1, LenProperties
      <3> QED
        BY ONLY <3>1, <3>2
    <2>3. /\ net \o u \in Seq(UnitSet) /\ Len(u) \in Nat
          /\ Len(net \o u) = Len(net) + Len(u)
          /\ \A i \in 1..Len(net) : (net \o u)[i] = net[i]
          /\ \A i \in 1..Len(u) : (net \o u)[Len(net) + i] = u[i]
      <3>1. net \in Seq(UnitSet)
        BY DEF TypeInv
      <3>2. u \in Seq(UnitSet)
        BY <2>2
      <3> HIDE DEF u
      <3> QED
        BY ONLY <3>1, <3>2, JoinedUnits
    <2>4. asked' \in Seq(Requests) /\ Len(asked') = Len(asked) + 1
      <3>1. asked' = Append(asked, r)
        BY <1>3 DEF PeerAsks
      <3> QED
        BY <3>1, AppendProperties
    <2>5. net' = net \o u
      BY <1>3 DEF PeerAsks
    <2> HIDE DEF u
    <2>6. ASSUME NEW i \in 1..Len(net') PROVE net'[i][1] \in 1..Len(asked')
      <3>1. CASE i <= Len(net)
        <4>1. i \in 1..Len(net)
          BY <3>1
        <4> QED
          BY <2>3, <2>4, <2>5, <4>1, SMTT(40)
      <3>2. CASE i > Len(net)
        <4>1. i - Len(net) \in 1..Len(u) /\ Len(net) + (i - Len(net)) = i
          BY <2>3, <2>5, <3>2
        <4>2. net'[i] = u[i - Len(net)]
          BY <2>3, <2>5, <4>1
        <4>3. net'[i][1] = n
          BY <2>2, <4>1, <4>2
        <4> QED
          BY <2>4, <4>3
      <3> QED
        BY <3>1, <3>2
    <2>7. strayed' \in BOOLEAN
      BY <1>3 DEF PeerAsks
    <2>8. UNCHANGED <<driver, got, broken, peer, pc, request, total, cur>>
      BY <1>3 DEF PeerAsks
    <2>9. \A i \in 1..Size : request[i][2] # 0 => request[i][1] \in 1..Len(asked')
      BY <2>4
    <2>10. net' \in Seq(UnitSet)
      BY <2>3, <2>5
    <2> QED
      BY <2>4, <2>6, <2>7, <2>8, <2>9, <2>10
  <1> QED
    BY <1>1, <1>2, <1>3 DEF Peer

(* What is left of the net after a recv() of k units.                      *)
LEMMA NetRest ==
    ASSUME TypeInv, NEW k \in Nat, k <= Len(net), net' = SubSeq(net, k + 1, Len(net))
    PROVE  /\ net' \in Seq(UnitSet) /\ Len(net') = Len(net) - k
           /\ \A j \in 1..(Len(net) - k) : net'[j] = net[j + k]
           /\ \A j \in 1..(Len(net) - k) : net'[j][1] \in 1..Len(asked)
  <1>1. net \in Seq(UnitSet)
    BY DEF TypeInv
  <1>2. /\ net' \in Seq(UnitSet) /\ Len(net') = Len(net) - k
        /\ \A j \in 1..(Len(net) - k) : net'[j] = net[j + k]
    BY <1>1, RestOf
  <1>3. ASSUME NEW j \in 1..(Len(net) - k) PROVE net'[j][1] \in 1..Len(asked)
    <2>1. j + k \in 1..Len(net) /\ net'[j] = net[j + k]
      BY <1>2, Facts, SMTT(40)
    <2> QED
      BY <2>1 DEF TypeInv
  <1> QED
    BY <1>2, <1>3

LEMMA SendTypes ==
    ASSUME TypeInv, NEW u \in Seq(Sent), Send(u)
    PROVE  got' \in Seq(Sent) /\ peer' \in {"open", "poked"}
  <1>1. got \o u \in Seq(Sent) /\ got \in Seq(Sent)
    BY ConcatProperties DEF TypeInv
  <1> QED
    BY <1>1 DEF Send

LEMMA DriverTypes ==
    ASSUME TypeInv, ~broken, DriverStep \/ AppStops, UNCHANGED <<driver, asked, strayed>>
    PROVE  TypeInv'
  <1> USE Facts
  <1>0. UNCHANGED <<driver, asked, strayed>> /\ TypeInv /\ ~broken
    OBVIOUS
  <1>1. ASSUME Over PROVE TypeInv'
    BY <1>0, <1>1 DEF Over, TypeInv
  <1>2. ASSUME NEW k \in 1..Size, Recv(k) PROVE TypeInv'
    <2>1. k \in Nat /\ k > 0 /\ k <= 2 /\ k <= Len(net) /\ net' = SubSeq(net, k + 1, Len(net))
      BY <1>2 DEF Recv, Least
    <2>2. /\ net' \in Seq(UnitSet) /\ Len(net') = Len(net) - k
          /\ \A j \in 1..(Len(net) - k) : net'[j][1] \in 1..Len(asked)
      BY <2>1, NetRest
    <2>3. total \in Nat /\ total < 2
      BY <1>0, <1>2 DEF Recv, TypeInv
    <2>4. request' = [i \in 1..2 |-> IF i \in (total + 1)..(total + k) THEN net[i - total] ELSE request[i]]
      BY <1>2 DEF Recv
    <2>5. ASSUME NEW i \in 1..2
          PROVE  /\ request'[i] \in UnitSet \cup {Garbage}
                 /\ request'[i][2] # 0 => request'[i][1] \in 1..Len(asked)
      <3>1. CASE i \in (total + 1)..(total + k)
        <4>1. i - total \in 1..Len(net) /\ request'[i] = net[i - total]
          BY <2>1, <2>3, <2>4, <3>1, SMTT(40)
        <4> QED
          BY <1>0, <4>1 DEF TypeInv
      <3>2. CASE i \notin (total + 1)..(total + k)
        <4>1. request'[i] = request[i]
          BY <2>4, <3>2
        <4> QED
          BY <1>0, <4>1 DEF TypeInv
      <3> QED
        BY <3>1, <3>2
    <2>6. request' \in [1..2 -> UnitSet \cup {Garbage}]
      BY <2>4, <2>5
    <2>7. /\ total' = total + k /\ broken' \in BOOLEAN /\ broken' = (total + k > 2)
          /\ pc' = IF total + k >= 2 THEN "decode" ELSE "recv"
          /\ UNCHANGED <<got, peer, cur>>
      BY <1>2 DEF Recv
    <2>8. total' \in 0..(2 + BuffLen) /\ (~broken' => total' <= 2) /\ (pc' = "recv" => total' < 2)
      <3>1. BuffLen \in Nat /\ BuffLen > 0
        BY Facts
      <3> QED
        <4>1. total' \in Nat /\ total' <= 3
          BY <2>1, <2>3, <2>7
        <4>2. total' \in 0..(2 + BuffLen)
          BY ONLY <3>1, <4>1
        <4>3. ~broken' => total' <= 2
          <5>1. ~broken' => ~(total + k > 2)
            BY <2>7, Zenon
          <5> QED
            BY <2>1, <2>3, <2>7, <5>1
        <4>4. pc' = "recv" => total' < 2
          BY <2>7, <4>1
        <4> QED
          BY <4>2, <4>3, <4>4
    <2> QED
      BY <1>0, <2>2, <2>5, <2>6, <2>7, <2>8 DEF TypeInv
  <1>3. ASSUME NEW k \in 1..BuffLen, Drain(k) PROVE TypeInv'
    <2>1. PICK c \in Nat : c = Least(cur.len, BuffLen) /\ c <= BuffLen /\ c > 0
      BY <1>0, <1>3, SMTT(40) DEF Drain, TypeInv, Least
    <2>2. k \in Nat /\ k <= Len(net) /\ net' = SubSeq(net, k + 1, Len(net)) /\ k <= c
      BY <1>3, <2>1 DEF Drain, Least
    <2>3. /\ net' \in Seq(UnitSet) /\ Len(net') = Len(net) - k
          /\ \A j \in 1..(Len(net) - k) : net'[j][1] \in 1..Len(asked)
      BY <2>2, NetRest
    <2>4. /\ broken' \in BOOLEAN /\ total' = (IF total + k >= c THEN 0 ELSE total + k)
          /\ UNCHANGED <<got, peer, pc, request, cur>> /\ pc = "drain"
      BY <1>3, <2>1 DEF Drain
    <2>5. total \in Nat
      BY <1>0 DEF TypeInv
    <2>6. total' \in 0..(2 + BuffLen) /\ total' < c
      BY <2>1, <2>2, <2>4, <2>5
    <2> QED
      BY <1>0, <2>1, <2>3, <2>4, <2>6 DEF TypeInv
  <1>4. CASE RecvEnd
    <2>1. total < 2 /\ pc = "recv"
      BY <1>0, <1>4 DEF RecvEnd, TypeInv
    <2>2. CASE UNCHANGED request
      BY <1>0, <1>4, <2>1, <2>2 DEF RecvEnd, TypeInv
    <2>3. CASE request' = [i \in 1..Size |-> IF i <= total THEN request[i] ELSE Garbage]
      <3>1. ASSUME NEW i \in 1..2
            PROVE  /\ request'[i] \in UnitSet \cup {Garbage}
                   /\ request'[i][2] # 0 => request'[i][1] \in 1..Len(asked)
        BY <1>0, <2>3 DEF TypeInv, Garbage
      <3>2. request' \in [1..2 -> UnitSet \cup {Garbage}]
        BY <2>3, <3>1
      <3> QED
        BY <1>0, <1>4, <2>1, <3>1, <3>2, SMTT(40) DEF RecvEnd, TypeInv
    <2> QED
      BY <1>4, <2>2, <2>3 DEF RecvEnd
  <1>5. CASE WouldBlock
    <2>1. total' = 0 /\ UNCHANGED <<got, peer, net, pc, request, cur, broken>> /\ pc = "recv"
      BY <1>5 DEF WouldBlock
    <2>2. total' \in 0..(Size + BuffLen) /\ total' < Size
      BY <2>1
    <2> QED
      BY <1>0, <2>1, <2>2 DEF TypeInv
  <1>6. CASE Decode
    <2>1. request[1][1] \in 1..Len(asked)
      BY <1>0, <1>6 DEF Decode, RightMagic, TypeInv
    <2>2. request[2][2] = 2 => request[2][1] \in 1..Len(asked)
      BY <1>0 DEF TypeInv
    <2>3. PICK r \in (IF request[2][2] = 2 THEN {asked[request[2][1]]} ELSE Requests) :
             cur' = [to |-> request[1][1], cmd |-> asked[request[1][1]].cmd, off |-> r.off, len |-> r.len]
      BY <1>6 DEF Decode
    <2>4. r.off \in Nat /\ r.len \in Nat
      BY <2>2, <2>3, RequestIs
    <2>5. cur' \in [to : Nat, cmd : Cmds, off : Nat, len : Nat]
      BY <2>1, <2>3, <2>4
    <2> QED
      BY <1>0, <1>6, <2>5 DEF Decode, TypeInv
  <1>7. CASE SendReply
    <2>1. <<<<"reply", cur.to>>>> \in Seq(Sent)
      BY <1>0 DEF Sent, TypeInv
    <2>2. got' \in Seq(Sent) /\ peer' \in {"open", "poked"}
      BY <1>0, <1>7, <2>1, SendTypes DEF SendReply
    <2> QED
      BY <1>0, <1>7, <2>2 DEF SendReply, TypeInv
  <1>8. CASE SendData
    <2>1. PICK c \in Nat : c = Least(cur.len, BuffLen) /\ c <= cur.len
      BY <1>0 DEF TypeInv, Least
    <2>2. /\ cur' = [cur EXCEPT !.len = @ - c, !.off = @ + c]
          /\ pc' = IF cur.len = c THEN "recv" ELSE "data"
      BY <1>8, <2>1 DEF SendData
    <2>3. cur' \in [to : Nat, cmd : Cmds, off : Nat, len : Nat] /\ cur'.len = cur.len - c
      <3>1. cur \in [to : Nat, cmd : Cmds, off : Nat, len : Nat]
        BY <1>0 DEF TypeInv
      <3>2. cur.len - c \in Nat /\ cur.off + c \in Nat
        BY <2>1, <3>1
      <3> QED
        BY ONLY <2>2, <3>1, <3>2
    <2>4. pc' = "data" => cur'.len > 0
      BY <1>0, <2>1, <2>2, <2>3 DEF TypeInv
    <2>5. Data(cur.off, c) \in Seq(Sent)
      BY <1>0, <2>1, DataIs DEF TypeInv
    <2>6. got' \in Seq(Sent) /\ peer' \in {"open", "poked"}
      BY <1>0, <1>8, <2>1, <2>5, SendTypes DEF SendData
    <2>7. UNCHANGED <<net, request, total, broken>> /\ pc = "data"
      BY <1>8 DEF SendData
    <2> QED
      BY <1>0, <2>2, <2>3, <2>4, <2>6, <2>7 DEF TypeInv
  <1>9. CASE WriteBegin
    BY <1>0, <1>9 DEF WriteBegin, TypeInv, Least
  <1>10. CASE Ignore \/ Answer
    BY <1>0, <1>10 DEF Ignore, Answer, TypeInv
  <1>11. CASE RecvFails \/ BadMagic \/ Disconnect \/ SendFails \/ DriveReadFails \/ AppStops
    BY <1>1, <1>11 DEF RecvFails, BadMagic, Disconnect, SendFails, DriveReadFails, AppStops
  <1>12. CASE ReadBeyond
    BY <1>0, <1>12 DEF ReadBeyond, TypeInv
  <1> QED
    BY <1>2, <1>3, <1>4, <1>5, <1>6, <1>7, <1>8, <1>9, <1>10, <1>11, <1>12 DEF DriverStep

LEMMA TypeStep == TypeInv /\ [Next]_vars => TypeInv'
  <1> SUFFICES ASSUME TypeInv, [Next]_vars PROVE TypeInv'
    OBVIOUS
  <1>1. CASE Peer
    BY <1>1, PeerTypes
  <1>2. CASE Driver \/ Stop
    BY <1>2, DriverTypes DEF Driver, Stop
  <1>3. CASE UNCHANGED vars
    BY <1>3 DEF vars, TypeInv
  <1> QED
    BY <1>1, <1>2, <1>3 DEF Next

(* The types hold: the length that is left to send does not pass zero, and *)
(* sock_read() fills no more than the structure of a request.              *)
THEOREM SessionTypeOK == Spec => []TypeOK
  <1>1. TypeInv => TypeOK
    <2>1. SUFFICES ASSUME TypeInv PROVE TypeOK
      OBVIOUS
    <2> QED
      BY <2>1, Facts DEF TypeInv, TypeOK
  <1> QED
    BY <1>1, TypeInit, TypeStep, PTL DEF Spec

-----------------------------------------------------------------------------
(* The stream.                                                             *)
LEMMA ListingUnits ==
    ASSUME NEW U, NEW n \in Nat, NEW f \in [1..n -> U]
    PROVE  f \in Seq(U) /\ Len(f) = n /\ DOMAIN f = 1..n
  OBVIOUS

LEMMA StreamIs ==
    ASSUME TypeInv, ~broken
    PROVE  /\ Held \in 0..2
           /\ Stream \in Seq(UnitSet \cup {Garbage})
           /\ Len(Stream) = Held + Len(net)
           /\ \A i \in 1..Len(Stream) : Stream[i] = IF i <= Held THEN request[i] ELSE net[i - Held]
  <1>1. Held \in 0..2
    BY DEF Held, TypeInv, Size
  <1>2. PICK n \in Nat : n = Held + Len(net)
    BY <1>1, Facts
  <1>3. ASSUME NEW i \in 1..n
        PROVE  (IF i <= Held THEN request[i] ELSE net[i - Held]) \in UnitSet \cup {Garbage}
    <2>1. CASE i <= Held
      <3>1. i = 1 \/ i = 2
        BY <1>1, <2>1
      <3> QED
        BY <2>1, <3>1, Facts
    <2>2. CASE ~(i <= Held)
      <3>1. i - Held \in 1..Len(net)
        BY <1>1, <1>2, <2>2, Facts
      <3> QED
        BY <2>2, <3>1, Facts
    <2> QED
      BY <2>1, <2>2
  <1>4. Stream = [i \in 1..n |-> IF i <= Held THEN request[i] ELSE net[i - Held]]
    BY <1>2 DEF Stream
  <1>5. Stream \in [1..n -> UnitSet \cup {Garbage}]
    BY <1>3, <1>4
  <1>6. Stream \in Seq(UnitSet \cup {Garbage}) /\ Len(Stream) = n
    BY ONLY <1>2, <1>5, ListingUnits
  <1> QED
    BY <1>1, <1>2, <1>4, <1>6

(* What is behind the first d units is in order.                           *)
LEMMA OrderOfRest ==
    ASSUME NEW u, NEW v \in Seq(UnitSet \cup {Garbage}), NEW d \in Nat, NEW a,
           InOrder(u, a), Len(v) + d = Len(u), \A i \in 1..Len(v) : v[i] = u[i + d]
    PROVE  /\ InOrder(v, a)
           /\ \A S : AllAfter(u, S) => AllAfter(v, S)
           /\ \A n : AllBehind(u, n) => AllBehind(v, n)
  <1>1. Len(u) \in Nat /\ Len(v) \in Nat
    BY LenProperties DEF InOrder
  <1>2. \A i \in 1..Len(u) : u[i] \in UnitSet
    BY ElementOfSeq DEF InOrder
  <1>3. \A i \in 1..Len(v) : i + d \in 1..Len(u)
    BY <1>1
  <1>4. \A i \in 1..Len(v) : v[i] \in UnitSet
    BY <1>2, <1>3
  <1>5. v \in Seq(UnitSet)
    <2>1. v \in [1..Len(v) -> UnitSet \cup {Garbage}]
      BY LenProperties
    <2>2. v \in [1..Len(v) -> UnitSet]
      BY ONLY <1>4, <2>1
    <2> QED
      BY ONLY <1>1, <2>2, ListingUnits
  <1>6. \A i, k \in 1..Len(v) : i < k => Before(v[i], v[k])
    <2> TAKE i, k \in 1..Len(v)
    <2> HAVE i < k
    <2>1. i + d < k + d
      BY <1>1
    <2> QED
      BY <1>3, <2>1 DEF InOrder
  <1>7. \A i \in 1..Len(v) : v[i][2] = 1 => i < Len(v) /\ v[i + 1] = <<v[i][1], 2>>
    <2> TAKE i \in 1..Len(v)
    <2> HAVE v[i][2] = 1
    <2>1. i + d < Len(u) /\ u[(i + d) + 1] = <<u[i + d][1], 2>>
      BY <1>3 DEF InOrder
    <2>2. i < Len(v) /\ i + 1 \in 1..Len(v) /\ (i + 1) + d = (i + d) + 1
      BY <1>1, <2>1
    <2> QED
      BY <2>1, <2>2
  <1>8. \A i \in 1..Len(v) : /\ v[i][1] \in 1..Len(a)
                             /\ v[i][2] = 3 => HasData(a[v[i][1]])
    BY <1>3 DEF InOrder
  <1>9. InOrder(v, a)
    BY ONLY <1>5, <1>6, <1>7, <1>8, Zenon DEF InOrder
  <1>10. \A S : AllAfter(u, S) => AllAfter(v, S)
    BY <1>3 DEF AllAfter
  <1>11. \A n : AllBehind(u, n) => AllBehind(v, n)
    BY <1>3 DEF AllBehind
  <1> QED
    BY <1>9, <1>10, <1>11

(* One request more.                                                       *)
LEMMA OrderOfMore ==
    ASSUME NEW a \in Seq(Requests), NEW r \in Requests, NEW u, InOrder(u, a),
           NEW n \in Nat, n = Len(a) + 1,
           NEW v \in Seq(UnitSet \cup {Garbage}), Len(v) = Len(u) + Len(UnitsOf(n, r)),
           \A i \in 1..Len(u) : v[i] = u[i],
           \A i \in 1..Len(UnitsOf(n, r)) : v[Len(u) + i] = UnitsOf(n, r)[i]
    PROVE  /\ InOrder(v, Append(a, r))
           /\ \A S \in SUBSET (1..Len(a)) : AllAfter(u, S) => AllAfter(v, S)
           /\ \A m \in 1..Len(a) : AllBehind(u, m) => AllBehind(v, m)
  <1> DEFINE b == Append(a, r)
             w == UnitsOf(n, r)
  <1>1. /\ Len(a) \in Nat /\ Len(b) = n /\ b[n] = r
        /\ \A i \in 1..Len(a) : b[i] = a[i]
    BY AppendProperties, LenProperties
  <1>2. /\ w \in Seq(UnitSet) /\ Len(w) >= 2 /\ (Len(w) > 2 <=> HasData(r))
        /\ w[1] = <<n, 1>> /\ w[2] = <<n, 2>> /\ \A i \in 3..Len(w) : w[i] = <<n, 3>>
    BY UnitsOfRequest DEF Size
  <1> HIDE DEF w, b
  <1>3. PICK l \in Nat : l = Len(u)
    BY LenProperties DEF InOrder
  <1>4. PICK e \in Nat : e = Len(w)
    BY <1>2, LenProperties
  <1>5. Len(v) = l + e /\ (\A i \in 1..l : v[i] = u[i]) /\ (\A i \in 1..e : v[l + i] = w[i])
    BY <1>3, <1>4 DEF w
  <1>6. \A i \in 1..e : w[i][1] = n /\ w[i][2] = IF i < 3 THEN i ELSE 3
    <2> TAKE i \in 1..e
    <2>1. i = 1 \/ i = 2 \/ i \in 3..e
      BY <1>4
    <2> QED
      BY <1>2, <1>4, <2>1
  <1>7. \A i \in 1..(l + e) : \/ i \in 1..l /\ v[i] = u[i]
                              \/ i - l \in 1..e /\ v[i] = w[i - l]
    <2> TAKE i \in 1..(l + e)
    <2>1. CASE i <= l
      <3>1. i \in 1..l
        BY <2>1
      <3>2. v[i] = u[i]
        BY <1>5, <3>1
      <3> QED
        BY ONLY <3>1, <3>2
    <2>2. CASE i > l
      <3>1. i - l \in 1..e /\ l + (i - l) = i
        BY <2>2
      <3> QED
        BY <1>5, <3>1
    <2> QED
      BY <2>1, <2>2
  <1>8. /\ \A i \in 1..l : u[i] \in UnitSet /\ u[i][1] \in 1..Len(a)
        /\ \A i \in 1..e : w[i] \in UnitSet
    BY <1>2, <1>3, <1>4, ElementOfSeq DEF InOrder
  <1>9. v \in Seq(UnitSet)
    <2>1. v \in [1..(l + e) -> UnitSet \cup {Garbage}]
      BY <1>5, LenProperties
    <2>2. \A i \in 1..(l + e) : v[i] \in UnitSet
      BY <1>7, <1>8
    <2>3. v \in [1..(l + e) -> UnitSet]
      BY ONLY <2>1, <2>2
    <2>4. l + e \in Nat
      OBVIOUS
    <2> QED
      BY ONLY <2>3, <2>4, ListingUnits
  <1>10. \A i \in 1..(l + e) : v[i][1] \in 1..n
    <2> TAKE i \in 1..(l + e)
    <2>1. CASE i \in 1..l /\ v[i] = u[i]
      BY <1>1, <1>8, <2>1
    <2>2. CASE i - l \in 1..e /\ v[i] = w[i - l]
      BY <1>1, <1>6, <2>2
    <2> QED
      BY <1>7, <2>1, <2>2
  <1>11. ASSUME NEW i \in 1..(l + e), NEW k \in 1..(l + e), i < k PROVE Before(v[i], v[k])
    <2>1. CASE k <= l
      <3>1. i \in 1..l /\ k \in 1..l /\ v[i] = u[i] /\ v[k] = u[k]
        BY <1>5, <1>11, <2>1
      <3> QED
        BY <1>3, <1>11, <3>1 DEF InOrder
    <2>2. CASE i <= l /\ k > l
      <3>1. i \in 1..l /\ v[i] = u[i] /\ k - l \in 1..e /\ v[k] = w[k - l]
        BY <1>7, <2>2
      <3>2. v[i][1] \in 1..Len(a) /\ v[k][1] = n
        BY <1>6, <1>8, <3>1
      <3>3. Len(a) \in Nat /\ Len(a) < n
        BY <1>1
      <3>4. v[i][1] < v[k][1]
        BY ONLY <3>2, <3>3
      <3> QED
        BY <3>4 DEF Before
    <2>3. CASE i > l
      <3>0. k > l /\ ~(i \in 1..l) /\ ~(k \in 1..l)
        BY <1>11, <2>3
      <3>1. i - l \in 1..e /\ v[i] = w[i - l] /\ k - l \in 1..e /\ v[k] = w[k - l]
        BY <1>7, <3>0, Zenon
      <3>2. i - l < k - l
        BY <1>11
      <3>3. v[i][1] = n /\ v[k][1] = n /\ v[k][2] = (IF k - l < 3 THEN k - l ELSE 3)
        BY ONLY <1>6, <3>1, SMT
      <3>4. v[i][2] = IF i - l < 3 THEN i - l ELSE 3
        BY ONLY <1>6, <3>1, SMT
      <3> QED
        BY <1>1, <3>2, <3>3, <3>4 DEF Before
    <2> QED
      BY <2>1, <2>2, <2>3
  <1>12. ASSUME NEW i \in 1..(l + e), v[i][2] = 1
         PROVE  i < l + e /\ v[i + 1] = <<v[i][1], 2>>
    <2>1. CASE i <= l
      <3>1. i \in 1..l /\ v[i] = u[i]
        BY <1>5, <2>1
      <3>2. i < l /\ u[i + 1] = <<u[i][1], 2>>
        BY <1>3, <1>12, <3>1 DEF InOrder
      <3>3. i + 1 \in 1..l
        BY <3>2
      <3> QED
        BY <1>5, <3>1, <3>2, <3>3
    <2>2. CASE i > l
      <3>1. i - l \in 1..e /\ v[i] = w[i - l]
        BY <1>7, <2>2
      <3>2. i - l = 1
        BY <1>6, <1>12, <3>1
      <3>3. i = l + 1 /\ i + 1 = l + 2
        BY <3>2
      <3>4. e >= 2 /\ 2 \in 1..e
        BY <1>2, <1>4
      <3>5. v[i] = <<n, 1>>
        BY ONLY <1>2, <3>1, <3>2, Zenon
      <3>6. v[i + 1] = <<n, 2>>
        BY ONLY <1>2, <1>5, <3>3, <3>4, Zenon
      <3>7. v[i][1] = n
        BY <3>5
      <3>8. i < l + e
        BY <3>3, <3>4
      <3> QED
        BY <3>6, <3>7, <3>8, Zenon
    <2> QED
      BY <2>1, <2>2
  <1>13. ASSUME NEW i \in 1..(l + e), v[i][2] = 3
         PROVE  HasData(b[v[i][1]])
    <2>1. CASE i <= l
      <3>0. i \in 1..l
        BY <2>1
      <3>1. i \in 1..l /\ v[i] = u[i] /\ u[i][1] \in 1..Len(a)
        BY <1>5, <1>8, <3>0
      <3>2. HasData(a[u[i][1]])
        BY <1>3, <1>13, <3>1 DEF InOrder
      <3> QED
        BY <1>1, <3>1, <3>2
    <2>2. CASE i > l
      <3>1. i - l \in 1..e /\ v[i] = w[i - l]
        BY <1>7, <2>2
      <3>2. i - l >= 3 /\ v[i][1] = n
        BY <1>6, <1>13, <3>1
      <3>3. e > 2
        BY <3>1, <3>2
      <3> QED
        BY <1>1, <1>2, <1>4, <3>2, <3>3
    <2> QED
      BY <2>1, <2>2
  <1>14. InOrder(v, b)
    BY <1>1, <1>5, <1>9, <1>10, <1>11, <1>12, <1>13 DEF InOrder
  <1>15. ASSUME NEW S \in SUBSET (1..Len(a)), AllAfter(u, S) PROVE AllAfter(v, S)
    <2>1. ASSUME NEW m \in S, NEW i \in 1..(l + e) PROVE m < v[i][1]
      <3>1. CASE i \in 1..l /\ v[i] = u[i]
        BY <1>3, <1>15, <3>1 DEF AllAfter
      <3>2. CASE i - l \in 1..e /\ v[i] = w[i - l]
        BY <1>1, <1>6, <3>2
      <3> QED
        BY <1>7, <3>1, <3>2
    <2> QED
      BY <1>5, <2>1 DEF AllAfter
  <1>16. ASSUME NEW m \in 1..Len(a), AllBehind(u, m) PROVE AllBehind(v, m)
    <2>1. ASSUME NEW i \in 1..(l + e) PROVE Before(<<m, 2>>, v[i])
      <3>1. CASE i \in 1..l /\ v[i] = u[i]
        BY <1>3, <1>16, <3>1 DEF AllBehind
      <3>2. CASE i - l \in 1..e /\ v[i] = w[i - l]
        BY <1>1, <1>6, <3>2 DEF Before
      <3> QED
        BY <1>7, <3>1, <3>2
    <2> QED
      BY <1>5, <2>1 DEF AllBehind
  <1> QED
    BY <1>14, <1>15, <1>16 DEF b

-----------------------------------------------------------------------------
(* A peer that waits.                                                      *)

(* When everything is answered, and the last answer is not empty, nothing  *)
(* is under way.                                                           *)
LEMMA QuietPeer ==
    ASSUME TypeInv, ServeInv, WaitInv, Open, ~strayed, Service!AllAnswered,
           asked = <<>> \/ Service!ReplyTo(Len(asked)) # <<>>
    PROVE  /\ pc = "recv" /\ total = 0 /\ net = <<>>
           /\ Answers(1..Len(asked))
  <1>1. PICK S \in SUBSET (1..Len(asked)) : Answers(S)
    BY DEF ServeInv
  <1>2. /\ got = AnswersOf(asked, 1..Len(asked)) /\ got \in Seq(Sent) /\ Len(got) \in Nat
        /\ got \o Pending = AnswersOf(asked, S)
    <2>1. DOMAIN asked = 1..Len(asked)
      BY LenProperties DEF TypeInv
    <2>2. got \in Seq(Sent)
      BY DEF TypeInv
    <2> QED
      BY <1>1, <2>1, <2>2, LenProperties, RepliesAre DEF Service!AllAnswered, Answers
  <1>3. Pending \in Seq(Sent) /\ Len(Pending) \in Nat /\ (pc = "data" => Len(Pending) > 0)
    <2>1. <<>> \in Seq(Sent) /\ Len(<<>>) = 0
      OBVIOUS
    <2>2. pc = "data" => Data(cur.off, cur.len) \in Seq(Sent) /\ Len(Data(cur.off, cur.len)) = cur.len /\ cur.len > 0
      BY DataIs DEF TypeInv
    <2>3. pc = "data" => OnDrive
      BY DEF WaitInv, Open
    <2> QED
      BY <2>1, <2>2, <2>3, LenProperties DEF Pending, TypeInv
  <1>4. Len(got \o Pending) = Len(got) + Len(Pending)
    BY <1>2, <1>3, ConcatProperties
  <1>5. S = 1..Len(asked)
    <2>1. SUFFICES ASSUME S # 1..Len(asked) PROVE FALSE
      OBVIOUS
    <2>2. PICK n \in Nat : n = Len(asked)
      BY Facts
    <2>3. S = 1..(n - 1) /\ n > 0
      BY <1>1, <2>1, <2>2 DEF Answers
    <2>4. asked # <<>>
      BY <2>2, <2>3
    <2>5. AnswerTo(asked[n], n) \in Seq(Sent) /\ AnswerTo(asked[n], n) # <<>>
      <3>1. asked[n] \in Requests
        BY <2>2, <2>3, Facts
      <3> QED
        BY <2>2, <2>4, <3>1, AnswerIs, RepliesAre
    <2>6. AnswersOf(asked, S \cup {n}) = AnswersOf(asked, S) \o AnswerTo(asked[n], n)
      <3>1. asked \in Seq(Requests) /\ n \in 1..Len(asked) /\ \A m \in S : m < n
        BY <2>2, <2>3 DEF TypeInv
      <3> QED
        BY ONLY <3>1, AnswersGrow, S \in SUBSET (1..Len(asked))
    <2>7. S \cup {n} = 1..Len(asked)
      BY <2>2, <2>3
    <2>8. got = (got \o Pending) \o AnswerTo(asked[n], n)
      BY <1>2, <2>6, <2>7
    <2>9. Len(got) = Len(got \o Pending) + Len(AnswerTo(asked[n], n))
      <3>1. got \o Pending \in Seq(Sent)
        BY <1>2, <1>3, ConcatProperties
      <3> QED
        BY <2>5, <2>8, <3>1, ConcatProperties
    <2>10. Len(AnswerTo(asked[n], n)) \in Nat /\ Len(AnswerTo(asked[n], n)) > 0
      BY <2>5, EmptySeq, LenProperties
    <2> QED
      BY <1>2, <1>3, <1>4, <2>9, <2>10
  <1>6. pc # "data"
    <2>1. Len(Pending) = 0
      <3>1. got \o Pending = got
        BY <1>2, <1>5
      <3> QED
        BY <1>2, <1>3, <1>4, <3>1
    <2> QED
      BY <1>3, <2>1
  <1>7. Len(Stream) = 0
    <2>1. SUFFICES ASSUME Len(Stream) # 0 PROVE FALSE
      OBVIOUS
    <2>2. Len(Stream) \in Nat
      BY StreamIs, LenProperties DEF Open
    <2>3. Stream[1][1] \in 1..Len(asked) /\ \A m \in S : m < Stream[1][1]
      BY <1>1, <2>1, <2>2 DEF ServeInv, StreamInv, InOrder, Answers, AllAfter
    <2>4. Stream[1][1] < Stream[1][1] /\ Stream[1][1] \in Nat
      BY <1>5, <2>3, Facts
    <2> QED
      BY <2>4
  <1>8. Held = 0 /\ Len(net) = 0
    BY <1>7, StreamIs, Facts DEF Open
  <1>9. net = <<>>
    BY <1>8, EmptySeq DEF TypeInv
  <1>10. pc \notin {"switch", "reply"}
    <2>1. SUFFICES ASSUME pc \in {"switch", "reply"} PROVE FALSE
      OBVIOUS
    <2>2. cur.to \in 1..Len(asked) /\ \A m \in S : m < cur.to
      BY <1>1, <2>1 DEF ServeInv, CurInv, Answers
    <2>3. cur.to < cur.to /\ cur.to \in Nat
      BY <1>5, <2>2, Facts
    <2> QED
      BY <2>3
  <1>11. pc # "decode"
    BY <1>8 DEF ServeInv, StreamInv, Held, Size
  <1>12. pc = "recv"
    BY <1>6, <1>10, <1>11 DEF Open, TypeInv
  <1> QED
    BY <1>1, <1>5, <1>8, <1>9, <1>12 DEF Held

LEMMA WaitPeer ==
    ASSUME TypeInv, ServeInv, WaitInv, Peer
    PROVE  WaitInv'
  <1>1. CASE PeerLeaves
    BY <1>1 DEF PeerLeaves, WaitInv, OnDrive
  <1>2. CASE Reset
    BY <1>2 DEF Reset, WaitInv, OnDrive
  <1>3. ASSUME NEW r \in Requests, PeerAsks(r), ~strayed' PROVE WaitInv'
    <2>1. /\ ~strayed /\ Service!AllAnswered /\ ~(Len(UnitsOf(1, r)) > Size)
          /\ asked = <<>> \/ Service!ReplyTo(Len(asked)) # <<>>
          /\ ~Service!Wrapped(r)
      BY <1>3 DEF PeerAsks
    <2>2. Plain(r) /\ ~HasData(r)
      BY <2>1, UnitsOfRequest DEF Plain
    <2>3. /\ ~broken /\ (pc = "drain" => peer # "open")
          /\ (pc = "data" => OnDrive \/ peer # "open")
          /\ \A i \in 1..Len(asked) : Plain(asked[i])
      BY <2>1, <1>3 DEF WaitInv, PeerAsks
    <2>4. /\ peer = "open" /\ asked' = Append(asked, r)
          /\ net' = net \o UnitsOf(Len(asked) + 1, r)
          /\ UNCHANGED <<broken, peer, pc, total>> /\ OnDrive' = OnDrive
      BY <1>3 DEF PeerAsks, OnDrive
    <2>5. \A i \in 1..Len(asked') : Plain(asked'[i])
      <3>1. /\ Len(asked') = Len(asked) + 1 /\ asked'[Len(asked) + 1] = r
            /\ \A i \in 1..Len(asked) : asked'[i] = asked[i]
        BY <2>4, AppendProperties DEF TypeInv
      <3>2. ASSUME NEW i \in 1..Len(asked') PROVE Plain(asked'[i])
        <4>1. i \in 1..Len(asked) \/ i = Len(asked) + 1
          BY ONLY <3>1, Facts, TypeInv, <3>2
        <4>2. CASE i \in 1..Len(asked)
          <5>1. asked'[i] = asked[i]
            BY <3>1, <4>2
          <5> QED
            BY <2>3, <4>2, <5>1
        <4>3. CASE i = Len(asked) + 1
          BY <2>2, <3>1, <4>3
        <4> QED
          BY <4>1, <4>2, <4>3
      <3> QED
        BY <3>2
    <2>6. CASE pc = "over"
      BY <2>3, <2>4, <2>5, <2>6 DEF WaitInv
    <2>7. CASE pc # "over"
      <3>1. Open
        BY <2>3, <2>4, <2>7 DEF Open
      <3>2. pc = "recv" /\ total = 0 /\ net = <<>>
        BY <2>1, <3>1, QuietPeer
      <3>3. UnitsOf(Len(asked) + 1, r) \in Seq(UnitSet) /\ Len(UnitsOf(Len(asked) + 1, r)) <= Size
        <4>1. Len(asked) + 1 \in Nat
          BY Facts
        <4>2. /\ UnitsOf(Len(asked) + 1, r) \in Seq(UnitSet)
              /\ Len(UnitsOf(Len(asked) + 1, r)) > Size <=> HasData(r)
          BY ONLY <1>3, <4>1, UnitsOfRequest
        <4>3. Len(UnitsOf(Len(asked) + 1, r)) \in Nat
          BY <4>2, LenProperties
        <4> QED
          BY <2>2, <4>2, <4>3 DEF Size
      <3>4. net' = UnitsOf(Len(asked) + 1, r)
        BY <2>4, <3>2, <3>3, ConcatEmptySeq
      <3>5. pc' = "recv" /\ total' + Len(net') <= Size
        BY <2>4, <3>2, <3>3, <3>4, LenProperties DEF Size
      <3> QED
        BY <2>3, <2>4, <2>5, <3>5 DEF WaitInv
    <2> QED
      BY <2>6, <2>7
  <1>4. CASE strayed'
    BY <1>4 DEF WaitInv
  <1> QED
    BY <1>1, <1>2, <1>3, <1>4 DEF Peer

LEMMA StillOnDrive ==
    ASSUME TypeInv, SendData
    PROVE  OnDrive /\ OnDrive'
  <1>1. PICK c \in Nat : c = Least(cur.len, BuffLen)
    BY Facts DEF TypeInv, Least
  <1>2. OnDrive /\ cur' = [cur EXCEPT !.len = @ - c, !.off = @ + c]
    BY <1>1 DEF SendData
  <1>3. cur \in [to : Nat, cmd : Cmds, off : Nat, len : Nat]
    BY DEF TypeInv
  <1>4. cur'.len = cur.len - c /\ cur'.off = cur.off + c
    BY ONLY <1>2, <1>3
  <1>5. PICK x \in Nat, y \in Nat : x = cur.len /\ y = cur.off
    BY <1>3
  <1>6. (y + c) + (x - c) = y + x
    BY ONLY c \in Nat, x \in Nat, y \in Nat
  <1> QED
    BY <1>2, <1>4, <1>5, <1>6 DEF OnDrive

LEMMA WaitDriver ==
    ASSUME TypeInv, ServeInv, WaitInv, ~broken, DriverStep \/ AppStops,
           UNCHANGED <<driver, asked, strayed>>
    PROVE  WaitInv'
  <1>1. SUFFICES ASSUME ~strayed PROVE WaitInv'
    BY DEF WaitInv
  <1>2. /\ ~strayed' /\ UNCHANGED asked
        /\ \A i \in 1..Len(asked') : Plain(asked'[i])
        /\ pc = "recv" => total + Len(net) <= Size
        /\ pc \in {"decode", "switch", "reply", "data", "drain"} => net = <<>>
        /\ pc = "drain" => peer # "open"
        /\ pc = "data" => OnDrive \/ peer # "open"
    BY <1>1 DEF WaitInv
  <1>3. ASSUME Over PROVE WaitInv'
    BY <1>2, <1>3 DEF Over, WaitInv
  <1>4. ASSUME NEW k \in 1..Size, Recv(k) PROVE WaitInv'
    <2>1. /\ k \in Nat /\ k <= Len(net) /\ net' = SubSeq(net, k + 1, Len(net)) /\ pc = "recv"
          /\ total' = total + k /\ broken' = (total + k > Size)
          /\ pc' = IF total + k >= Size THEN "decode" ELSE "recv"
      BY <1>4, Facts DEF Recv, Least, Size
    <2>2. net' \in Seq(UnitSet) /\ Len(net') = Len(net) - k
      BY <2>1, NetRest
    <2>3. total + k <= Size /\ total \in Nat
      BY <1>2, <2>1, Facts DEF TypeInv
    <2>4. ~broken'
      <3>1. ~(total + k > Size)
        BY <2>1, <2>3 DEF Size
      <3> QED
        BY <2>1, <3>1
    <2>5. pc' = "decode" => Len(net') = 0
      BY <1>2, <2>1, <2>2, <2>3, Facts
    <2>6. pc' = "decode" => net' = <<>>
      BY <2>2, <2>5, EmptySeq
    <2>7. total' + Len(net') <= Size
      <3>1. Len(net) \in Nat /\ total + Len(net) <= Size
        BY <1>2, <2>1, Facts
      <3>2. total' + Len(net') = total + Len(net)
        <4>1. total' = total + k /\ Len(net') = Len(net) - k /\ k \in Nat /\ total \in Nat
          BY <2>1, <2>2, <2>3
        <4> QED
          BY ONLY <3>1, <4>1
      <3> QED
        BY <3>1, <3>2
    <2> QED
      BY <1>2, <2>1, <2>4, <2>6, <2>7 DEF WaitInv
  <1>5. ASSUME NEW k \in 1..BuffLen, Drain(k) PROVE FALSE
    <2>1. k \in Nat /\ k > 0
      BY <1>5, Facts
    <2>2. cur.len \in Nat /\ BuffLen \in Nat /\ Len(net) \in Nat
      BY Facts DEF TypeInv
    <2>3. k <= Len(net)
      BY <1>5, <2>1, <2>2 DEF Drain, Least
    <2>4. net = <<>>
      BY <1>2, <1>5 DEF Drain
    <2> QED
      BY <2>1, <2>3, <2>4
  <1>6. CASE RecvEnd
    <2>1. net' = <<>> /\ pc' = "decode" /\ ~broken'
      BY <1>6 DEF RecvEnd
    <2> QED
      BY <1>2, <2>1 DEF WaitInv
  <1>7. CASE WouldBlock
    <2>1. pc' = "recv" /\ total' = 0 /\ UNCHANGED <<net, broken>> /\ pc = "recv"
      BY <1>7 DEF WouldBlock
    <2>2. total' + Len(net') <= Size
      <3>1. total + Len(net) <= Size /\ total \in Nat /\ Len(net) \in Nat
        BY <1>2, <2>1, Facts DEF TypeInv
      <3>2. total' = 0 /\ net' = net
        BY <2>1
      <3> QED
        BY ONLY <3>1, <3>2 DEF Size
    <2> QED
      BY <1>2, <2>1, <2>2 DEF WaitInv
  <1>8. CASE Decode
    BY <1>2, <1>8 DEF Decode, WaitInv
  <1>9. CASE Ignore \/ SendReply \/ SendData
    <2>1. /\ pc \in {"switch", "reply", "data"} /\ pc' \in {"recv", "data"}
          /\ UNCHANGED <<net, broken, total>>
      BY <1>9 DEF Ignore, SendReply, SendData
    <2>2. net' = <<>> /\ total' = 0
      BY <1>2, <2>1 DEF TypeInv
    <2>3. total' + Len(net') <= Size
      BY <2>2 DEF Size
    <2>4. pc' = "data" => OnDrive' \/ peer' # "open"
      <3>1. CASE Ignore
        BY <3>1 DEF Ignore
      <3>2. CASE SendReply
        <4>1. SUFFICES ASSUME pc' = "data", peer' = "open" PROVE OnDrive'
          OBVIOUS
        <4>2. /\ pc = "reply" /\ cur.cmd = "READ" /\ cur' = cur
              /\ peer = "open"
          BY <3>2, <4>1 DEF SendReply, Send
        <4>3. /\ cur.to \in 1..Len(asked) /\ Answered(cur)
              /\ cur.cmd = asked[cur.to].cmd /\ cur.off = asked[cur.to].off
              /\ cur.len = asked[cur.to].len
          BY <4>2 DEF Open, ServeInv, CurInv
        <4>4. Plain(asked[cur.to])
          BY <1>2, <4>3
        <4>5. Service!InRange(asked[cur.to])
          BY <4>2, <4>3, <4>4
          DEF Plain, Answered, Service!Acked, Service!Wrapped, Service!Passes
        <4> QED
          BY <4>2, <4>3, <4>5 DEF OnDrive, Service!InRange
      <3>3. CASE SendData
        BY <3>3, StillOnDrive
      <3> QED
        BY <1>9, <3>1, <3>2, <3>3
    <2> QED
      BY <1>2, <2>1, <2>2, <2>3, <2>4 DEF WaitInv
  <1>10. CASE Answer
    BY <1>2, <1>10 DEF Answer, WaitInv
  <1>11. CASE WriteBegin
    <2>1. peer # "open"
      <3>1. SUFFICES ASSUME peer = "open" PROVE FALSE
        OBVIOUS
      <3>2. Open /\ pc = "switch"
        BY <1>11, <3>1 DEF WriteBegin, Open
      <3>3. /\ cur.to \in 1..Len(asked)
            /\ cur.cmd = asked[cur.to].cmd /\ cur.len = asked[cur.to].len
        BY <3>2 DEF ServeInv, CurInv
      <3>4. ~Plain(asked[cur.to])
        BY <1>11, <3>3 DEF WriteBegin, HasData, Plain
      <3> QED
        BY <1>2, <3>3, <3>4
    <2> QED
      BY <1>2, <1>11, <2>1 DEF WriteBegin, WaitInv
  <1>12. CASE RecvFails \/ BadMagic \/ Disconnect \/ SendFails \/ DriveReadFails \/ AppStops
    BY <1>3, <1>12 DEF RecvFails, BadMagic, Disconnect, SendFails, DriveReadFails, AppStops
  <1>13. CASE ReadBeyond
    <2>1. /\ pc = "data" /\ ~OnDrive /\ OnDrive' = OnDrive
          /\ UNCHANGED <<peer, net, pc, total>>
      BY <1>13 DEF ReadBeyond, OnDrive
    <2> QED
      BY <1>2, <2>1 DEF WaitInv
  <1> QED
    BY <1>4, <1>5, <1>6, <1>7, <1>8, <1>9, <1>10, <1>11, <1>12, <1>13 DEF DriverStep
-----------------------------------------------------------------------------
(* What is served.                                                         *)
StreamForm ==
    /\ Held \in 0..2
    /\ Stream \in Seq(UnitSet \cup {Garbage})
    /\ Len(Stream) = Held + Len(net)
    /\ \A i \in 1..Len(Stream) : Stream[i] = IF i <= Held THEN request[i] ELSE net[i - Held]

LEMMA StreamNext == (TypeInv /\ ~broken => StreamForm)'
  <1>1. TypeInv /\ ~broken => StreamForm
    BY StreamIs DEF StreamForm
  <1> QED
    BY <1>1, PTL

LEMMA NothingAnswered == AnswersOf(<<>>, {}) = <<>>
  <1> DEFINE q == [i \in DOMAIN <<>> |-> IF i \in {} THEN AnswerTo(<<>>[i], i) ELSE <<>>]
  <1>1. <<>> \in Seq(Requests) /\ Len(<<>>) = 0
    OBVIOUS
  <1>2. q \in Seq(Seq(Sent)) /\ Len(q) = 0
    BY <1>1, PartsAre
  <1>3. AnswersOf(<<>>, {}) = FlattenSeq(q)
    BY DEF AnswersOf
  <1> HIDE DEF q
  <1>4. PICK F \in [0..Len(q) -> Seq(Sent)] : Flattens(F, q, Len(q))
    BY <1>2, FlattenExists
  <1>5. FlattenSeq(q) = F[0]
    BY <1>2, <1>4, FlattenIs
  <1> QED
    BY <1>3, <1>4, <1>5 DEF Flattens

LEMMA ServeInit == Init => ServeInv /\ WaitInv
  <1> SUFFICES ASSUME Init PROVE ServeInv /\ WaitInv
    OBVIOUS
  <1>1. TypeInv /\ ~broken
    BY TypeInit DEF Init
  <1>2. /\ asked = <<>> /\ got = <<>> /\ net = <<>> /\ total = 0 /\ pc = "recv"
        /\ Len(asked) = 0 /\ Len(net) = 0
    BY DEF Init
  <1>3. Stream = <<>>
    BY <1>1, <1>2, StreamIs, EmptySeq DEF Held
  <1>4. StreamInv
    BY <1>2, <1>3 DEF StreamInv, InOrder
  <1>5. Answers({})
    <2>1. got \o Pending = <<>>
      BY <1>2 DEF Pending
    <2> QED
      BY <1>2, <1>3, <2>1, NothingAnswered DEF Answers, AllAfter
  <1>6. ServeInv
    BY <1>2, <1>4, <1>5 DEF ServeInv, CurInv
  <1>7. WaitInv
    BY <1>1, <1>2 DEF WaitInv, Size
  <1> QED
    BY <1>6, <1>7

(* A request more, behind everything that is under way.                    *)
LEMMA ServeAsks ==
    ASSUME TypeInv, ServeInv, WaitInv, TypeInv', ~broken, NEW r \in Requests, PeerAsks(r)
    PROVE  ServeInv'
  <1>1. SUFFICES ASSUME Open' PROVE StreamInv' /\ CurInv' /\ \E S \in SUBSET (1..Len(asked')) : Answers(S)'
    BY DEF ServeInv
  <1>2. /\ peer = "open" /\ asked' = Append(asked, r)
        /\ net' = net \o UnitsOf(Len(asked) + 1, r)
        /\ UNCHANGED <<got, broken, peer, pc, request, total, cur>>
    BY DEF PeerAsks
  <1>3. Open
    BY <1>1, <1>2 DEF Open
  <1>4. PICK n \in Nat : n = Len(asked) + 1
    BY Facts
  <1>5. /\ asked \in Seq(Requests) /\ net \in Seq(UnitSet) /\ Len(asked) \in Nat
        /\ asked' \in Seq(Requests) /\ Len(asked') = n /\ asked'[n] = r
        /\ \A i \in 1..Len(asked) : asked'[i] = asked[i]
    BY <1>2, <1>4, AppendProperties, LenProperties DEF TypeInv
  <1> DEFINE w == UnitsOf(n, r)
  <1>6. w \in Seq(UnitSet)
    BY UnitsOfRequest
  <1>7. /\ net' = net \o w /\ Len(net) \in Nat /\ Len(w) \in Nat
        /\ Len(net \o w) = Len(net) + Len(w)
        /\ \A i \in 1..Len(net) : (net \o w)[i] = net[i]
        /\ \A i \in 1..Len(w) : (net \o w)[Len(net) + i] = w[i]
    <2>1. net' = net \o w
      BY <1>2, <1>4
    <2> HIDE DEF w
    <2> QED
      BY ONLY <1>5, <1>6, <2>1, JoinedUnits
  <1> HIDE DEF w
  <1>8. /\ Held \in 0..2 /\ Len(Stream) = Held + Len(net)
        /\ \A i \in 1..Len(Stream) : Stream[i] = IF i <= Held THEN request[i] ELSE net[i - Held]
    BY StreamIs
  <1>9. /\ Held' = Held /\ Stream' \in Seq(UnitSet \cup {Garbage})
        /\ Len(Stream') = Held + Len(net')
        /\ \A i \in 1..Len(Stream') : Stream'[i] = IF i <= Held THEN request[i] ELSE net'[i - Held]
    <2>1. Held' = Held /\ request' = request
      BY <1>2 DEF Held
    <2> QED
      BY <1>2, <2>1, StreamNext DEF StreamForm
  <1>10. Len(Stream') = Len(Stream) + Len(w)
    <2>1. Len(net') = Len(net) + Len(w)
      BY ONLY <1>7, Zenon
    <2>0. Held \in Nat
      BY <1>8
    <2>2. PICK h \in Nat, m \in Nat, k \in Nat : h = Held /\ m = Len(net) /\ k = Len(w)
      BY ONLY <1>7, <2>0, Zenon
    <2>3. Len(Stream') = h + (m + k) /\ Len(Stream) = h + m
      BY ONLY <1>8, <1>9, <2>1, <2>2, Zenon
    <2> QED
      BY ONLY <2>2, <2>3, SMT
  <1>11. ASSUME NEW i \in 1..Len(Stream) PROVE Stream'[i] = Stream[i]
    <2>1. i \in 1..Len(Stream')
      BY ONLY <1>7, <1>8, <1>10
    <2>2. CASE i <= Held
      BY <1>8, <1>9, <2>1, <2>2
    <2>3. CASE ~(i <= Held)
      <3>1. i - Held \in 1..Len(net)
        BY ONLY <1>7, <1>8, <2>3, i \in 1..Len(Stream)
      <3>2. net'[i - Held] = net[i - Held]
        BY <1>7, <3>1
      <3> QED
        BY <1>8, <1>9, <2>1, <2>3, <3>2
    <2> QED
      BY <2>2, <2>3
  <1>12. ASSUME NEW i \in 1..Len(w) PROVE Stream'[Len(Stream) + i] = w[i]
    <2>1. /\ Len(Stream) + i \in 1..Len(Stream') /\ ~(Len(Stream) + i <= Held)
          /\ (Len(Stream) + i) - Held = Len(net) + i
      BY ONLY <1>7, <1>8, <1>10
    <2> QED
      BY <1>7, <1>9, <2>1
  <1>13. /\ InOrder(Stream', asked')
         /\ \A S \in SUBSET (1..Len(asked)) : AllAfter(Stream, S) => AllAfter(Stream', S)
         /\ \A m \in 1..Len(asked) : AllBehind(Stream, m) => AllBehind(Stream', m)
    <2>1. InOrder(Stream, asked)
      BY <1>3 DEF ServeInv, StreamInv
    <2>2. Stream' \in Seq(UnitSet \cup {Garbage})
      BY <1>9
    <2>3. /\ Len(Stream') = Len(Stream) + Len(UnitsOf(n, r))
          /\ \A i \in 1..Len(Stream) : Stream'[i] = Stream[i]
          /\ \A i \in 1..Len(UnitsOf(n, r)) : Stream'[Len(Stream) + i] = UnitsOf(n, r)[i]
      BY <1>10, <1>11, <1>12 DEF w
    <2>4. asked \in Seq(Requests) /\ n = Len(asked) + 1
      BY <1>4, <1>5
    <2>5. /\ InOrder(Stream', Append(asked, r))
          /\ \A S \in SUBSET (1..Len(asked)) : AllAfter(Stream, S) => AllAfter(Stream', S)
          /\ \A m \in 1..Len(asked) : AllBehind(Stream, m) => AllBehind(Stream', m)
      BY ONLY <2>1, <2>2, <2>3, <2>4, r \in Requests, n \in Nat, OrderOfMore, SMTT(40)
    <2> QED
      BY <1>2, <2>5
  <1>14. StreamInv'
    BY <1>2, <1>3, <1>13 DEF StreamInv, ServeInv
  <1>15. CurInv'
    <2>1. CurInv
      BY <1>3 DEF ServeInv
    <2>2. pc = "reply" => Answered(cur)'
      BY <1>2, <2>1 DEF CurInv, Answered, Service!Acked, Service!InRange
    <2>3. ASSUME pc \in {"switch", "reply"}
          PROVE  /\ cur.to \in 1..Len(asked') /\ AllBehind(Stream', cur.to)
                 /\ cur.cmd = asked'[cur.to].cmd /\ cur.off = asked'[cur.to].off
                 /\ cur.len = asked'[cur.to].len
      <3>1. /\ cur.to \in 1..Len(asked) /\ AllBehind(Stream, cur.to)
            /\ cur.cmd = asked[cur.to].cmd /\ cur.off = asked[cur.to].off
            /\ cur.len = asked[cur.to].len
        BY <2>1, <2>3 DEF CurInv
      <3> QED
        BY <1>4, <1>5, <1>13, <3>1
    <2> QED
      BY <1>2, <2>2, <2>3 DEF CurInv
  <1>16. ASSUME NEW S \in SUBSET (1..Len(asked)), Answers(S), ~strayed' => S = 1..Len(asked)
         PROVE  \E T \in SUBSET (1..Len(asked')) : Answers(T)'
    <2>1. S \in SUBSET (1..Len(asked'))
      BY <1>4, <1>5
    <2>2. AnswersOf(asked', S) = AnswersOf(asked, S)
      BY <1>2, <1>5, AnswersStay
    <2>3. Pending' = Pending /\ got' = got
      BY <1>2 DEF Pending, OnDrive
    <2>4. got' \o Pending' = AnswersOf(asked', S) /\ AllAfter(Stream', S)
      BY <1>13, <1>16, <2>2, <2>3 DEF Answers
    <2>5. ~strayed' => S = 1..(Len(asked') - 1)
      BY <1>4, <1>5, <1>16
    <2>6. pc' \in {"switch", "reply"} => \A m \in S : m < cur'.to
      BY <1>2, <1>16 DEF Answers
    <2>7. Answers(S)'
      BY <2>4, <2>5, <2>6 DEF Answers
    <2> QED
      BY <2>1, <2>7
  <1>17. PICK S \in SUBSET (1..Len(asked)) : Answers(S)
    BY <1>3 DEF ServeInv
  <1>18. CASE strayed'
    BY <1>14, <1>15, <1>16, <1>17, <1>18
  <1>19. CASE ~strayed'
    <2>1. /\ ~strayed /\ Service!AllAnswered
          /\ asked = <<>> \/ Service!ReplyTo(Len(asked)) # <<>>
      BY <1>19 DEF PeerAsks
    <2>2. Answers(1..Len(asked))
      BY <1>3, <2>1, QuietPeer
    <2> QED
      BY <1>14, <1>15, <1>16, <2>2
  <1> QED
    BY <1>18, <1>19

(* The stream stays when nothing is read from it.                          *)
LEMMA StreamSame ==
    ASSUME Held = 0, Held' = 0, net' = net
    PROVE  Stream' = Stream
  <1>1. Stream = [i \in 1..(0 + Len(net)) |-> IF i <= 0 THEN request[i] ELSE net[i - 0]]
    BY Zenon DEF Stream
  <1>2. Stream' = [i \in 1..(0 + Len(net)) |-> IF i <= 0 THEN request'[i] ELSE net[i - 0]]
    BY Zenon DEF Stream
  <1>3. \A i \in 1..(0 + Len(net)) : ~(i <= 0)
    OBVIOUS
  <1> QED
    BY <1>1, <1>2, <1>3

(* A recv() moves the border between the structure and the net, and may    *)
(* complete the structure.                                                 *)
LEMMA ServeRecv ==
    ASSUME TypeInv, ServeInv, TypeInv', Open, ~broken', NEW k \in 1..Size, Recv(k),
           UNCHANGED <<asked, strayed>>
    PROVE  ServeInv'
  <1>1. /\ k \in Nat /\ k > 0 /\ k <= 2 /\ k <= Len(net) /\ Len(net) \in Nat
        /\ net' = SubSeq(net, k + 1, Len(net)) /\ pc = "recv"
    BY Facts DEF Recv, Least
  <1>2. total \in Nat /\ total < 2
    BY <1>1 DEF TypeInv, Open, Size
  <1>3. /\ request' = [i \in 1..2 |-> IF i \in (total + 1)..(total + k) THEN net[i - total] ELSE request[i]]
        /\ total' = total + k /\ pc' = (IF total + k >= 2 THEN "decode" ELSE "recv")
        /\ UNCHANGED <<got, peer, cur>>
    BY DEF Recv, Size
  <1>4. total + k <= 2
    <2>1. broken' = (total + k > 2)
      BY DEF Recv, Size
    <2>2. ~(total + k > 2)
      BY <2>1
    <2> QED
      BY ONLY <1>1, <1>2, <2>2
  <1>5. Len(net') = Len(net) - k /\ \A j \in 1..(Len(net) - k) : net'[j] = net[j + k]
    BY <1>1, NetRest
  <1>6. /\ Held = total /\ Len(Stream) = total + Len(net)
        /\ \A i \in 1..Len(Stream) : Stream[i] = IF i <= total THEN request[i] ELSE net[i - total]
    BY <1>1, StreamIs DEF Held, Open
  <1>7. /\ Held' = total + k /\ Len(Stream') = total + k + Len(net')
        /\ Stream' \in Seq(UnitSet \cup {Garbage})
        /\ \A i \in 1..Len(Stream') :
               Stream'[i] = IF i <= total + k THEN request'[i] ELSE net'[i - (total + k)]
    <2>1. Held' = total'
      BY <1>3 DEF Held
    <2> QED
      BY <1>3, <2>1, StreamNext DEF StreamForm
  <1>8. Len(Stream') = Len(Stream) /\ Len(Stream) \in Nat
    BY ONLY <1>1, <1>2, <1>5, <1>6, <1>7
  <1>9. ASSUME NEW i \in 1..Len(Stream') PROVE Stream'[i] = Stream[i + 0]
    <2>1. i \in Nat /\ i > 0 /\ i <= total + Len(net) /\ i \in 1..Len(Stream) /\ i + 0 = i
      BY ONLY <1>1, <1>2, <1>6, <1>8, <1>9
    <2>2. CASE i <= total
      <3>1. i \in 1..2 /\ i \notin (total + 1)..(total + k) /\ i <= total + k
        BY ONLY <1>1, <1>2, <2>1, <2>2
      <3>2. request'[i] = request[i]
        BY <1>3, <3>1
      <3> QED
        BY <1>6, <1>7, <2>1, <2>2, <3>1, <3>2
    <2>3. CASE i > total /\ i <= total + k
      <3>1. i \in 1..2 /\ i \in (total + 1)..(total + k) /\ ~(i <= total)
        BY ONLY <1>1, <1>2, <1>4, <2>1, <2>3
      <3>2. request'[i] = net[i - total]
        BY <1>3, <3>1
      <3> QED
        BY <1>6, <1>7, <2>1, <2>3, <3>1, <3>2
    <2>4. CASE i > total + k
      <3>1. /\ i - (total + k) \in 1..(Len(net) - k) /\ (i - (total + k)) + k = i - total
            /\ ~(i <= total) /\ ~(i <= total + k)
        BY ONLY <1>1, <1>2, <2>1, <2>4
      <3>2. net'[i - (total + k)] = net[i - total]
        BY <1>5, <3>1
      <3> QED
        BY <1>6, <1>7, <2>1, <3>1, <3>2
    <2> QED
      BY ONLY <1>1, <1>2, <2>1, <2>2, <2>3, <2>4
  <1>10. /\ InOrder(Stream', asked)
         /\ \A S : AllAfter(Stream, S) => AllAfter(Stream', S)
    <2>1. InOrder(Stream, asked) /\ Len(Stream') + 0 = Len(Stream) /\ 0 \in Nat
      BY <1>8 DEF ServeInv, StreamInv
    <2>2. Stream' \in Seq(UnitSet \cup {Garbage})
      BY <1>7
    <2> QED
      BY ONLY <1>9, <2>1, <2>2, OrderOfRest
  <1>11. StreamInv'
    <2>1. pc' = "decode" => total' = Size
      BY <1>1, <1>2, <1>3, <1>4 DEF Size
    <2> QED
      BY <1>10, <2>1 DEF StreamInv
  <1>12. CurInv'
    BY <1>3 DEF CurInv
  <1>13. PICK S \in SUBSET (1..Len(asked)) : Answers(S)
    BY DEF ServeInv
  <1>14. Answers(S)'
    <2>1. Pending' = Pending
      BY <1>1, <1>3 DEF Pending
    <2> QED
      BY <1>3, <1>10, <1>13, <2>1 DEF Answers
  <1> QED
    BY <1>11, <1>12, <1>13, <1>14 DEF ServeInv

(* What a call that returns forgets is the front of the stream.            *)
LEMMA ServeWouldBlock ==
    ASSUME TypeInv, ServeInv, TypeInv', Open, WouldBlock, UNCHANGED <<asked, strayed>>
    PROVE  ServeInv'
  <1>1. /\ pc = "recv" /\ total' = 0
        /\ UNCHANGED <<got, peer, net, pc, request, cur, broken>>
    BY DEF WouldBlock
  <1>2. /\ Held = total /\ Held \in 0..2 /\ Len(Stream) = Held + Len(net)
        /\ \A i \in 1..Len(Stream) : Stream[i] = IF i <= Held THEN request[i] ELSE net[i - Held]
    BY <1>1, StreamIs DEF Held, Open
  <1>3. /\ Held' = 0 /\ Len(Stream') = Len(net) /\ Stream' \in Seq(UnitSet \cup {Garbage})
        /\ \A i \in 1..Len(Stream') : Stream'[i] = net[i]
    <2>1. Held' = 0 /\ ~broken'
      BY <1>1 DEF Held, Open
    <2>2. /\ Len(Stream') = 0 + Len(net) /\ Stream' \in Seq(UnitSet \cup {Garbage})
          /\ \A i \in 1..Len(Stream') : Stream'[i] = IF i <= 0 THEN request'[i] ELSE net[i - 0]
      BY <1>1, <2>1, StreamNext DEF StreamForm
    <2>3. Len(Stream') = Len(net)
      BY <2>2, Facts
    <2>4. \A i \in 1..Len(Stream') : ~(i <= 0) /\ i - 0 = i
      OBVIOUS
    <2> QED
      BY <2>1, <2>2, <2>3, <2>4
  <1>4. ASSUME NEW i \in 1..Len(Stream') PROVE Stream'[i] = Stream[i + Held]
    <2>1. i + Held \in 1..Len(Stream) /\ ~(i + Held <= Held) /\ (i + Held) - Held = i
      BY ONLY <1>2, <1>3, <1>4, Facts, TypeInv
    <2> QED
      BY <1>2, <1>3, <2>1
  <1>5. /\ InOrder(Stream', asked)
        /\ \A S : AllAfter(Stream, S) => AllAfter(Stream', S)
    <2>1. InOrder(Stream, asked) /\ Len(Stream') + Held = Len(Stream) /\ Held \in Nat
      BY <1>2, <1>3, Facts DEF ServeInv, StreamInv
    <2>2. Stream' \in Seq(UnitSet \cup {Garbage})
      BY <1>3
    <2> QED
      BY ONLY <1>4, <2>1, <2>2, OrderOfRest
  <1>6. StreamInv' /\ CurInv'
    BY <1>1, <1>5 DEF StreamInv, CurInv
  <1>7. PICK S \in SUBSET (1..Len(asked)) : Answers(S)
    BY DEF ServeInv
  <1>8. Answers(S)'
    <2>1. Pending' = Pending
      BY <1>1 DEF Pending
    <2> QED
      BY <1>1, <1>5, <1>7, <2>1 DEF Answers
  <1> QED
    BY <1>6, <1>7, <1>8 DEF ServeInv

(* The halves in a whole structure are of one request.                     *)
LEMMA ServeDecode ==
    ASSUME TypeInv, ServeInv, TypeInv', Open, Decode, UNCHANGED <<asked, strayed>>
    PROVE  ServeInv'
  <1>1. /\ pc = "decode" /\ pc' = "switch" /\ RightMagic
        /\ UNCHANGED <<got, peer, net, request, broken>>
    BY DEF Decode
  <1>2. /\ total = 2 /\ InOrder(Stream, asked)
    BY <1>1 DEF ServeInv, StreamInv, Size
  <1>3. /\ Len(Stream) = 2 + Len(net) /\ Len(net) \in Nat /\ Held = 2
        /\ \A i \in 1..Len(Stream) : Stream[i] = IF i <= 2 THEN request[i] ELSE net[i - 2]
    <2>1. Held = 2
      BY <1>1, <1>2 DEF Held
    <2> QED
      BY <2>1, StreamIs, Facts DEF Open
  <1>4. PICK n : n = request[1][1]
    OBVIOUS
  <1>5. request[2] = <<n, 2>> /\ n \in 1..Len(asked) /\ Stream[1] = request[1] /\ Stream[2] = request[2]
    <2>1. 1 \in 1..Len(Stream) /\ 2 \in 1..Len(Stream)
      BY ONLY <1>3
    <2>2. Stream[1] = request[1] /\ Stream[2] = request[2]
      BY <1>3, <2>1
    <2>3. Stream[1][2] = 1
      BY <1>1, <2>2 DEF RightMagic
    <2>4. Stream[1 + 1] = <<Stream[1][1], 2>> /\ Stream[1][1] \in 1..Len(asked)
      BY <1>2, <2>1, <2>3 DEF InOrder
    <2> QED
      BY <1>4, <2>2, <2>4
  <1>6. cur' = [to |-> n, cmd |-> asked[n].cmd, off |-> asked[n].off, len |-> asked[n].len]
    <2>1. request[2][1] = n /\ request[2][2] = 2
      BY <1>5
    <2>2. PICK r \in (IF request[2][2] = 2 THEN {asked[request[2][1]]} ELSE Requests) :
             cur' = [to |-> request[1][1], cmd |-> asked[request[1][1]].cmd, off |-> r.off, len |-> r.len]
      BY DEF Decode
    <2>3. r = asked[n]
      BY <2>1, <2>2
    <2> QED
      BY <1>4, <2>2, <2>3
  <1>7. /\ Held' = 0 /\ Len(Stream') = Len(net) /\ Stream' \in Seq(UnitSet \cup {Garbage})
        /\ \A i \in 1..Len(Stream') : Stream'[i] = net[i]
    <2>1. Held' = 0 /\ ~broken'
      BY <1>1 DEF Held, Open
    <2>2. /\ Len(Stream') = 0 + Len(net) /\ Stream' \in Seq(UnitSet \cup {Garbage})
          /\ \A i \in 1..Len(Stream') : Stream'[i] = IF i <= 0 THEN request'[i] ELSE net[i - 0]
      BY <1>1, <2>1, StreamNext DEF StreamForm
    <2>3. Len(Stream') = Len(net)
      BY <2>2, Facts
    <2>4. \A i \in 1..Len(Stream') : ~(i <= 0) /\ i - 0 = i
      OBVIOUS
    <2> QED
      BY <2>1, <2>2, <2>3, <2>4
  <1>8. ASSUME NEW i \in 1..Len(Stream')
        PROVE  i + 2 \in 1..Len(Stream) /\ Stream'[i] = Stream[i + 2]
    <2>1. i + 2 \in 1..Len(Stream) /\ ~(i + 2 <= 2) /\ (i + 2) - 2 = i
      BY ONLY <1>3, <1>7, <1>8
    <2> QED
      BY <1>3, <1>7, <2>1
  <1>9. /\ InOrder(Stream', asked)
        /\ \A S : AllAfter(Stream, S) => AllAfter(Stream', S)
    <2>1. Len(Stream') + 2 = Len(Stream) /\ 2 \in Nat
      BY ONLY <1>3, <1>7
    <2>2. Stream' \in Seq(UnitSet \cup {Garbage})
      BY <1>7
    <2> QED
      BY ONLY <1>2, <1>8, <2>1, <2>2, OrderOfRest
  <1>10. AllBehind(Stream', n)
    <2>1. ASSUME NEW i \in 1..Len(Stream') PROVE Before(<<n, 2>>, Stream'[i])
      <3>1. 2 \in 1..Len(Stream) /\ i + 2 \in 1..Len(Stream) /\ 2 < i + 2
        BY ONLY <1>3, <1>8, <2>1
      <3>2. Before(Stream[2], Stream[i + 2])
        BY <1>2, <3>1 DEF InOrder
      <3> QED
        BY <1>5, <1>8, <3>2
    <2> QED
      BY <2>1 DEF AllBehind
  <1>11. StreamInv' /\ CurInv'
    BY <1>1, <1>5, <1>6, <1>9, <1>10 DEF StreamInv, CurInv
  <1>12. PICK S \in SUBSET (1..Len(asked)) : Answers(S)
    BY DEF ServeInv
  <1>13. Answers(S)'
    <2>1. Pending' = Pending
      BY <1>1 DEF Pending
    <2>2. \A m \in S : m < cur'.to
      <3>1. 1 \in 1..Len(Stream)
        BY ONLY <1>3
      <3>2. \A m \in S : m < Stream[1][1]
        BY <1>12, <3>1 DEF Answers, AllAfter
      <3> QED
        BY <1>4, <1>5, <1>6, <3>2
    <2> QED
      BY <1>1, <1>9, <1>12, <2>1, <2>2 DEF Answers
  <1> QED
    BY <1>11, <1>12, <1>13 DEF ServeInv

(* The header goes out: the request is one of those answered.              *)
LEMMA ReplySent ==
    ASSUME TypeInv, ServeInv, Open, SendReply, peer' = "open", UNCHANGED <<asked, strayed>>,
           NEW S \in SUBSET (1..Len(asked)), Answers(S), NEW n, n = cur.to
    PROVE  /\ n \in 1..Len(asked)
           /\ Answers(S \cup {n})'
           /\ ~strayed => S \cup {n} = 1..Len(asked)
           /\ Stream' = Stream
           /\ got' = got \o <<<<"reply", n>>>>
  <1>1. /\ pc = "reply" /\ pc' = (IF cur.cmd = "READ" /\ cur.len > 0 THEN "data" ELSE "recv")
        /\ got' = got \o <<<<"reply", cur.to>>>>
        /\ UNCHANGED <<net, request, total, cur, broken>>
    BY DEF SendReply, Send, Open
  <1>2. n = cur.to
    OBVIOUS
  <1>3. /\ n \in 1..Len(asked) /\ Answered(cur) /\ AllBehind(Stream, n)
        /\ cur.cmd = asked[n].cmd /\ cur.off = asked[n].off /\ cur.len = asked[n].len
        /\ InOrder(Stream, asked)
    BY <1>1, <1>2 DEF ServeInv, CurInv, StreamInv
  <1>4. /\ asked \in Seq(Requests) /\ Len(asked) \in Nat /\ got \in Seq(Sent)
        /\ cur.len \in Nat /\ cur.off \in Nat
    BY Facts DEF TypeInv
  <1> DEFINE h == <<<<"reply", n>>>>
             T == S \cup {n}
  <1>5. h \in Seq(Sent)
    BY <1>3, <1>4 DEF Sent
  <1>6. /\ Pending' \in Seq(Sent) /\ h \o Pending' = AnswerTo(asked[n], n)
    <2>1. <<>> \in Seq(Sent) /\ h \o <<>> = h
      BY <1>5, ConcatEmptySeq
    <2>2. Data(cur.off, cur.len) \in Seq(Sent)
      BY <1>4, DataIs
    <2>3. CASE cur.cmd = "READ"
      <3>1. /\ ~Service!Acked(asked[n]) /\ Service!Passes(asked[n])
            /\ (Service!InRange(asked[n]) <=> OnDrive) /\ OnDrive' = OnDrive
        BY <1>1, <1>3, <2>3
        DEF Answered, Service!Acked, Service!InRange, Service!Passes, OnDrive
      <3>2. OnDrive => AnswerTo(asked[n], n) = h \o Data(cur.off, cur.len)
        <4>1. SUFFICES ASSUME OnDrive PROVE AnswerTo(asked[n], n) = h \o Data(cur.off, cur.len)
          OBVIOUS
        <4>2. ~Service!Acked(asked[n]) /\ asked[n].cmd = "READ" /\ Service!InRange(asked[n])
          BY <1>3, <2>3, <3>1, <4>1
        <4>3. AnswerTo(asked[n], n) = h \o Data(asked[n].off, asked[n].len)
          BY <4>2 DEF AnswerTo, Service!Wrapped
        <4> QED
          BY <1>3, <4>3
      <3>3. CASE cur.len > 0 /\ OnDrive
        BY <1>1, <2>2, <2>3, <3>1, <3>2, <3>3 DEF Pending
      <3>5. CASE ~OnDrive
        <4>1. Service!Wrapped(asked[n]) /\ ~Service!InRange(asked[n])
          BY <1>3, <2>3, <3>1, <3>5 DEF Service!Wrapped
        <4>2. AnswerTo(asked[n], n) = h
          BY <3>1, <4>1 DEF AnswerTo
        <4>3. Pending' = <<>>
          BY <3>1, <3>5 DEF Pending
        <4> QED
          BY <2>1, <4>2, <4>3
      <3>4. CASE cur.len = 0 /\ OnDrive
        <4>1. Data(cur.off, cur.len) = <<>>
          <5>1. Len(Data(cur.off, cur.len)) = 0
            BY <1>4, <3>4, DataIs
          <5> QED
            BY <2>2, <5>1, EmptySeq
        <4>2. Pending' = <<>>
          BY <1>1, <3>4 DEF Pending
        <4>3. AnswerTo(asked[n], n) = h \o <<>>
          BY <3>2, <3>4, <4>1
        <4> QED
          BY <2>1, <4>2, <4>3
      <3> QED
        <4>1. cur.len > 0 \/ cur.len = 0
          BY <1>4
        <4> QED
          BY <3>3, <3>4, <3>5, <4>1
    <2>4. CASE cur.cmd # "READ"
      <3>1. Service!Acked(asked[n])
        BY <1>3, <2>4 DEF Answered, Service!Acked
      <3>2. AnswerTo(asked[n], n) = h
        BY <1>3, <2>4, <3>1 DEF AnswerTo
      <3>3. Pending' = <<>>
        BY <1>1, <2>4 DEF Pending
      <3> QED
        BY <2>1, <3>2, <3>3
    <2> QED
      BY <2>3, <2>4
  <1>7. /\ got = AnswersOf(asked, S) /\ \A m \in S : m < n
        /\ ~strayed => S = 1..Len(asked) \/ S = 1..(Len(asked) - 1)
        /\ AllAfter(Stream, S)
    <2>1. Pending = <<>> /\ got \o <<>> = got
      BY <1>1, <1>4, ConcatEmptySeq DEF Pending
    <2> QED
      BY <1>1, <1>2, <2>1 DEF Answers
  <1>8. got' \o Pending' = AnswersOf(asked, T)
    <2>1. AnswersOf(asked, T) = AnswersOf(asked, S) \o AnswerTo(asked[n], n)
      BY ONLY <1>3, <1>4, <1>7, S \in SUBSET (1..Len(asked)), AnswersGrow
    <2>2. got' = got \o h
      BY <1>1, <1>2
    <2>3. (got \o h) \o Pending' = got \o (h \o Pending')
      BY <1>4, <1>5, <1>6, ConcatAssociative
    <2> QED
      BY <1>6, <1>7, <2>1, <2>2, <2>3
  <1>9. Stream' = Stream
    <2>1. Held = 0 /\ Held' = 0
      BY <1>1 DEF Held, TypeInv
    <2> QED
      BY <1>1, <2>1, StreamSame
  <1>10. AllAfter(Stream, T)
    <2>1. ASSUME NEW i \in 1..Len(Stream) PROVE n < Stream[i][1]
      <3>1. Before(<<n, 2>>, Stream[i])
        BY <1>3 DEF AllBehind
      <3>2. Stream[i][2] # 3 \/ Stream[i][1] # n
        <4>1. ~HasData(asked[n])
          BY <1>3 DEF HasData, Answered, Service!Acked
        <4> QED
          BY <1>3, <4>1 DEF InOrder
      <3>3. Stream[i] \in UnitSet
        BY <1>3, LenProperties, ElementOfSeq DEF InOrder
      <3> QED
        BY <3>1, <3>2, <3>3 DEF Before, UnitSet
    <2> QED
      BY <1>7, <2>1 DEF AllAfter
  <1>11. ~strayed => T = 1..Len(asked)
    <2>1. ASSUME ~strayed PROVE S = 1..(Len(asked) - 1)
      BY <1>3, <1>4, <1>7, <2>1
    <2>2. ASSUME ~strayed PROVE n = Len(asked)
      BY <1>3, <1>4, <1>7, <2>1, <2>2
    <2>3. 1..(Len(asked) - 1) \cup {Len(asked)} = 1..Len(asked)
      BY <1>3, <1>4
    <2> QED
      BY <2>1, <2>2, <2>3
  <1>12. Answers(T)'
    BY <1>1, <1>8, <1>9, <1>10, <1>11 DEF Answers
  <1> QED
    BY <1>1, <1>2, <1>3, <1>9, <1>11, <1>12

(* A piece of the data goes out, and the rest is still to come.            *)
LEMMA DataSent ==
    ASSUME TypeInv, ServeInv, Open, SendData, peer' = "open", UNCHANGED <<asked, strayed>>,
           NEW S \in SUBSET (1..Len(asked)), Answers(S)
    PROVE  /\ Answers(S)'
           /\ Stream' = Stream
           /\ \E c \in Nat : c > 0 /\ got' = got \o Data(cur.off, c)
  <1>1. PICK c \in Nat : c = Least(cur.len, BuffLen) /\ c > 0 /\ c <= cur.len
    BY Facts DEF TypeInv, SendData, Least
  <1>2. /\ pc = "data" /\ pc' = (IF cur.len = c THEN "recv" ELSE "data")
        /\ got' = got \o Data(cur.off, c)
        /\ cur' = [cur EXCEPT !.len = @ - c, !.off = @ + c]
        /\ UNCHANGED <<net, request, total, broken>>
    BY <1>1 DEF SendData, Send, Open
  <1>3. /\ cur \in [to : Nat, cmd : Cmds, off : Nat, len : Nat] /\ got \in Seq(Sent)
        /\ cur'.len = cur.len - c /\ cur'.off = cur.off + c
        /\ cur.len \in Nat /\ cur.off \in Nat /\ cur.len - c \in Nat /\ cur.off + c \in Nat
    <2>1. cur \in [to : Nat, cmd : Cmds, off : Nat, len : Nat] /\ got \in Seq(Sent)
      BY DEF TypeInv
    <2> QED
      BY ONLY <1>1, <1>2, <2>1
  <1> DEFINE d == Data(cur.off, c)
             e == Data(cur.off + c, cur.len - c)
             f == Data(cur.off, cur.len)
  <1>4. /\ d \in Seq(Sent) /\ Len(d) = c /\ (\A i \in 1..c : d[i] = <<"byte", cur.off + i - 1>>)
        /\ e \in Seq(Sent) /\ Len(e) = cur.len - c
        /\ (\A i \in 1..(cur.len - c) : e[i] = <<"byte", (cur.off + c) + i - 1>>)
        /\ f \in Seq(Sent) /\ Len(f) = cur.len
        /\ (\A i \in 1..cur.len : f[i] = <<"byte", cur.off + i - 1>>)
    BY <1>1, <1>3, DataIs
  <1> HIDE DEF d, e, f
  <1>5. d \o e = f
    <2>1. /\ d \o e \in Seq(Sent) /\ Len(d \o e) = Len(d) + Len(e)
          /\ \A i \in 1..Len(d) : (d \o e)[i] = d[i]
          /\ \A i \in 1..Len(e) : (d \o e)[Len(d) + i] = e[i]
      <3>1. d \in Seq(Sent)
        BY <1>4
      <3>2. e \in Seq(Sent)
        BY <1>4
      <3> QED
        BY ONLY <3>1, <3>2, JoinedUnits
    <2>2. Len(d \o e) = Len(f)
      BY <1>1, <1>3, <1>4, <2>1
    <2>3. ASSUME NEW i \in 1..Len(f) PROVE (d \o e)[i] = f[i]
      <3>0. i \in 1..cur.len
        BY <1>4
      <3>1. CASE i <= c
        <4>1. i \in 1..c
          BY <3>1
        <4>2. (d \o e)[i] = <<"byte", cur.off + i - 1>>
          BY <1>4, <2>1, <4>1
        <4> QED
          BY <1>4, <4>2
      <3>2. CASE i > c
        <4> PICK x \in Nat, y \in Nat : x = cur.len /\ y = cur.off
          BY <1>3
        <4>1. /\ i - c \in 1..(cur.len - c) /\ c + (i - c) = i
              /\ (cur.off + c) + (i - c) - 1 = cur.off + i - 1
          <5>1. i \in 1..x
            BY <3>0
          <5>2. /\ i - c \in 1..(x - c) /\ c + (i - c) = i
                /\ (y + c) + (i - c) - 1 = y + i - 1
            BY ONLY <3>2, <5>1, c \in Nat, x \in Nat, y \in Nat
          <5> QED
            BY <5>2
        <4>2. (d \o e)[i] = e[i - c]
          BY <1>4, <2>1, <4>1
        <4> QED
          BY <1>4, <4>1, <4>2
      <3>3. i <= c \/ i > c
        BY ONLY <1>1, <1>3, <3>0, c \in Nat
      <3> QED
        BY <3>1, <3>2, <3>3, Zenon
    <2>4. d \o e \in Seq(Sent) /\ f \in Seq(Sent)
      BY <1>4, <2>1
    <2> QED
      BY ONLY <2>2, <2>3, <2>4, SeqEqual
  <1>6. Pending = f /\ Pending' = e
    <2>0. OnDrive /\ OnDrive'
      BY StillOnDrive
    <2>1. Pending = f
      BY <1>2, <2>0 DEF Pending, f
    <2>2. CASE cur.len = c
      <3>1. Pending' = <<>>
        BY <1>2, <2>2 DEF Pending
      <3>2. Len(e) = 0
        BY <1>3, <1>4, <2>2
      <3> QED
        BY <1>4, <2>1, <3>1, <3>2, EmptySeq
    <2>3. CASE cur.len # c
      <3>1. Pending' = Data(cur'.off, cur'.len)
        BY <1>2, <2>0, <2>3 DEF Pending
      <3> QED
        BY <1>3, <2>1, <3>1 DEF e
    <2> QED
      BY <2>2, <2>3
  <1>7. got' \o Pending' = AnswersOf(asked, S)
    <2>1. got \o f = AnswersOf(asked, S)
      BY <1>6 DEF Answers
    <2>2. got' = got \o d
      BY <1>2 DEF d
    <2>3. got \in Seq(Sent) /\ d \in Seq(Sent) /\ e \in Seq(Sent)
      BY <1>3, <1>4
    <2>4. (got \o d) \o e = got \o (d \o e)
      BY ONLY <2>3, ConcatAssociative
    <2> QED
      BY <1>5, <1>6, <2>1, <2>2, <2>4
  <1>8. Stream' = Stream
    <2>1. Held = 0 /\ Held' = 0
      BY <1>2 DEF Held, TypeInv
    <2> QED
      BY <1>2, <2>1, StreamSame
  <1>9. Answers(S)'
    BY <1>2, <1>7, <1>8 DEF Answers
  <1> QED
    BY <1>1, <1>2, <1>8, <1>9

LEMMA ServeDriver ==
    ASSUME TypeInv, ServeInv, TypeInv', ~broken, DriverStep \/ AppStops,
           UNCHANGED <<driver, asked, strayed>>
    PROVE  ServeInv'
  <1>1. SUFFICES ASSUME Open' PROVE ServeInv'
    BY DEF ServeInv
  <1>2. peer' = "open" /\ ~broken' /\ pc' # "drain" /\ pc' # "over" /\ UNCHANGED <<asked, strayed>>
    BY <1>1 DEF Open
  <1>3. ~Over
    BY <1>2 DEF Over
  <1>4. ASSUME NEW k \in 1..Size, Recv(k) PROVE ServeInv'
    <2>1. Open
      BY <1>2, <1>4 DEF Recv, Open
    <2> QED
      BY ONLY TypeInv, ServeInv, TypeInv', <1>2, <1>4, <2>1, ServeRecv
  <1>5. ASSUME NEW k \in 1..BuffLen, Drain(k) PROVE FALSE
    BY <1>2, <1>5 DEF Drain
  <1>6. CASE RecvEnd
    BY <1>2, <1>6 DEF RecvEnd
  <1>7. CASE WouldBlock
    BY <1>2, <1>7, ServeWouldBlock DEF WouldBlock, Open
  <1>8. CASE Decode
    BY <1>2, <1>8, ServeDecode DEF Decode, Open
  <1>9. CASE Ignore \/ Answer
    <2>1. /\ pc = "switch" /\ pc' \in {"recv", "reply"} /\ (pc' = "reply" => Answered(cur))
          /\ UNCHANGED <<got, peer, net, request, total, cur, broken>>
      BY <1>9 DEF Ignore, Answer
    <2>2. Open
      BY <1>2, <2>1 DEF Open
    <2>3. Stream' = Stream
      <3>1. Held = 0 /\ Held' = 0
        BY <2>1 DEF Held, TypeInv
      <3> QED
        BY <2>1, <3>1, StreamSame
    <2>4. StreamInv'
      BY <1>2, <2>1, <2>2, <2>3 DEF ServeInv, StreamInv
    <2>5. CurInv'
      <3>1. pc' = "reply" => Answered(cur')
        BY <2>1
      <3> QED
        BY <1>2, <2>1, <2>2, <2>3, <3>1
        DEF ServeInv, CurInv, Answered, Service!Acked, Service!Passes
    <2>6. PICK S \in SUBSET (1..Len(asked)) : Answers(S)
      BY <2>2 DEF ServeInv
    <2>7. Pending' = Pending
      BY <2>1 DEF Pending, OnDrive
    <2>8. Answers(S)'
      BY <1>2, <2>1, <2>3, <2>6, <2>7 DEF Answers
    <2> QED
      BY <1>2, <2>4, <2>5, <2>6, <2>8 DEF ServeInv
  <1>10. CASE SendReply
    <2>1. Open
      BY <1>2, <1>10 DEF SendReply, Send, Open
    <2>2. PICK S \in SUBSET (1..Len(asked)) : Answers(S)
      BY <2>1 DEF ServeInv
    <2> PICK n : n = cur.to
      OBVIOUS
    <2>3. n \in 1..Len(asked) /\ Answers(S \cup {n})' /\ Stream' = Stream
      BY <1>2, <1>10, <2>1, <2>2, ReplySent
    <2>4. pc' \in {"data", "recv"}
      BY <1>10 DEF SendReply
    <2>5. StreamInv' /\ CurInv'
      BY <1>2, <2>1, <2>3, <2>4 DEF ServeInv, StreamInv, CurInv
    <2>6. S \cup {n} \in SUBSET (1..Len(asked'))
      BY <1>2, <2>3
    <2> QED
      BY <2>3, <2>5, <2>6 DEF ServeInv
  <1>11. CASE SendData
    <2>1. Open
      BY <1>2, <1>11 DEF SendData, Send, Open
    <2>2. PICK S \in SUBSET (1..Len(asked)) : Answers(S)
      BY <2>1 DEF ServeInv
    <2>3. Answers(S)' /\ Stream' = Stream
      BY <1>2, <1>11, <2>1, <2>2, DataSent
    <2>4. pc' \in {"data", "recv"}
      BY <1>11 DEF SendData
    <2>5. StreamInv' /\ CurInv'
      BY <1>2, <2>1, <2>3, <2>4 DEF ServeInv, StreamInv, CurInv
    <2>6. S \in SUBSET (1..Len(asked'))
      BY <1>2
    <2> QED
      BY <2>3, <2>5, <2>6 DEF ServeInv
  <1>12. CASE WriteBegin
    BY <1>2, <1>12 DEF WriteBegin
  <1>13. CASE RecvFails \/ BadMagic \/ Disconnect \/ SendFails \/ DriveReadFails \/ AppStops
    BY <1>3, <1>13 DEF RecvFails, BadMagic, Disconnect, SendFails, DriveReadFails, AppStops
  <1>14. CASE ReadBeyond
    BY <1>2, <1>14 DEF ReadBeyond
  <1> QED
    BY <1>4, <1>5, <1>6, <1>7, <1>8, <1>9, <1>10, <1>11, <1>12, <1>13, <1>14 DEF DriverStep

LEMMA SessionStep == SessionInv /\ [Next]_vars => SessionInv'
  <1> SUFFICES ASSUME TypeInv, ServeInv, WaitInv, [Next]_vars PROVE ServeInv' /\ WaitInv'
    BY TypeStep DEF SessionInv
  <1>1. TypeInv'
    BY TypeStep
  <1>2. CASE Peer
    <2>1. WaitInv'
      BY <1>2, WaitPeer
    <2>2. CASE PeerLeaves \/ Reset
      <3>1. ~Open'
        BY <2>2 DEF PeerLeaves, Reset, Open
      <3> QED
        BY <2>1, <3>1 DEF ServeInv
    <2>3. ASSUME NEW r \in Requests, PeerAsks(r) PROVE ServeInv'
      BY <1>1, <1>2, <2>3, ServeAsks DEF Peer
    <2> QED
      BY <1>2, <2>1, <2>2, <2>3 DEF Peer
  <1>3. CASE Driver \/ Stop
    <2>1. ~broken /\ (DriverStep \/ AppStops) /\ UNCHANGED <<driver, asked, strayed>>
      BY <1>3 DEF Driver, Stop
    <2> QED
      BY <1>1, <2>1, WaitDriver, ServeDriver
  <1>4. CASE UNCHANGED vars
    <2>1. /\ Open' = Open /\ StreamInv' = StreamInv /\ CurInv' = CurInv /\ asked' = asked
          /\ \A S : Answers(S)' = Answers(S)
      BY <1>4
      DEF vars, Open, StreamInv, Stream, Held, InOrder, HasData, CurInv, AllBehind, Answered,
          Service!Acked, Service!Passes, Answers, Pending, OnDrive, AllAfter
    <2>2. ServeInv'
      BY <2>1 DEF ServeInv
    <2>3. WaitInv'
      BY <1>4 DEF vars, WaitInv, OnDrive
    <2> QED
      BY <2>2, <2>3
  <1> QED
    BY <1>2, <1>3, <1>4 DEF Next

-----------------------------------------------------------------------------
(* What the peer is promised.                                              *)
LEMMA PrefixOf ==
    ASSUME NEW U, NEW a \in Seq(U), NEW b \in Seq(U)
    PROVE  Service!IsPrefix(a, a \o b) /\ (Len(b) > 0 => Service!IsStrictPrefix(a, a \o b))
  <1>1. /\ a \o b \in Seq(U) /\ Len(a) \in Nat /\ Len(b) \in Nat
        /\ Len(a \o b) = Len(a) + Len(b)
    BY JoinedUnits
  <1>2. SubSeq(a, 1, Len(a)) = SubSeq(a \o b, 1, Len(a))
    <2>1. CASE Len(a) > 0
      <3>1. 1 \in 1..Len(a) /\ Len(a) \in 1..Len(a)
        BY <1>1, <2>1
      <3> QED
        BY <3>1, SubSeqOfConcat1
    <2>2. CASE Len(a) = 0
      <3>1. a = <<>>
        BY <2>2, EmptySeq
      <3> QED
        BY <3>1, ConcatEmptySeq, <2>2
    <2> QED
      BY <1>1, <2>1, <2>2
  <1>3. Service!IsPrefix(a, a \o b)
    BY <1>1, <1>2 DEF Service!IsPrefix
  <1>4. Len(b) > 0 => a # a \o b
    BY <1>1
  <1> QED
    BY <1>3, <1>4 DEF Service!IsStrictPrefix

(* What has gone out is the front of the answers to S; of the answers to   *)
(* all requests, when the peer waits for each.                             *)
LEMMA RightSoFar ==
    ASSUME TypeInv, TypeInv', asked' = asked, strayed' = strayed,
           NEW S \in SUBSET (1..Len(asked)), Answers(S)'
    PROVE  \E T \in SUBSET DOMAIN asked : /\ strayed \/ T = DOMAIN asked
                                         /\ Service!IsPrefix(got', Service!Replies(T))
  <1>1. /\ asked \in Seq(Requests) /\ Len(asked) \in Nat /\ DOMAIN asked = 1..Len(asked)
        /\ got' \in Seq(Sent)
    BY LenProperties DEF TypeInv
  <1>2. Pending' \in Seq(Sent)
    <2>1. <<>> \in Seq(Sent)
      OBVIOUS
    <2>2. Data(cur'.off, cur'.len) \in Seq(Sent)
      BY DataIs DEF TypeInv
    <2> QED
      BY <2>1, <2>2 DEF Pending
  <1>3. /\ got' \o Pending' = AnswersOf(asked, S)
        /\ ~strayed => S = 1..Len(asked) \/ S = 1..(Len(asked) - 1)
    BY DEF Answers
  <1>4. CASE strayed \/ S = DOMAIN asked
    <2>1. Service!IsPrefix(got', Service!Replies(S))
      BY <1>1, <1>2, <1>3, PrefixOf, RepliesAre
    <2> QED
      BY <1>1, <1>4, <2>1
  <1>5. CASE ~(strayed \/ S = DOMAIN asked)
    <2>1. PICK n \in Nat : n = Len(asked)
      BY <1>1
    <2>2. S = 1..(n - 1) /\ n > 0
      BY <1>1, <1>3, <1>5, <2>1
    <2>3. S \cup {n} = DOMAIN asked /\ n \in 1..Len(asked) /\ \A m \in S : m < n
      BY <1>1, <2>1, <2>2
    <2>4. AnswersOf(asked, S \cup {n}) = AnswersOf(asked, S) \o AnswerTo(asked[n], n)
      BY ONLY <1>1, <2>3, S \in SUBSET (1..Len(asked)), AnswersGrow
    <2>5. AnswerTo(asked[n], n) \in Seq(Sent)
      <3>1. asked[n] \in Requests
        BY <2>3, Facts
      <3> QED
        BY <3>1, AnswerIs
    <2>6. /\ Pending' \o AnswerTo(asked[n], n) \in Seq(Sent)
          /\ (got' \o Pending') \o AnswerTo(asked[n], n)
                = got' \o (Pending' \o AnswerTo(asked[n], n))
      BY <1>1, <1>2, <2>5, ConcatProperties, ConcatAssociative, SMTT(40)
    <2>7. Service!Replies(DOMAIN asked) = got' \o (Pending' \o AnswerTo(asked[n], n))
      BY <1>3, <2>3, <2>4, <2>6, RepliesAre
    <2>8. Service!IsPrefix(got', Service!Replies(DOMAIN asked))
      BY <1>1, <2>6, <2>7, PrefixOf
    <2> QED
      BY <2>8
  <1> QED
    BY <1>4, <1>5

(* An asking peer asks, in NbdService's words.                             *)
LEMMA AskIsAsk ==
    ASSUME TypeInv, ~broken, NEW r \in Requests, PeerAsks(r)
    PROVE  Service!Ask
  <1>1. (Len(UnitsOf(1, r)) > Size) = (r.cmd = "WRITE" /\ r.len > 0)
    BY UnitsOfRequest DEF HasData
  <1>2. strayed' = (\/ strayed \/ ~Service!AllAnswered
                    \/ (r.cmd = "WRITE" /\ r.len > 0) \/ Service!Wrapped(r)
                    \/ asked # <<>> /\ Service!ReplyTo(Len(asked)) = <<>>)
    BY <1>1, Zenon DEF PeerAsks
  <1>3. /\ peer = "open" /\ asked' = Append(asked, r) /\ UNCHANGED <<got, peer, broken>>
    BY DEF PeerAsks
  <1> QED
    BY <1>2, <1>3 DEF Service!Ask

(* A driver's step gives the peer something, breaks the connection, or is  *)
(* none of the peer's business.                                            *)
LEMMA DriverDelivers ==
    ASSUME SessionInv, TypeInv', WaitInv', ~broken, DriverStep \/ AppStops,
           UNCHANGED <<driver, asked, strayed>>
    PROVE  [Service!Next]_(Service!servicevars)
  <1>1. TypeInv /\ ServeInv /\ UNCHANGED <<asked, strayed>>
    BY DEF SessionInv
  <1>2. ASSUME Over PROVE UNCHANGED <<got, peer, broken>>
    BY <1>2 DEF Over
  <1>3. ASSUME UNCHANGED <<got, peer, broken>> PROVE UNCHANGED Service!servicevars
    BY <1>1, <1>3 DEF Service!servicevars
  <1>4. ASSUME UNCHANGED <<got, peer>>, broken' \in BOOLEAN PROVE [Service!Next]_(Service!servicevars)
    <2>1. CASE broken'
      <3>1. strayed \/ peer # "open"
        BY <1>1, <1>4, <2>1 DEF WaitInv
      <3>2. broken' = TRUE
        BY <1>4, <2>1
      <3> QED
        BY <1>1, <1>4, <3>1, <3>2 DEF Service!Next, Service!Break
    <2>2. CASE ~broken'
      <3>1. broken' = broken
        BY <1>1, <1>4, <2>2 DEF TypeInv
      <3> QED
        BY <1>3, <1>4, <3>1
    <2> QED
      BY <2>1, <2>2
  <1>5. ASSUME NEW k \in 1..Size, Recv(k) PROVE [Service!Next]_(Service!servicevars)
    BY <1>4, <1>5 DEF Recv
  <1>6. ASSUME NEW k \in 1..BuffLen, Drain(k) PROVE [Service!Next]_(Service!servicevars)
    BY <1>4, <1>6 DEF Drain
  <1>7. CASE RecvEnd \/ WouldBlock \/ Decode \/ Ignore \/ Answer \/ WriteBegin
    <2>1. UNCHANGED <<got, peer, broken>>
      BY <1>7 DEF RecvEnd, WouldBlock, Decode, Ignore, Answer, WriteBegin
    <2> QED
      BY <1>3, <2>1
  <1>8. CASE RecvFails \/ BadMagic \/ Disconnect \/ SendFails \/ DriveReadFails \/ AppStops
    BY <1>2, <1>3, <1>8 DEF RecvFails, BadMagic, Disconnect, SendFails, DriveReadFails, AppStops
  <1>9. ASSUME NEW S \in SUBSET (1..Len(asked)), Answers(S)', peer = "open", peer' = "open",
               Service!IsStrictPrefix(got, got'), broken' = broken
        PROVE  Service!Next
    <2>1. \E T \in SUBSET DOMAIN asked : /\ strayed \/ T = DOMAIN asked
                                        /\ Service!IsPrefix(got', Service!Replies(T))
      BY <1>1, <1>9, RightSoFar
    <2> QED
      BY <1>1, <1>9, <2>1 DEF Service!Next, Service!Deliver
  <1>10. ASSUME NEW u, Send(u), peer # "open", broken' = broken
         PROVE  UNCHANGED Service!servicevars
    <2>1. got' = got /\ peer' = "poked"
      BY <1>10 DEF Send
    <2> QED
      BY <1>1, <1>10, <2>1 DEF Service!servicevars
  <1>11. ASSUME peer = "open", pc \in {"reply", "data"}
         PROVE  Open /\ \E S \in SUBSET (1..Len(asked)) : Answers(S)
    BY <1>1, <1>11 DEF Open, ServeInv
  <1>12. CASE SendReply
    <2>1. Send(<<<<"reply", cur.to>>>>) /\ pc = "reply" /\ broken' = broken
      BY <1>12 DEF SendReply
    <2>2. CASE peer = "open"
      <3>1. peer' = "open"
        BY <2>1, <2>2 DEF Send
      <3>2. PICK S \in SUBSET (1..Len(asked)) : Answers(S)
        BY <1>11, <2>1, <2>2
      <3> PICK n : n = cur.to
        OBVIOUS
      <3>3. /\ n \in 1..Len(asked) /\ Answers(S \cup {n})'
            /\ got' = got \o <<<<"reply", n>>>>
        BY <1>1, <1>11, <1>12, <2>1, <2>2, <3>1, <3>2, ReplySent
      <3>4. <<<<"reply", n>>>> \in Seq(Sent) /\ Len(<<<<"reply", n>>>>) > 0 /\ got \in Seq(Sent)
        BY <1>1, <3>3, Facts DEF Sent, TypeInv
      <3>5. Service!IsStrictPrefix(got, got')
        BY <3>3, <3>4, PrefixOf
      <3>6. S \cup {n} \in SUBSET (1..Len(asked))
        BY <3>3
      <3> QED
        BY <1>9, <2>1, <2>2, <3>1, <3>3, <3>5, <3>6
    <2>3. CASE peer # "open"
      BY <1>10, <2>1, <2>3
    <2> QED
      BY <2>2, <2>3
  <1>13. CASE SendData
    <2>1. pc = "data" /\ broken' = broken /\ Send(Data(cur.off, Least(cur.len, BuffLen)))
      BY <1>13 DEF SendData
    <2>2. CASE peer = "open"
      <3>1. peer' = "open"
        BY <2>1, <2>2 DEF Send
      <3>2. PICK S \in SUBSET (1..Len(asked)) : Answers(S)
        BY <1>11, <2>1, <2>2
      <3>3. Answers(S)' /\ \E c \in Nat : c > 0 /\ got' = got \o Data(cur.off, c)
        BY <1>1, <1>11, <1>13, <2>1, <2>2, <3>1, <3>2, DataSent
      <3>4. PICK c \in Nat : c > 0 /\ got' = got \o Data(cur.off, c)
        BY <3>3
      <3>5. /\ Data(cur.off, c) \in Seq(Sent) /\ Len(Data(cur.off, c)) > 0 /\ got \in Seq(Sent)
        BY <1>1, <3>4, DataIs DEF TypeInv
      <3>6. Service!IsStrictPrefix(got, got')
        BY <3>4, <3>5, PrefixOf
      <3> QED
        BY <1>9, <2>1, <2>2, <3>1, <3>3, <3>6
    <2>3. CASE peer # "open"
      BY <1>10, <2>1, <2>3
    <2> QED
      BY <2>2, <2>3
  <1>14. CASE ReadBeyond
    BY <1>4, <1>14 DEF ReadBeyond
  <1> QED
    BY <1>5, <1>6, <1>7, <1>8, <1>12, <1>13, <1>14 DEF DriverStep

LEMMA StepImplements == SessionInv /\ [Next]_vars => [Service!Next]_(Service!servicevars)
  <1> SUFFICES ASSUME SessionInv, [Next]_vars PROVE [Service!Next]_(Service!servicevars)
    OBVIOUS
  <1>1. SessionInv'
    BY SessionStep
  <1>2. CASE Driver \/ Stop
    <2>1. ~broken /\ (DriverStep \/ AppStops) /\ UNCHANGED <<driver, asked, strayed>>
      BY <1>2 DEF Driver, Stop
    <2>2. TypeInv' /\ WaitInv'
      BY <1>1 DEF SessionInv
    <2> QED
      BY <2>1, <2>2, DriverDelivers
  <1>3. ASSUME ~broken, NEW r \in Requests, PeerAsks(r) PROVE Service!Next
    BY <1>3, AskIsAsk DEF SessionInv, Service!Next
  <1>4. CASE PeerLeaves
    BY <1>4 DEF PeerLeaves, Service!Next, Service!Leave
  <1>5. CASE Reset
    BY <1>5 DEF Reset, Service!servicevars
  <1>6. CASE UNCHANGED vars
    BY <1>6 DEF vars, Service!servicevars
  <1> QED
    BY <1>2, <1>3, <1>4, <1>5, <1>6 DEF Next, Peer

(* Whatever the recv() calls return, wherever the peer closes and whatever *)
(* a repeated or unfinished request makes the driver do, the peer gets     *)
(* right answers, in the order of its requests and none twice; if it waits *)
(* for each, none is missing and the driver overruns nothing.              *)
THEOREM SessionImplementsService == Spec => ImplementsService
  <1>1. Init => Service!Init
    BY DEF Init, Service!Init
  <1>2. Init => SessionInv
    BY TypeInit, ServeInit DEF SessionInv
  <1>3. SessionInv /\ [Next]_vars => SessionInv'
    BY SessionStep
  <1>4. SessionInv /\ [Next]_vars => [Service!Next]_(Service!servicevars)
    BY StepImplements
  <1>5. Spec => Service!Spec
    BY <1>1, <1>2, <1>3, <1>4, PTL DEF Spec, Service!Spec
  <1> QED
    BY <1>5 DEF ImplementsService
=============================================================================
