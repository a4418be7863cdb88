-------------------------- MODULE TransportProofs ---------------------------
(***************************************************************************)
(* The locks that transports take and give back, for any number of them,   *)
(* any layouts and any bound: proofs about Transport.                      *)
(***************************************************************************)
EXTENDS Transport, ListLemmas, FiniteSetTheorems, SequenceTheorems, TLAPS

States == [running : BOOLEAN, error : BOOLEAN, active : BOOLEAN, sock : BOOLEAN,
           buff : {"null", "held", "freed", "freed twice"}]

(* The inductive invariant has two parts.  Serving is about the locks and  *)
(* the transports.  Neither LockAccounting nor RunningSeesLayout is        *)
(* inductive alone: that a stop finds a lock to give back follows from the *)
(* count, that a second lock finds a layout from the first one.            *)
Serving ==
    /\ lockcnt \in Nat /\ view \in Views
    /\ userlocks \in Nat /\ leaked \in Nat
    /\ opened \in Seq(Transports) /\ Distinct(opened)
    /\ state \in [Transports -> States]
    /\ ConnectionMatchesFlag
    /\ LockAccounting
    /\ lockcnt > 0 => view # {}

(* Walking is about the call under way: what is left of it is not empty,   *)
(* vdf_drive_start() comes only to transports that are open, and takes one *)
(* lock for each that it has come to.                                      *)
Walking ==
    /\ call \in [op : {"none", "start", "stop", "free", "freed"}, rest : Seq(Transports)]
    /\ call.op \in {"start", "stop", "free"} => call.rest # <<>>
    /\ call.op = "start" => \A i \in DOMAIN call.rest : IsOpen(call.rest[i])
    /\ lockcnt <= MaxLock + Cardinality(Transports)
    /\ call.op = "start" => lockcnt + Len(call.rest) <= MaxLock + Cardinality(Transports)

TransInv == Serving /\ Walking

-----------------------------------------------------------------------------
(* What starting, stopping and freeing a transport does to the locks.      *)

(* A set of transports has a size, which one element more or less changes  *)
(* by one.                                                                 *)
LEMMA RunningCount ==
    ASSUME NEW R \in SUBSET Transports
    PROVE  /\ Cardinality(R) \in Nat
           /\ \A t \in R : Cardinality(R) > 0
           /\ \A t \in Transports \ R : Cardinality(R \cup {t}) = Cardinality(R) + 1
           /\ \A t \in R : Cardinality(R \ {t}) = Cardinality(R) - 1
  <1>1. IsFiniteSet(R)
    BY FS_Subset, TransportAssumption
  <1>2. Cardinality(R) \in Nat
    BY <1>1, FS_CardinalityType
  <1>3. \A t \in R : Cardinality(R) # 0
    BY <1>1, FS_EmptySet
  <1>4. \A t \in Transports \ R : Cardinality(R \cup {t}) = Cardinality(R) + 1
    BY <1>1, FS_AddElement
  <1>5. \A t \in R : Cardinality(R \ {t}) = Cardinality(R) - 1
    BY <1>1, FS_RemoveElement
  <1> QED
    BY <1>2, <1>3, <1>4, <1>5

(* A step that leaves the transports alone: the application's locks, a     *)
(* change of the drive, a call that is refused.                            *)
LEMMA LocksOnlyServe ==
    ASSUME Serving, UNCHANGED <<opened, state, leaked>>,
           lockcnt' \in Nat, userlocks' \in Nat, view' \in Views,
           lockcnt' - lockcnt = userlocks' - userlocks,
           lockcnt' > 0 => view' # {}
    PROVE  Serving'
  <1>1. Running' = Running /\ Cardinality(Running) \in Nat
    BY RunningCount DEF Running
  <1>2. LockAccounting'
    <2>1. PICK c \in Nat : c = Cardinality(Running) /\ c = Cardinality(Running')
      BY <1>1
    <2>2. /\ lockcnt = c + userlocks + leaked /\ leaked' = leaked
          /\ lockcnt \in Nat /\ userlocks \in Nat /\ leaked \in Nat
      BY <2>1 DEF LockAccounting, Serving
    <2>3. PICK n \in Nat, n1 \in Nat, u \in Nat, u1 \in Nat, l \in Nat :
            /\ n = lockcnt /\ n1 = lockcnt' /\ u = userlocks /\ u1 = userlocks' /\ l = leaked
            /\ n1 - n = u1 - u
      BY <2>2
    <2>4. n = c + u + l
      BY <2>2, <2>3
    <2>5. n1 = c + u1 + l
      <3>1. n1 - n = u1 - u
        BY <2>3
      <3> QED
        BY ONLY <2>4, <3>1, c \in Nat, n \in Nat, n1 \in Nat, u \in Nat, u1 \in Nat, l \in Nat
    <2> QED
      BY <2>1, <2>2, <2>3, <2>5 DEF LockAccounting
  <1>3. ConnectionMatchesFlag'
    BY DEF ConnectionMatchesFlag, IsOpen, Serving
  <1> QED
    BY <1>2, <1>3 DEF Serving

(* vdf_transport_start() of a transport that is open and does not run: the *)
(* lock has a new reason.                                                  *)
LEMMA StartSucceedsServes ==
    ASSUME Serving, NEW t \in Transports, IsOpen(t), StartSucceeds(t),
           UNCHANGED <<opened, userlocks>>
    PROVE  Serving' /\ lockcnt' = lockcnt + 1
  <1> USE DEF Serving
  <1>1. /\ ~state[t].running
        /\ lockcnt' = lockcnt + 1 /\ view' \in Views /\ view' # {}
        /\ leaked' = leaked
    BY DEF StartSucceeds, TakeLock, Lock
  <1>2. PICK s : /\ s = [nbdcli_started(state[t]) EXCEPT !.running = TRUE]
                 /\ state' = [state EXCEPT ![t] = s]
    BY DEF StartSucceeds
  <1>3. s \in States /\ s.running /\ s.sock /\ s.buff = "held"
    BY <1>2 DEF nbdcli_started, States
  <1>4. state' \in [Transports -> States]
    BY <1>2, <1>3
  <1>5. LockAccounting'
    <2>1. t \in Transports \ Running /\ Running \in SUBSET Transports
      BY <1>1 DEF Running
    <2>2. Running' = Running \cup {t}
      BY <1>2, <1>3 DEF Running
    <2>3. Cardinality(Running') = Cardinality(Running) + 1 /\ Cardinality(Running) \in Nat
      BY <2>1, <2>2, RunningCount
    <2> QED
      BY <1>1, <2>3 DEF LockAccounting
  <1>6. ConnectionMatchesFlag'
    BY <1>2, <1>3 DEF ConnectionMatchesFlag, IsOpen
  <1> QED
    BY <1>1, <1>4, <1>5, <1>6

(* A start that fails keeps its lock.                                      *)
LEMMA StartFailsServes ==
    ASSUME Serving, NEW t \in Transports, StartFails(t), UNCHANGED <<opened, userlocks>>
    PROVE  Serving' /\ lockcnt' = lockcnt + 1
  <1> USE DEF Serving
  <1>1. /\ ~state[t].running
        /\ lockcnt' = lockcnt + 1 /\ view' \in Views /\ view' # {}
        /\ leaked' = leaked + 1
    BY DEF StartFails, TakeLock, Lock
  <1>2. PICK s \in nbdcli_failed(state[t]) : state' = [state EXCEPT ![t] = s]
    BY DEF StartFails
  <1>3. /\ s \in States /\ s.buff # "freed twice"
        /\ ~s.running /\ ~s.sock /\ ~s.active
    BY <1>1, <1>2 DEF nbdcli_failed, States, ConnectionMatchesFlag
  <1>4. state' \in [Transports -> States]
    BY <1>2, <1>3
  <1>5. Running' = Running
    BY <1>1, <1>2, <1>3 DEF Running
  <1>6. LockAccounting'
    <2>1. Cardinality(Running) \in Nat
      BY RunningCount DEF Running
    <2> QED
      BY <1>1, <1>5, <2>1 DEF LockAccounting
  <1>7. ConnectionMatchesFlag'
    BY <1>2, <1>3 DEF ConnectionMatchesFlag, IsOpen
  <1> QED
    BY <1>1, <1>4, <1>6, <1>7

(* A running transport that stops gives its lock back; there is one to     *)
(* give back.  It may leave the list with it.                              *)
LEMMA StoppedServes ==
    ASSUME Serving, NEW t \in Transports, state[t].running, Unlock,
           NEW s \in States, s.running = state[t].running, s.buff = state[t].buff,
           state' = [state EXCEPT ![t] = nbdcli_stopped(s)],
           opened' \in Seq(Transports), Distinct(opened'),
           \A u \in Transports \ {t} : IsOpen(u) => IsOpen(u)',
           UNCHANGED <<userlocks, leaked>>
    PROVE  Serving'
  <1> USE DEF Serving
  <1>1. lockcnt > 0 /\ lockcnt' = lockcnt - 1 /\ view' = view
    BY DEF Unlock
  <1>2. /\ nbdcli_stopped(s) \in States /\ nbdcli_stopped(s).buff # "freed twice"
        /\ ~nbdcli_stopped(s).running /\ ~nbdcli_stopped(s).sock /\ ~nbdcli_stopped(s).active
    BY DEF nbdcli_stopped, States, ConnectionMatchesFlag
  <1>3. state' \in [Transports -> States]
    BY <1>2
  <1>4. Running' = Running \ {t} /\ t \in Running
    BY <1>2 DEF Running
  <1>5. LockAccounting'
    <2>1. Cardinality(Running') = Cardinality(Running) - 1 /\ Cardinality(Running) \in Nat
      BY <1>4, RunningCount DEF Running
    <2> QED
      BY <1>1, <2>1 DEF LockAccounting
  <1>6. ConnectionMatchesFlag'
    BY <1>2 DEF ConnectionMatchesFlag
  <1> QED
    BY <1>1, <1>3, <1>5, <1>6
(* vdf_transport_close(), by itself or in vdf_drive_free().                *)
LEMMA CloseServes ==
    ASSUME Serving, NEW t \in Transports, CloseEffect(t)
    PROVE  Serving' /\ lockcnt' <= lockcnt
  <1>1. PICK i \in DOMAIN opened : opened[i] = t /\ opened' = RemoveAt(opened, i)
    BY DEF CloseEffect
  <1>2. opened \in Seq(Transports) /\ Distinct(opened)
    BY DEF Serving
  <1>3. opened' \in Seq(Transports) /\ Distinct(opened')
    BY <1>1, <1>2, RemoveAtProperties, RemoveAtDistinct
  <1>4. \A u \in Transports \ {t} : IsOpen(u) => IsOpen(u)'
    <2>1. SUFFICES ASSUME NEW u \in Transports \ {t}, IsOpen(u)
                   PROVE  \E k \in DOMAIN opened' : opened'[k] = u
      BY DEF IsOpen
    <2>2. PICK j \in DOMAIN opened : opened[j] = u
      BY <2>1 DEF IsOpen
    <2>3. j # i
      BY <1>1, <2>2
    <2> QED
      BY <1>1, <1>2, <2>2, <2>3, RemoveAtDistinct
  <1>5. CASE state[t].running
    <2>1. /\ Unlock
          /\ state' = [state EXCEPT ![t] = nbdcli_stopped(state[t])]
          /\ UNCHANGED <<userlocks, leaked>>
      BY <1>5 DEF CloseEffect
    <2>2. state[t] \in States
      BY DEF Serving
    <2>3. Serving'
      BY <1>3, <1>4, <1>5, <2>1, <2>2, StoppedServes
    <2> QED
      BY <2>1, <2>3 DEF Serving, Unlock
  <1>6. CASE ~state[t].running
    <2>1. UNCHANGED <<lockvars, state, userlocks, leaked>>
      BY <1>6 DEF CloseEffect
    <2>2. Running' = Running
      BY <2>1 DEF Running
    <2>3. ConnectionMatchesFlag'
      BY <1>4, <1>6, <2>1 DEF Serving, ConnectionMatchesFlag
    <2> QED
      BY <1>3, <2>1, <2>2, <2>3 DEF Serving, LockAccounting, lockvars
  <1> QED
    BY <1>5, <1>6

(* vdf_transport_stop() of a running transport that stays on the list.     *)
LEMMA StopServes ==
    ASSUME Serving, NEW t \in Transports, StopRuns(t), UNCHANGED <<opened, userlocks>>
    PROVE  Serving' /\ lockcnt' <= lockcnt
  <1>1. /\ state[t].running /\ Unlock /\ UNCHANGED leaked
        /\ state' = [state EXCEPT ![t] = nbdcli_stopped(state[t])]
    BY DEF StopRuns
  <1>2. /\ state[t] \in States
        /\ opened' \in Seq(Transports) /\ Distinct(opened')
        /\ \A u \in Transports \ {t} : IsOpen(u) => IsOpen(u)'
    BY DEF Serving, IsOpen
  <1>3. Serving'
    BY <1>1, <1>2, StoppedServes
  <1> QED
    BY <1>1, <1>3 DEF Serving, Unlock
-----------------------------------------------------------------------------
(* A step that is not part of a walk and takes a lock, if it does, below   *)
(* the bound.                                                              *)
LEMMA IdleWalks ==
    ASSUME Serving, Walking, Serving', call = Idle, call' = call,
           lockcnt' <= lockcnt \/ (lockcnt < MaxLock /\ lockcnt' = lockcnt + 1)
    PROVE  Walking'
  <1>1. Cardinality(Transports) \in Nat /\ MaxLock \in Nat
    BY TransportAssumption, FS_CardinalityType
  <1>2. call'.op = "none" /\ Walking!1'
    BY DEF Walking, Idle
  <1>3. lockcnt' <= MaxLock + Cardinality(Transports)
    BY <1>1 DEF Walking, Serving
  <1> QED
    BY <1>2, <1>3 DEF Walking

(* What a step of a walk leaves of it.                                     *)
LEMMA ContinueWalks ==
    ASSUME Walking, call.op \in {"start", "stop", "free"},
           NEW end \in {Idle, Freed}, Continue(end)
    PROVE  /\ Head(call.rest) \in Transports
           /\ \E i \in DOMAIN call.rest : call.rest[i] = Head(call.rest)
           /\ call' \in [op : {"none", "start", "stop", "free", "freed"}, rest : Seq(Transports)]
           /\ call'.op \in {"start", "stop", "free"} =>
                /\ call'.op = call.op /\ call'.rest # <<>>
                /\ Len(call'.rest) = Len(call.rest) - 1
                /\ \A i \in DOMAIN call'.rest : \E j \in DOMAIN call.rest : call'.rest[i] = call.rest[j]
  <1>1. /\ call \in [op : {"none", "start", "stop", "free", "freed"}, rest : Seq(Transports)]
        /\ call.rest # <<>> /\ call.rest \in Seq(Transports)
    BY DEF Walking
  <1>2. Len(call.rest) \in Nat \ {0} /\ DOMAIN call.rest = 1..Len(call.rest)
    BY <1>1, EmptySeq, LenProperties
  <1>3. Head(call.rest) \in Transports /\ Head(call.rest) = call.rest[1] /\ 1 \in DOMAIN call.rest
    BY <1>1, <1>2, HeadTailProperties
  <1>4. CASE Len(call.rest) = 1
    <2>1. call' = end
      BY <1>4 DEF Continue
    <2>2. <<>> \in Seq(Transports)
      BY EmptySeq
    <2>3. call'.op \in {"none", "freed"}
      BY <2>1 DEF Idle, Freed
    <2>4. call' \in [op : {"none", "start", "stop", "free", "freed"}, rest : Seq(Transports)]
      <3>1. CASE end = Idle
        BY <2>1, <2>2, <3>1 DEF Idle
      <3>2. CASE end = Freed
        BY <2>1, <2>2, <3>2 DEF Freed
      <3> QED
        BY <3>1, <3>2
    <2> QED
      BY <1>3, <2>3, <2>4
  <1>5. CASE Len(call.rest) # 1
    <2>1. call' = [call EXCEPT !.rest = Tail(call.rest)]
      BY <1>5 DEF Continue
    <2>2. /\ Tail(call.rest) \in Seq(Transports)
          /\ Len(Tail(call.rest)) = Len(call.rest) - 1
          /\ \A i \in 1..Len(Tail(call.rest)) : Tail(call.rest)[i] = call.rest[i + 1]
      BY <1>1, HeadTailProperties
    <2>3. call'.op = call.op /\ call'.rest = Tail(call.rest)
      BY <1>1, <2>1
    <2>4. call' \in [op : {"none", "start", "stop", "free", "freed"}, rest : Seq(Transports)]
      BY <1>1, <2>1, <2>2
    <2>5. call'.rest # <<>>
      <3>1. Len(Tail(call.rest)) # 0
        BY <1>2, <1>5, <2>2
      <3>2. Len(<<>>) = 0
        BY EmptySeq
      <3> QED
        BY <2>3, <3>1, <3>2
    <2>6. ASSUME NEW i \in DOMAIN call'.rest
          PROVE  \E j \in DOMAIN call.rest : call'.rest[i] = call.rest[j]
      <3>1. i \in 1..Len(Tail(call.rest))
        BY <2>2, <2>3, LenProperties
      <3>2. i + 1 \in DOMAIN call.rest /\ call'.rest[i] = call.rest[i + 1]
        BY <1>2, <2>2, <2>3, <3>1
      <3> QED
        BY <3>2
    <2> QED
      BY <1>3, <2>2, <2>3, <2>4, <2>5, <2>6
  <1> QED
    BY <1>4, <1>5

(* A walk that ends.                                                       *)
LEMMA AbortWalks ==
    ASSUME Serving, Walking, Abort, 
           \/ lockcnt' <= lockcnt
           \/ call.op = "start" /\ call.rest # <<>> /\ lockcnt' = lockcnt + 1,
           Serving'
    PROVE  Walking'
  <1>1. Cardinality(Transports) \in Nat /\ MaxLock \in Nat
    BY TransportAssumption, FS_CardinalityType
  <1>2. call' = Idle /\ <<>> \in Seq(Transports)
    BY EmptySeq DEF Abort
  <1>3. call.rest # <<>> => Len(call.rest) \in Nat \ {0}
    BY EmptySeq DEF Walking
  <1>4. lockcnt' <= MaxLock + Cardinality(Transports)
    BY <1>1, <1>3 DEF Walking, Serving
  <1> QED
    BY <1>2, <1>4 DEF Walking, Idle
-----------------------------------------------------------------------------
LEMMA TransInvInit == Init => TransInv
  <1> SUFFICES ASSUME Init PROVE TransInv
    OBVIOUS
  <1>1. <<>> \in Seq(Transports) /\ Len(<<>>) = 0 /\ DOMAIN <<>> = {}
    BY EmptySeq
  <1>2. Cardinality(Transports) \in Nat /\ MaxLock \in Nat /\ {} \in Views
    BY TransportAssumption, FS_CardinalityType
  <1>3. Running = {} /\ Cardinality({}) = 0
    BY FS_EmptySet DEF Init, Running, Closed
  <1>4. state \in [Transports -> States]
    BY DEF Init, Closed, States
  <1>5. ConnectionMatchesFlag
    BY DEF Init, Closed, ConnectionMatchesFlag
  <1>6. Serving
    BY <1>1, <1>2, <1>3, <1>4, <1>5 DEF Init, LockInit, Serving, LockAccounting, Distinct
  <1>7. Walking
    BY <1>1, <1>2 DEF Init, LockInit, Idle, Walking
  <1> QED
    BY <1>6, <1>7 DEF TransInv

(* Every step preserves the invariant.                                     *)
LEMMA TransInvStep == TransInv /\ [Next]_vars => TransInv'
  <1> SUFFICES ASSUME Serving, Walking, [Next]_vars
               PROVE  Serving' /\ Walking'
    BY DEF TransInv
  <1>1. CASE ChangeDrive \/ RecalcDrive
    <2>1. /\ UNCHANGED <<lockcnt, opened, state, call, userlocks, leaked>>
          /\ lockcnt = 0 /\ view' \in Views /\ call = Idle
      BY <1>1, TransportAssumption DEF ChangeDrive, RecalcDrive, Change, Publish, transvars
    <2>2. Serving'
      BY <2>1, LocksOnlyServe DEF Serving
    <2> QED
      BY <2>1, <2>2, IdleWalks DEF Serving
  <1>2. CASE UserLock
    <2>1. /\ UNCHANGED <<opened, state, call, leaked>> /\ call = Idle
          /\ lockcnt < MaxLock /\ lockcnt' = lockcnt + 1 /\ userlocks' = userlocks + 1
          /\ view' \in Views /\ view' # {}
      BY <1>2 DEF UserLock, TakeLock, Lock
    <2>2. Serving'
      BY <2>1, LocksOnlyServe DEF Serving
    <2> QED
      BY <2>1, <2>2, IdleWalks DEF Serving
  <1>3. CASE UserUnlock
    <2>1. /\ UNCHANGED <<opened, state, call, leaked, view>> /\ call = Idle
          /\ lockcnt > 0 /\ lockcnt' = lockcnt - 1
          /\ userlocks > 0 /\ userlocks' = userlocks - 1
      BY <1>3 DEF UserUnlock, Unlock
    <2>2. Serving'
      BY <2>1, LocksOnlyServe DEF Serving
    <2> QED
      BY <2>1, <2>2, IdleWalks DEF Serving
  <1>4. ASSUME NEW t \in Transports, Open(t)
        PROVE  Serving' /\ Walking'
    <2>1. /\ ~IsOpen(t) /\ call = Idle /\ UNCHANGED <<lockvars, call, userlocks, leaked>>
          /\ opened' = <<t>> \o opened
          /\ state' = [state EXCEPT ![t] = Closed]
      BY <1>4 DEF Open
    <2>2. opened \in Seq(Transports) /\ <<t>> \in Seq(Transports)
      BY DEF Serving
    <2>3. /\ opened' \in Seq(Transports)
          /\ Len(opened') = 1 + Len(opened)
          /\ \A i \in 1..(1 + Len(opened)) : opened'[i] = IF i <= 1 THEN t ELSE opened[i - 1]
      BY <2>1, <2>2, ConcatProperties
    <2>4. Len(opened) \in Nat /\ DOMAIN opened = 1..Len(opened) /\ DOMAIN opened' = 1..Len(opened')
      BY <2>2, <2>3, LenProperties
    <2>5. Distinct(opened')
      <3>1. SUFFICES ASSUME NEW i \in DOMAIN opened', NEW j \in DOMAIN opened',
                            opened'[i] = opened'[j]
                     PROVE  i = j
        BY DEF Distinct
      <3>2. \A k \in DOMAIN opened' : k # 1 => k - 1 \in DOMAIN opened /\ opened'[k] = opened[k - 1]
        BY <2>3, <2>4
      <3>3. opened'[1] = t /\ \A k \in DOMAIN opened : opened[k] # t
        BY <2>1, <2>3, <2>4 DEF IsOpen
      <3>4. CASE i = 1 \/ j = 1
        BY <3>1, <3>2, <3>3, <3>4
      <3>5. CASE i # 1 /\ j # 1
        <4>1. i - 1 = j - 1
          BY <3>1, <3>2, <3>5 DEF Distinct, Serving
        <4> QED
          BY <2>4, <4>1
      <3> QED
        BY <3>4, <3>5
    <2>6. ASSUME NEW u, IsOpen(u) PROVE IsOpen(u)'
      <3>1. PICK k \in DOMAIN opened : opened[k] = u
        BY <2>6 DEF IsOpen
      <3>2. k + 1 \in DOMAIN opened' /\ opened'[k + 1] = u
        BY <2>3, <2>4, <3>1
      <3> QED
        BY <3>2 DEF IsOpen
    <2>7. ~state[t].running
      BY <2>1 DEF Serving, ConnectionMatchesFlag
    <2>8. Closed \in States /\ ~Closed.running /\ ~Closed.sock /\ ~Closed.active
          /\ Closed.buff # "freed twice"
      BY DEF Closed, States
    <2>9. Running' = Running
      BY <2>1, <2>7, <2>8 DEF Running, Serving
    <2>10. state' \in [Transports -> States]
      BY <2>1, <2>8 DEF Serving
    <2>11. ConnectionMatchesFlag'
      <3>1. \A u \in Transports \ {t} : state'[u] = state[u]
        BY <2>1 DEF Serving
      <3>2. state'[t] = Closed
        BY <2>1 DEF Serving
      <3> QED
        BY <2>6, <2>8, <3>1, <3>2 DEF ConnectionMatchesFlag, Serving
    <2>12. Serving'
      BY <2>1, <2>3, <2>5, <2>9, <2>10, <2>11 DEF Serving, LockAccounting, lockvars
    <2> QED
      BY <2>1, <2>12, IdleWalks DEF lockvars, Serving
  <1>5. ASSUME NEW t \in Transports, Close(t)
        PROVE  Serving' /\ Walking'
    <2>1. CloseEffect(t) /\ call = Idle /\ call' = call
      BY <1>5 DEF Close
    <2> QED
      BY <2>1, CloseServes, IdleWalks
  <1>6. ASSUME NEW t \in Transports, Start(t)
        PROVE  Serving' /\ Walking'
    <2>1. /\ call = Idle /\ lockcnt < MaxLock /\ IsOpen(t)
          /\ StartSucceeds(t) \/ StartFails(t)
          /\ UNCHANGED <<opened, call, userlocks>>
      BY <1>6 DEF Start
    <2>2. Serving' /\ lockcnt' = lockcnt + 1
      BY <2>1, StartSucceedsServes, StartFailsServes
    <2> QED
      BY <2>1, <2>2, IdleWalks
  <1>7. ASSUME NEW t \in Transports, Stop(t) \/ ProcessDisconnect(t)
        PROVE  Serving' /\ Walking'
    <2>1. call = Idle /\ StopRuns(t) /\ UNCHANGED <<opened, call, userlocks>>
      BY <1>7 DEF Stop, ProcessDisconnect
    <2> QED
      BY <2>1, StopServes, IdleWalks
  <1>8. ASSUME NEW t \in Transports, ProcessFails(t)
        PROVE  Serving' /\ Walking'
    <2> DEFINE s == [state[t] EXCEPT !.error = TRUE]
    <2>1. /\ call = Idle /\ state[t].running /\ Unlock
          /\ state' = [state EXCEPT ![t] = nbdcli_stopped(s)]
          /\ UNCHANGED <<opened, call, userlocks, leaked>>
      BY <1>8 DEF ProcessFails
    <2>2. s \in States /\ s.running = state[t].running /\ s.buff = state[t].buff
      BY DEF Serving, States
    <2>3. /\ opened' \in Seq(Transports) /\ Distinct(opened')
          /\ \A u \in Transports \ {t} : IsOpen(u) => IsOpen(u)'
      BY <2>1 DEF Serving, IsOpen
    <2> HIDE DEF s
    <2>4. Serving'
      BY <2>1, <2>2, <2>3, StoppedServes
    <2>5. lockcnt' <= lockcnt
      BY <2>1 DEF Unlock, Serving
    <2> QED
      BY <2>1, <2>4, <2>5, IdleWalks
  <1>9. ASSUME NEW op \in {"start", "stop", "free"}, Begin(op)
        PROVE  Serving' /\ Walking'
    <2>1. /\ call = Idle /\ opened # <<>> /\ (op = "start" => lockcnt < MaxLock)
          /\ call' = [op |-> op, rest |-> opened]
          /\ UNCHANGED <<lockcnt, view, opened, state, userlocks, leaked>>
      BY <1>9 DEF Begin, lockvars
    <2>2. Serving'
      BY <2>1, LocksOnlyServe DEF Serving
    <2>3. Cardinality(Transports) \in Nat /\ MaxLock \in Nat
      BY TransportAssumption, FS_CardinalityType
    <2>4. Len(opened) <= Cardinality(Transports) /\ Len(opened) \in Nat
      BY DistinctIsShort, LenProperties, TransportAssumption DEF Serving
    <2>5. call'.op = op /\ call'.rest = opened
      BY <2>1
    <2>6. op = "start" => lockcnt' + Len(call'.rest) <= MaxLock + Cardinality(Transports)
      BY <2>1, <2>3, <2>4, <2>5 DEF Serving
    <2>7. (\A i \in DOMAIN call.rest : IsOpen(call.rest[i]))'
      BY <2>1, <2>5 DEF IsOpen
    <2>8. call' \in [op : {"none", "start", "stop", "free", "freed"}, rest : Seq(Transports)]
      BY <2>1 DEF Serving
    <2> QED
      BY <2>1, <2>2, <2>5, <2>6, <2>7, <2>8 DEF Walking
  <1>10. CASE DriveStartStep
    <2> DEFINE t == Head(call.rest)
    <2>1. call.op = "start" /\ UNCHANGED <<opened, userlocks>> /\ call.rest # <<>>
      BY <1>10 DEF DriveStartStep, Walking
    <2>2. t \in Transports /\ IsOpen(t)
      <3>1. call.rest \in Seq(Transports) /\ 1 \in DOMAIN call.rest /\ t = call.rest[1]
        BY <2>1, EmptySeq, LenProperties DEF Walking
      <3> QED
        BY <2>1, <3>1, ElementOfSeq, LenProperties DEF Walking
    <2> HIDE DEF t
    <2>3. CASE StartSucceeds(t) /\ Continue(Idle)
      <3>1. Serving' /\ lockcnt' = lockcnt + 1
        BY <2>1, <2>2, <2>3, StartSucceedsServes
      <3>2. /\ call' \in [op : {"none", "start", "stop", "free", "freed"}, rest : Seq(Transports)]
            /\ call'.op \in {"start", "stop", "free"} =>
                 /\ call'.op = call.op /\ call'.rest # <<>>
                 /\ Len(call'.rest) = Len(call.rest) - 1
                 /\ \A i \in DOMAIN call'.rest :
                        \E j \in DOMAIN call.rest : call'.rest[i] = call.rest[j]
        BY <2>1, <2>3, ContinueWalks
      <3>3. Cardinality(Transports) \in Nat /\ MaxLock \in Nat
        BY TransportAssumption, FS_CardinalityType
      <3>4. Len(call.rest) \in Nat \ {0}
        BY <2>1, EmptySeq DEF Walking
      <3>5. lockcnt' <= MaxLock + Cardinality(Transports)
        BY <2>1, <3>1, <3>3, <3>4 DEF Walking, Serving
      <3>6. call'.op = "start" => lockcnt' + Len(call'.rest) <= MaxLock + Cardinality(Transports)
        BY <2>1, <3>1, <3>2, <3>3, <3>4 DEF Walking, Serving
      <3>7. (call.op = "start" => \A i \in DOMAIN call.rest : IsOpen(call.rest[i]))'
        <4>1. SUFFICES ASSUME call'.op = "start", NEW i \in DOMAIN call'.rest
                       PROVE  \E k \in DOMAIN opened' : opened'[k] = call'.rest[i]
          BY DEF IsOpen
        <4>2. PICK j \in DOMAIN call.rest : call'.rest[i] = call.rest[j]
          BY <3>2, <4>1
        <4>3. IsOpen(call.rest[j])
          BY <2>1, <4>2 DEF Walking
        <4> QED
          BY <2>1, <4>2, <4>3 DEF IsOpen
      <3> QED
        BY <3>1, <3>2, <3>5, <3>6, <3>7 DEF Walking
    <2>4. CASE StartFails(t) /\ Abort
      <3>1. Serving' /\ lockcnt' = lockcnt + 1
        BY <2>1, <2>2, <2>4, StartFailsServes
      <3> QED
        BY <2>1, <2>4, <3>1, AbortWalks
    <2>5. CASE StartRefused(t) /\ Abort
      <3>1. UNCHANGED <<lockcnt, view, state, leaked, opened, userlocks>>
        BY <2>1, <2>5 DEF StartRefused, lockvars
      <3>2. Serving'
        BY <3>1, LocksOnlyServe DEF Serving
      <3>3. lockcnt' <= lockcnt
        BY <3>1 DEF Serving
      <3> QED
        BY <2>5, <3>2, <3>3, AbortWalks
    <2> QED
      BY <1>10, <2>3, <2>4, <2>5 DEF DriveStartStep, t
  <1>11. CASE DriveStopStep
    <2> DEFINE t == Head(call.rest)
    <2>1. call.op = "stop" /\ UNCHANGED <<opened, userlocks>> /\ call.rest # <<>>
      BY <1>11 DEF DriveStopStep, Walking
    <2>2. CASE StopRuns(t) /\ Continue(Idle)
      <3>1. t \in Transports /\ Walking!1' /\ Walking!2' /\ call'.op # "start"
        BY <2>1, <2>2, ContinueWalks
      <3>2. Serving' /\ lockcnt' <= lockcnt
        BY <2>1, <2>2, <3>1, StopServes
      <3>3. lockcnt' <= MaxLock + Cardinality(Transports)
        BY <3>2, TransportAssumption, FS_CardinalityType DEF Walking, Serving
      <3> QED
        BY <3>1, <3>2, <3>3 DEF Walking
    <2>3. CASE ~state[t].running /\ Abort /\ UNCHANGED <<lockvars, state, leaked>>
      <3>1. Serving' /\ lockcnt' <= lockcnt
        BY <2>1, <2>3, LocksOnlyServe DEF Serving, lockvars
      <3> QED
        BY <2>3, <3>1, AbortWalks
    <2> QED
      BY <1>11, <2>2, <2>3 DEF DriveStopStep
  <1>12. CASE DriveFreeStep
    <2> DEFINE t == Head(call.rest)
    <2>1. call.op = "free" /\ CloseEffect(t) /\ Continue(Freed)
      BY <1>12 DEF DriveFreeStep
    <2>2. t \in Transports /\ Walking!1' /\ Walking!2' /\ call'.op # "start"
      BY <2>1, ContinueWalks
    <2>3. Serving' /\ lockcnt' <= lockcnt
      BY <2>1, <2>2, CloseServes
    <2>4. lockcnt' <= MaxLock + Cardinality(Transports)
      BY <2>3, TransportAssumption, FS_CardinalityType DEF Walking, Serving
    <2> QED
      BY <2>2, <2>3, <2>4 DEF Walking
  <1>13. CASE UNCHANGED vars
    BY <1>13 DEF vars, lockvars, transvars, Serving, Walking, LockAccounting, Running,
                 ConnectionMatchesFlag, IsOpen
  <1> QED
    BY <1>1, <1>2, <1>3, <1>4, <1>5, <1>6, <1>7, <1>8, <1>9, <1>10, <1>11, <1>12, <1>13 DEF Next

LEMMA TransInvariant == Spec => []TransInv
  BY TransInvInit, TransInvStep, PTL DEF Spec
-----------------------------------------------------------------------------
(* The fields keep their types; with any number of transports no more      *)
(* locks are held than the bound and one for each of them.                 *)
THEOREM TransportTypeOK == Spec => []TypeOK
  <1>1. TransInv => TypeOK
    <2> SUFFICES ASSUME Serving, Walking PROVE TypeOK
      BY DEF TransInv
    <2>1. Cardinality(Transports) \in Nat /\ MaxLock \in Nat
      BY TransportAssumption, FS_CardinalityType
    <2>2. lockcnt \in 0..(MaxLock + Cardinality(Transports))
      BY <2>1 DEF Serving, Walking
    <2>3. call.op \in {"none", "start", "stop", "free", "freed"} /\ call.rest \in Seq(Transports)
      BY DEF Walking
    <2> QED
      BY <2>2, <2>3 DEF Serving, States, TypeOK
  <1> QED
    BY <1>1, TransInvariant, PTL

(* Every lock on the drive has exactly one reason, whatever vdf_drive_*()  *)
(* and vdf_transport_*() calls were made and wherever they failed.         *)
THEOREM EveryLockHasAReason == Spec => []LockAccounting
  <1>1. TransInv => LockAccounting
    BY DEF TransInv, Serving
  <1> QED
    BY <1>1, TransInvariant, PTL

(* A running transport finds the drive locked and with a layout.           *)
THEOREM RunningTransportSeesLayout == Spec => []RunningSeesLayout
  <1>1. TransInv => RunningSeesLayout
    <2> SUFFICES ASSUME Serving, Running # {} PROVE lockcnt > 0 /\ view # {}
      BY DEF TransInv, RunningSeesLayout
    <2>1. Cardinality(Running) \in Nat /\ Cardinality(Running) > 0
      BY RunningCount DEF Running
    <2>2. lockcnt > 0
      BY <2>1 DEF Serving, LockAccounting
    <2> QED
      BY <2>2 DEF Serving
  <1> QED
    BY <1>1, TransInvariant, PTL

(* The socket and the buffer of the NBD client agree with VTF_RUNNING and  *)
(* no buffer is freed twice.                                               *)
THEOREM ConnectionsMatchFlags == Spec => []ConnectionMatchesFlag
  <1>1. TransInv => ConnectionMatchesFlag
    BY DEF TransInv, Serving
  <1> QED
    BY <1>1, TransInvariant, PTL

(* With a running transport no step changes the layout: a change needs the *)
(* drive unlocked, and a lock of a locked drive keeps the layout.          *)
THEOREM ServedLayoutNeverChanges == Spec => ServedLayoutIsStable
  <1>1. ASSUME TransInv, [Next]_vars
        PROVE  [\A t \in Transports : state[t].running => view' = view]_vars
    <2> SUFFICES ASSUME NEW t \in Transports, state[t].running PROVE view' = view
      OBVIOUS
    <2>1. lockcnt > 0 /\ view # {}
      <3>1. Cardinality(Running) \in Nat /\ Cardinality(Running) > 0
        BY RunningCount DEF Running
      <3>2. lockcnt > 0
        BY <1>1, <3>1 DEF TransInv, Serving, LockAccounting
      <3> QED
        BY <1>1, <3>2 DEF TransInv, Serving
    <2>2. CASE ChangeDrive \/ RecalcDrive
      BY <2>1, <2>2 DEF ChangeDrive, RecalcDrive, Change, Publish
    <2>3. CASE UserLock \/ UserUnlock
      BY <2>1, <2>3 DEF UserLock, UserUnlock, TakeLock, Lock, Unlock
    <2>4. ASSUME NEW u \in Transports,
                 Open(u) \/ Close(u) \/ Start(u) \/ Stop(u) \/ ProcessDisconnect(u) \/ ProcessFails(u)
          PROVE  view' = view
      BY <2>1, <2>4 DEF Open, Close, CloseEffect, Start, StartSucceeds, StartFails, Stop, StopRuns,
                        ProcessDisconnect, ProcessFails, TakeLock, Lock, Unlock, lockvars
    <2>5. CASE \E op \in {"start", "stop", "free"} : Begin(op)
      BY <2>5 DEF Begin, lockvars
    <2>6. CASE DriveStartStep
      BY <2>1, <2>6 DEF DriveStartStep, StartSucceeds, StartFails, StartRefused, TakeLock, Lock, lockvars
    <2>7. CASE DriveStopStep \/ DriveFreeStep
      BY <2>7 DEF DriveStopStep, DriveFreeStep, StopRuns, CloseEffect, Unlock, lockvars
    <2>8. CASE UNCHANGED vars
      BY <2>8 DEF vars, lockvars
    <2> QED
      BY <1>1, <2>2, <2>3, <2>4, <2>5, <2>6, <2>7, <2>8 DEF Next
  <1> QED
    BY <1>1, TransInvariant, PTL DEF Spec, ServedLayoutIsStable
=============================================================================
