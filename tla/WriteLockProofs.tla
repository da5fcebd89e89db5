-------------------------- MODULE WriteLockProofs --------------------------
(***************************************************************************)
(* Proofs about WriteLock, for any number of writers, any streams and any  *)
(* priorities: it is a mutex that is never lost, it implements Mutex, and  *)
(* it serves its waiters in the documented order.                          *)
(***************************************************************************)
EXTENDS WriteLock, TLAPS

\* What the ranks of waiting writers mean, which the order of service needs:
\* a control writer ranks as Lock says, a stream's urgency was clipped, the
\* order of a writer that is not incremental is its stream's, and that of an
\* incremental one grows with its arrival.
RanksSound ==
  /\ \A w \in Writers : pc[w] \in {"asking", "queued"} =>
       /\ w \in Control => rank[w].urgency = urgencyControl /\ rank[w].incremental
       /\ w \notin Control => rank[w].urgency >= 0
       /\ ~rank[w].incremental => rank[w].order = StreamOf[w]
  /\ \A w \in Queued : rank[w].incremental => rank[w].order <= arrivals
  /\ \A w \in Writers : ahead[w] \subseteq Queued
  /\ \A w \in Queued : \A v \in ahead[w] :
       rank[w].incremental /\ rank[v].incremental => rank[v].order < rank[w].order

\* The inductive invariant.
IInv == TypeOK /\ MutualExclusion /\ HeldHasOwner /\ RanksSound

LEMMA InitIInv == Init => IInv
<1> SUFFICES ASSUME Init PROVE IInv
  OBVIOUS
<1>1. TypeOK
  <2>1. NoRank \in Rank
    BY DEF NoRank, Rank
  <2>2. prio \in [Streams -> [urgency : 0 .. maxUrgency, incremental : BOOLEAN]]
    BY DEF Init, defaultUrgency, maxUrgency
  <2> QED
    BY <2>1, <2>2 DEF Init, TypeOK
<1>2. MutualExclusion /\ HeldHasOwner
  BY DEF Init, MutualExclusion, HeldHasOwner, Owners
<1>3. RanksSound
  BY DEF Init, RanksSound, Queued
<1> QED
  BY <1>1, <1>2, <1>3 DEF IInv

\* Every step keeps the types.
LEMMA NextTypeOK == TypeOK /\ [Next]_vars => TypeOK'
<1> SUFFICES ASSUME TypeOK, [Next]_vars PROVE TypeOK'
  OBVIOUS
<1> USE WriteLockAssumption
<1>1. ASSUME NEW s \in Streams, NEW u \in Urgencies, NEW i \in BOOLEAN,
             SetPriority(s, u, i)
      PROVE  TypeOK'
  BY <1>1 DEF TypeOK, SetPriority, maxUrgency
<1>2. ASSUME NEW w \in Writers, Ask(w) PROVE TypeOK'
  <2>1. w \notin Control => StreamOf[w] \in Streams
    BY DEF Streams
  <2>2. rank' \in [Writers -> Rank]
    BY <1>2, <2>1 DEF TypeOK, Ask, Rank, urgencyControl, maxUrgency
  <2> QED
    BY <1>2, <2>2 DEF TypeOK, Ask
<1>3. ASSUME NEW w \in Writers, AcquireFree(w) PROVE TypeOK'
  BY <1>3 DEF TypeOK, AcquireFree, Rank, NoRank
<1>4. ASSUME NEW w \in Writers, AcquireBusy(w) PROVE TypeOK'
  <2>1. arrivals' \in Nat /\ [rank[w] EXCEPT !.order = arrivals'] \in Rank
    BY <1>4 DEF TypeOK, AcquireBusy, Rank
  <2>2. rank' \in [Writers -> Rank]
    BY <1>4, <2>1 DEF TypeOK, AcquireBusy
  <2> QED
    BY <1>4, <2>1, <2>2 DEF TypeOK, AcquireBusy, Queued
<1>5. ASSUME NEW w \in Writers, Resume(w) PROVE TypeOK'
  BY <1>5 DEF TypeOK, Resume
<1>6. ASSUME NEW w \in Writers, Unlock(w) PROVE TypeOK'
  <2>1. NoRank \in Rank
    BY DEF NoRank, Rank
  <2>2. CASE Queued = {} /\ UNCHANGED <<rank, ahead>>
    BY <1>6, <2>2 DEF TypeOK, Unlock, First
  <2>3. ASSUME NEW n \in First,
               pc' = [pc EXCEPT ![w] = "idle", ![n] = "handed"],
               rank' = [rank EXCEPT ![n] = NoRank],
               ahead' = [v \in Writers |-> IF v = n THEN {} ELSE ahead[v] \ {n}],
               UNCHANGED <<held, arrivals, prio>>
        PROVE  TypeOK'
    <3>1. n \in Writers
      BY DEF First, Queued
    <3>2. ahead' \in [Writers -> SUBSET Writers]
      BY <2>3 DEF TypeOK
    <3> QED
      BY <2>1, <2>3, <3>1, <3>2 DEF TypeOK
  <2> QED
    BY <1>6, <2>2, <2>3 DEF Unlock
<1>7. CASE UNCHANGED vars
  BY <1>7 DEF TypeOK, vars
<1> QED
  BY <1>1, <1>2, <1>3, <1>4, <1>5, <1>6, <1>7 DEF Next

\* Every step keeps the lock with one owner while it is held.
LEMMA NextOwner ==
  TypeOK /\ MutualExclusion /\ HeldHasOwner /\ [Next]_vars
    => MutualExclusion' /\ HeldHasOwner'
<1> SUFFICES ASSUME TypeOK, MutualExclusion, HeldHasOwner, [Next]_vars
             PROVE  MutualExclusion' /\ HeldHasOwner'
  OBVIOUS
<1> USE DEF MutualExclusion, HeldHasOwner, Owners, TypeOK
<1>1. ASSUME NEW s \in Streams, NEW u \in Urgencies, NEW i \in BOOLEAN,
             SetPriority(s, u, i)
      PROVE  MutualExclusion' /\ HeldHasOwner'
  BY <1>1 DEF SetPriority
<1>2. ASSUME NEW w \in Writers, Ask(w) PROVE MutualExclusion' /\ HeldHasOwner'
  BY <1>2 DEF Ask
<1>3. ASSUME NEW w \in Writers, AcquireFree(w)
      PROVE  MutualExclusion' /\ HeldHasOwner'
  BY <1>3 DEF AcquireFree
<1>4. ASSUME NEW w \in Writers, AcquireBusy(w)
      PROVE  MutualExclusion' /\ HeldHasOwner'
  BY <1>4 DEF AcquireBusy
<1>5. ASSUME NEW w \in Writers, Resume(w) PROVE MutualExclusion' /\ HeldHasOwner'
  BY <1>5 DEF Resume
<1>6. ASSUME NEW w \in Writers, Unlock(w) PROVE MutualExclusion' /\ HeldHasOwner'
  BY <1>6 DEF Unlock, First, Queued
<1>7. CASE UNCHANGED vars
  BY <1>7 DEF vars
<1> QED
  BY <1>1, <1>2, <1>3, <1>4, <1>5, <1>6, <1>7 DEF Next

\* Every step keeps the ranks sound.  Only Ask, AcquireBusy and Unlock touch
\* what RanksSound is about.
LEMMA NextRanks == TypeOK /\ RanksSound /\ [Next]_vars => RanksSound'
<1> SUFFICES ASSUME TypeOK, RanksSound, [Next]_vars PROVE RanksSound'
  OBVIOUS
<1> USE WriteLockAssumption DEF TypeOK
<1>1. ASSUME NEW s \in Streams, NEW u \in Urgencies, NEW i \in BOOLEAN,
             SetPriority(s, u, i)
      PROVE  RanksSound'
  BY <1>1 DEF SetPriority, RanksSound, Queued
<1>2. ASSUME NEW w \in Writers, Ask(w) PROVE RanksSound'
  <2>1. w \notin Control => prio[StreamOf[w]].urgency >= 0
    BY DEF Streams, maxUrgency
  <2>2. Queued' = Queued /\ w \notin Queued
    BY <1>2 DEF Ask, Queued
  <2>3. \A v \in Writers : v # w => rank'[v] = rank[v] /\ pc'[v] = pc[v]
    BY <1>2 DEF Ask
  <2>4. /\ w \in Control => rank'[w].urgency = urgencyControl /\ rank'[w].incremental
        /\ w \notin Control => rank'[w].urgency >= 0
        /\ ~rank'[w].incremental => rank'[w].order = StreamOf[w]
    BY <1>2, <2>1 DEF Ask
  <2>5. arrivals' = arrivals /\ ahead' = ahead
    BY <1>2 DEF Ask
  <2>6. \A v \in Queued : v \in Writers /\ v # w /\ \A x \in ahead[v] : x \in Queued
    BY <2>2 DEF Queued, RanksSound
  <2> QED
    BY <2>2, <2>3, <2>4, <2>5, <2>6 DEF RanksSound
<1>3. ASSUME NEW w \in Writers, AcquireFree(w) PROVE RanksSound'
  <2>1. Queued' = Queued /\ w \notin Queued
    BY <1>3 DEF AcquireFree, Queued
  <2>2. \A v \in Writers : v # w => rank'[v] = rank[v] /\ pc'[v] = pc[v]
    BY <1>3 DEF AcquireFree
  <2>3. pc'[w] = "holding" /\ arrivals' = arrivals /\ ahead' = ahead
    BY <1>3 DEF AcquireFree
  <2>4. \A v \in Queued : v \in Writers /\ v # w /\ \A x \in ahead[v] : x \in Queued
    BY <2>1 DEF Queued, RanksSound
  <2> QED
    BY <2>1, <2>2, <2>3, <2>4 DEF RanksSound
<1>4. ASSUME NEW w \in Writers, AcquireBusy(w) PROVE RanksSound'
  <2>1. Queued' = Queued \cup {w} /\ w \notin Queued
    BY <1>4 DEF AcquireBusy, Queued
  <2>2. \A v \in Writers : v # w => rank'[v] = rank[v] /\ pc'[v] = pc[v]
    BY <1>4 DEF AcquireBusy
  <2>3. /\ rank'[w].urgency = rank[w].urgency
        /\ rank'[w].incremental = rank[w].incremental
        /\ rank[w].incremental => arrivals' = arrivals + 1 /\ rank'[w].order = arrivals'
        /\ ~rank[w].incremental => rank'[w].order = rank[w].order
    BY <1>4 DEF AcquireBusy, Rank
  <2>4. /\ arrivals' \in Nat /\ arrivals <= arrivals'
        /\ ahead' = [ahead EXCEPT ![w] = Queued]
        /\ pc[w] = "asking"
    BY <1>4 DEF AcquireBusy
  <2>5. \A v \in Queued : /\ v \in Writers /\ v # w /\ rank[v].order \in Nat
                          /\ \A x \in ahead[v] : x \in Queued
    BY <2>1 DEF Queued, RanksSound, Rank
  <2>6. \A v \in Writers : pc'[v] \in {"asking", "queued"} =>
          /\ v \in Control => rank'[v].urgency = urgencyControl /\ rank'[v].incremental
          /\ v \notin Control => rank'[v].urgency >= 0
          /\ ~rank'[v].incremental => rank'[v].order = StreamOf[v]
    BY <2>2, <2>3, <2>4 DEF RanksSound
  <2>7. \A v \in Queued' : rank'[v].incremental => rank'[v].order <= arrivals'
    BY <2>1, <2>2, <2>3, <2>4, <2>5 DEF RanksSound
  <2>8. \A v \in Writers : ahead'[v] \subseteq Queued'
    BY <2>1, <2>4 DEF RanksSound
  <2>9. \A v \in Queued' : \A x \in ahead'[v] :
          rank'[v].incremental /\ rank'[x].incremental => rank'[x].order < rank'[v].order
    <3>1. CASE rank[w].incremental
      BY <3>1, <2>1, <2>2, <2>3, <2>4, <2>5 DEF RanksSound
    <3>2. CASE ~rank[w].incremental
      BY <3>2, <2>1, <2>2, <2>3, <2>4, <2>5 DEF RanksSound
    <3> QED
      BY <3>1, <3>2
  <2> QED
    BY <2>6, <2>7, <2>8, <2>9 DEF RanksSound
<1>5. ASSUME NEW w \in Writers, Resume(w) PROVE RanksSound'
  <2>1. Queued' = Queued
    BY <1>5 DEF Resume, Queued
  <2>2. /\ UNCHANGED <<arrivals, rank, ahead>>
        /\ \A v \in Writers : pc'[v] = pc[v] \/ pc'[v] = "holding"
    BY <1>5 DEF Resume
  <2> QED
    BY <2>1, <2>2 DEF RanksSound
<1>6. ASSUME NEW w \in Writers, Unlock(w) PROVE RanksSound'
  <2>1. CASE Queued = {} /\ pc' = [pc EXCEPT ![w] = "idle"] /\ UNCHANGED <<rank, ahead>>
    <3>1. Queued' = Queued
      BY <1>6, <2>1 DEF Unlock, Queued
    <3> QED
      BY <1>6, <2>1, <3>1 DEF Unlock, RanksSound
  <2>2. ASSUME NEW n \in First,
               pc' = [pc EXCEPT ![w] = "idle", ![n] = "handed"],
               rank' = [rank EXCEPT ![n] = NoRank],
               ahead' = [v \in Writers |-> IF v = n THEN {} ELSE ahead[v] \ {n}],
               UNCHANGED arrivals
        PROVE  RanksSound'
    <3>1. n \in Queued /\ n \in Writers /\ n # w
      BY <1>6 DEF First, Queued, Unlock
    <3>2. Queued' = Queued \ {n}
      BY <1>6, <2>2, <3>1 DEF Unlock, Queued
    <3>3. \A v \in Writers : v # n => rank'[v] = rank[v]
      BY <2>2
    <3>4. \A v \in Writers : pc'[v] \in {"asking", "queued"} => v # n /\ pc'[v] = pc[v]
      BY <2>2, <3>1
    <3>5. \A v \in Queued : v \in Writers
      BY DEF Queued
    <3> QED
      BY <2>2, <3>1, <3>2, <3>3, <3>4, <3>5 DEF RanksSound
  <2> QED
    BY <1>6, <2>1, <2>2 DEF Unlock
<1>7. CASE UNCHANGED vars
  BY <1>7 DEF vars, RanksSound, Queued
<1> QED
  BY <1>1, <1>2, <1>3, <1>4, <1>5, <1>6, <1>7 DEF Next

\* The invariant, and with it what it consists of, holds in every reachable
\* state of the lock.
THEOREM Invariance == Spec => []IInv
<1>1. Init => IInv
  BY InitIInv
<1>2. IInv /\ [Next]_vars => IInv'
  BY NextTypeOK, NextOwner, NextRanks DEF IInv
<1> QED
  BY <1>1, <1>2, PTL DEF Spec

\* acquire and Unlock keep the state well formed; in particular setPriority
\* keeps every urgency in range, whatever the application passes.
THEOREM TypeCorrect == Spec => []TypeOK
BY Invariance, PTL DEF IInv

\* writeLock is a mutex: it never belongs to two writers.
THEOREM LockExcludes == Spec => []MutualExclusion
BY Invariance, PTL DEF IInv

\* writeLock is never lost: it is held exactly when it belongs to someone, so
\* Unlock's hand-over leaves nobody queued behind a lock without an owner.
THEOREM LockNeverLost == Spec => []HeldHasOwner
BY Invariance, PTL DEF IInv

\* Only Unlock hands the lock over, to a waiter that ranks first.
LEMMA OnlyUnlockHands ==
  ASSUME TypeOK, [Next]_vars, NEW w \in Writers, HandedTo(w)
  PROVE  w \in First
<1> USE DEF HandedTo, TypeOK
<1>1. ASSUME NEW s \in Streams, NEW u \in Urgencies, NEW i \in BOOLEAN,
             SetPriority(s, u, i)
      PROVE  w \in First
  BY <1>1 DEF SetPriority
<1>2. ASSUME NEW x \in Writers, Ask(x) \/ AcquireFree(x) \/ AcquireBusy(x) \/ Resume(x)
      PROVE  w \in First
  BY <1>2 DEF Ask, AcquireFree, AcquireBusy, Resume
<1>3. ASSUME NEW x \in Writers, Unlock(x) PROVE w \in First
  BY <1>3 DEF Unlock, First, Queued
<1>4. CASE UNCHANGED vars
  BY <1>4 DEF vars
<1> QED
  BY <1>1, <1>2, <1>3, <1>4 DEF Next

\* What the order of service is, for the waiter w that is handed the lock and
\* another v.
LEMMA ServiceOrder ==
  ASSUME IInv, NEW w \in First, NEW v \in Queued
  PROVE  /\ rank[w].urgency <= rank[v].urgency
         /\ rank[w].urgency = rank[v].urgency =>
              /\ rank[w].incremental => rank[v].incremental
              /\ ~rank[w].incremental /\ ~rank[v].incremental =>
                   StreamOf[w] <= StreamOf[v]
              /\ rank[w].incremental /\ rank[v].incremental => v \notin ahead[w]
<1>1. w \in Queued /\ ~Less(rank[v], rank[w])
  BY DEF First
<1>2. w \in Writers /\ v \in Writers /\ pc[w] = "queued" /\ pc[v] = "queued"
  BY <1>1 DEF Queued
<1>3. rank[w] \in Rank /\ rank[v] \in Rank /\ StreamOf[w] \in Nat /\ StreamOf[v] \in Nat
  BY <1>2, WriteLockAssumption DEF IInv, TypeOK
<1>4. /\ ~rank[w].incremental => rank[w].order = StreamOf[w]
      /\ ~rank[v].incremental => rank[v].order = StreamOf[v]
      /\ v \in ahead[w] /\ rank[w].incremental /\ rank[v].incremental
           => rank[v].order < rank[w].order
  BY <1>1, <1>2 DEF IInv, RanksSound
<1> QED
  BY <1>1, <1>3, <1>4 DEF Less, Rank

\* Waiting writers are served in the order SetPriority documents.
THEOREM OrderOfService == Spec => ServedInOrder
<1>1. IInv /\ [Next]_vars =>
        [\A w, v \in Writers :
           HandedTo(w) /\ v \in Queued =>
             LET p == rank[w]  q == rank[v] IN
             /\ p.urgency <= q.urgency
             /\ p.urgency = q.urgency =>
                  /\ p.incremental => q.incremental
                  /\ ~p.incremental /\ ~q.incremental => StreamOf[w] <= StreamOf[v]
                  /\ p.incremental /\ q.incremental => v \notin ahead[w]]_vars
  BY OnlyUnlockHands, ServiceOrder DEF IInv
<1> QED
  BY <1>1, Invariance, PTL DEF Spec, ServedInOrder

\* A stream's writer never gets the lock ahead of a queued control writer.
THEOREM ControlGoesFirst == Spec => ControlFirst
<1>1. ASSUME IInv, [Next]_vars, NEW w \in Writers \ Control, HandedTo(w),
             NEW v \in Queued \cap Control
      PROVE  FALSE
  <2>1. w \in First /\ pc[w] = "queued"
    BY <1>1, OnlyUnlockHands DEF IInv, HandedTo
  <2>2. v \in Writers /\ pc[v] = "queued" /\ rank[w] \in Rank
    BY <1>1 DEF Queued, IInv, TypeOK
  <2>3. rank[v].urgency = urgencyControl /\ rank[w].urgency >= 0
    BY <1>1, <2>1, <2>2 DEF IInv, RanksSound
  <2> QED
    BY <1>1, <2>1, <2>2, <2>3, ServiceOrder DEF urgencyControl, Rank
<1>2. IInv /\ [Next]_vars =>
        [\A w \in Writers \ Control : HandedTo(w) => Queued \cap Control = {}]_vars
  BY <1>1
<1> QED
  BY <1>2, Invariance, PTL DEF Spec, ControlFirst

\* To its users writeLock is a plain mutex.  Asking is Request, taking a free
\* lock is Take, freeing it is Release, handing it over is HandOver; everything
\* else changes neither who wants the lock nor who has it.
THEOREM Refinement == Spec => ImplementsMutex
<1>1. Init => AbstractLock!Init
  BY DEF Init, AbstractLock!Init, Asking, Owners
<1>2. IInv /\ [Next]_vars => [AbstractLock!Next]_(AbstractLock!vars)
  <2> SUFFICES ASSUME IInv, [Next]_vars
               PROVE  AbstractLock!Next \/ UNCHANGED <<Asking, Owners>>
    BY DEF AbstractLock!vars
  <2> USE DEF IInv, TypeOK
  <2>1. ASSUME NEW s \in Streams, NEW u \in Urgencies, NEW i \in BOOLEAN,
               SetPriority(s, u, i)
        PROVE  UNCHANGED <<Asking, Owners>>
    BY <2>1 DEF SetPriority, Asking, Owners
  <2>2. ASSUME NEW w \in Writers, AcquireBusy(w) \/ Resume(w)
        PROVE  UNCHANGED <<Asking, Owners>>
    BY <2>2 DEF AcquireBusy, Resume, Asking, Owners
  <2>3. ASSUME NEW w \in Writers, Ask(w) PROVE AbstractLock!Request(w)
    <3>1. w \notin Asking \cup Owners
      BY <2>3 DEF Ask, Asking, Owners
    <3>2. Asking' = Asking \cup {w} /\ Owners' = Owners
      BY <2>3 DEF Ask, Asking, Owners
    <3> QED
      BY <3>1, <3>2 DEF AbstractLock!Request
  <2>4. ASSUME NEW w \in Writers, AcquireFree(w) PROVE AbstractLock!Take(w)
    <3>1. w \in Asking /\ Owners = {}
      BY <2>4 DEF AcquireFree, HeldHasOwner, Asking
    <3>2. Asking' = Asking \ {w} /\ Owners' = {w}
      BY <2>4, <3>1 DEF AcquireFree, Asking, Owners
    <3> QED
      BY <3>1, <3>2 DEF AbstractLock!Take
  <2>5. ASSUME NEW w \in Writers, Unlock(w)
        PROVE  AbstractLock!Release(w) \/ \E n \in Writers : AbstractLock!HandOver(w, n)
    <3>1. Owners = {w}
      BY <2>5 DEF Unlock, Owners, MutualExclusion
    <3>2. CASE pc' = [pc EXCEPT ![w] = "idle"]
      <4>1. Owners' = {} /\ Asking' = Asking
        BY <2>5, <3>1, <3>2 DEF Unlock, Owners, Asking
      <4> QED
        BY <3>1, <4>1 DEF AbstractLock!Release
    <3>3. ASSUME NEW n \in First, pc' = [pc EXCEPT ![w] = "idle", ![n] = "handed"]
          PROVE  \E m \in Writers : AbstractLock!HandOver(w, m)
      <4>1. n \in Writers /\ pc[n] = "queued" /\ n # w
        BY <2>5, <3>3 DEF Unlock, First, Queued
      <4>2. n \in Asking /\ Asking' = Asking \ {n} /\ Owners' = {n}
        BY <2>5, <3>1, <3>3, <4>1 DEF Unlock, Asking, Owners
      <4> QED
        BY <3>1, <4>1, <4>2 DEF AbstractLock!HandOver
    <3> QED
      BY <2>5, <3>2, <3>3 DEF Unlock
  <2>6. CASE UNCHANGED vars
    BY <2>6 DEF vars, Asking, Owners
  <2> QED
    BY <2>1, <2>2, <2>3, <2>4, <2>5, <2>6 DEF Next, AbstractLock!Next
<1> QED
  BY <1>1, <1>2, Invariance, PTL DEF Spec, ImplementsMutex, AbstractLock!Spec
=============================================================================
