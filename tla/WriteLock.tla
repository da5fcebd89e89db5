----------------------------- MODULE WriteLock -----------------------------
(***************************************************************************)
(* The priority lock that serialises records on the transport              *)
(* (src/qmux/write_lock.go), with the two stream methods that feed it a    *)
(* priority (setPriority and priority of src/qmux/stream.go).              *)
(*                                                                         *)
(* Each critical section of writeLock.mu is one action, and so is each     *)
(* one of the connection's mu that reads or sets a stream's priority: a    *)
(* writer reads its priority first and asks for the lock later, and the    *)
(* application may call SetPriority in between and while the writer waits. *)
(***************************************************************************)
EXTENDS Integers, FiniteSets

CONSTANTS
  Writers,       \* goroutines: the write loop, and those in Write or Close
  Control,       \* the writers that call Lock: control frames, datagrams
  StreamOf,      \* the stream ID of each writer (0 for a control writer)
  Urgencies,     \* the urgencies the application passes to SetPriority
  MaxArrivals    \* bound: no writer asks once arrivals has reached it

ASSUME WriteLockAssumption ==
  /\ Control \subseteq Writers
  /\ StreamOf \in [Writers -> Nat]
  /\ Urgencies \subseteq Int
  /\ MaxArrivals \in Nat

urgencyControl == -1
defaultUrgency == 3
maxUrgency == 7

Streams == {StreamOf[w] : w \in Writers \ Control}

VARIABLES
  held,       \* writeLock.held
  arrivals,   \* writeLock.arrivals
  prio,       \* stream.urgency and stream.incremental of every stream
  pc,         \* where each writer is in LockPriority ... Unlock
  rank,       \* each writer's priority, and its order once it is a lockWaiter
  ahead       \* history: who was already queued when the writer queued

vars == <<held, arrivals, prio, pc, rank, ahead>>

Rank == [urgency : Int, incremental : BOOLEAN, order : Nat]
NoRank == [urgency |-> 0, incremental |-> FALSE, order |-> 0]

\* waiterHeap.Less: which of two waiters is served first.
Less(a, b) ==
  IF a.urgency # b.urgency THEN a.urgency < b.urgency
  ELSE IF a.incremental # b.incremental THEN ~a.incremental
  ELSE a.order < b.order

\* writeLock.waiters, as the set of writers whose lockWaiter is in the heap.
Queued == {w \in Writers : pc[w] = "queued"}

\* What heap.Pop may return: a waiter no other ranks before.  Two writers of
\* one stream that is not incremental rank equal, and either may come first.
First == {w \in Queued : \A v \in Queued : ~Less(rank[v], rank[w])}

-----------------------------------------------------------------------------
\* Faulty variants of the operations below, for checking that the properties
\* notice them.

\* SetPriority forgets to clip the urgency.
SetPriorityUnclipped(s, urgency, incremental) ==
  /\ prio' = [prio EXCEPT ![s] =
                [urgency |-> urgency, incremental |-> incremental]]
  /\ UNCHANGED <<held, arrivals, pc, rank, ahead>>

\* acquire forgets to look at held.
AcquireUnguarded(w) ==
  /\ pc[w] = "asking"
  /\ held' = TRUE
  /\ pc' = [pc EXCEPT ![w] = "holding"]
  /\ rank' = [rank EXCEPT ![w] = NoRank]
  /\ UNCHANGED <<arrivals, prio, ahead>>

\* acquire gives an incremental waiter its stream ID as the order too.
AcquireNoTurns(w) ==
  /\ pc[w] = "asking"
  /\ held
  /\ arrivals' = IF rank[w].incremental THEN arrivals + 1 ELSE arrivals
  /\ pc' = [pc EXCEPT ![w] = "queued"]
  /\ ahead' = [ahead EXCEPT ![w] = Queued]
  /\ UNCHANGED <<held, prio, rank>>

\* Unlock clears held before it hands the lock over.
UnlockThenHand(w) ==
  /\ pc[w] = "holding"
  /\ held' = FALSE
  /\ IF Queued = {}
     THEN pc' = [pc EXCEPT ![w] = "idle"]
     ELSE \E n \in First : pc' = [pc EXCEPT ![w] = "idle", ![n] = "handed"]
  /\ UNCHANGED <<arrivals, prio, rank, ahead>>

\* Unlock frees the lock and wakes nobody.
UnlockNoHand(w) ==
  /\ pc[w] = "holding"
  /\ held' = FALSE
  /\ pc' = [pc EXCEPT ![w] = "idle"]
  /\ UNCHANGED <<arrivals, prio, rank, ahead>>
-----------------------------------------------------------------------------
\* stream.setPriority, with its clipping of the urgency.
SetPriority(s, urgency, incremental) ==
  /\ prio' = [prio EXCEPT ![s] =
       [urgency |-> IF urgency < 0 THEN 0
                    ELSE IF urgency > maxUrgency THEN maxUrgency ELSE urgency,
        incremental |-> incremental]]
  /\ UNCHANGED <<held, arrivals, pc, rank, ahead>>

\* Lock builds the control priority, and stream.priority reads the stream's.
\* The order is what acquire gives a waiter that is not incremental.
Ask(w) ==
  /\ pc[w] = "idle"
  /\ arrivals < MaxArrivals
  /\ rank' = [rank EXCEPT ![w] =
       IF w \in Control
       THEN [urgency |-> urgencyControl, incremental |-> TRUE, order |-> 0]
       ELSE [urgency |-> prio[StreamOf[w]].urgency,
             incremental |-> prio[StreamOf[w]].incremental,
             order |-> StreamOf[w]]]
  /\ pc' = [pc EXCEPT ![w] = "asking"]
  /\ UNCHANGED <<held, arrivals, prio, ahead>>

\* writeLock.acquire when the lock is free.
AcquireFree(w) ==
  /\ pc[w] = "asking"
  /\ ~held
  /\ held' = TRUE
  /\ pc' = [pc EXCEPT ![w] = "holding"]
  /\ rank' = [rank EXCEPT ![w] = NoRank]
  /\ UNCHANGED <<arrivals, prio, ahead>>

\* writeLock.acquire when it is not: the writer joins the heap, behind the
\* incremental ones that came before it if it is incremental itself.
AcquireBusy(w) ==
  /\ pc[w] = "asking"
  /\ held
  /\ IF rank[w].incremental
     THEN /\ arrivals' = arrivals + 1
          /\ rank' = [rank EXCEPT ![w].order = arrivals']
     ELSE UNCHANGED <<arrivals, rank>>
  /\ pc' = [pc EXCEPT ![w] = "queued"]
  /\ ahead' = [ahead EXCEPT ![w] = Queued]
  /\ UNCHANGED <<held, prio>>

\* LockPriority returns from <-ready.
Resume(w) ==
  /\ pc[w] = "handed"
  /\ pc' = [pc EXCEPT ![w] = "holding"]
  /\ UNCHANGED <<held, arrivals, prio, rank, ahead>>

\* writeLock.Unlock: free the lock, or close the ready channel of the waiter
\* that ranks first and leave the lock held on its behalf.
Unlock(w) ==
  /\ pc[w] = "holding"
  /\ \/ /\ Queued = {}
        /\ held' = FALSE
        /\ pc' = [pc EXCEPT ![w] = "idle"]
        /\ UNCHANGED <<rank, ahead>>
     \/ \E n \in First :
        /\ pc' = [pc EXCEPT ![w] = "idle", ![n] = "handed"]
        /\ rank' = [rank EXCEPT ![n] = NoRank]
        /\ ahead' = [v \in Writers |-> IF v = n THEN {} ELSE ahead[v] \ {n}]
        /\ UNCHANGED held
  /\ UNCHANGED <<arrivals, prio>>

Init ==
  /\ held = FALSE
  /\ arrivals = 0
  /\ prio = [s \in Streams |->
               [urgency |-> defaultUrgency, incremental |-> TRUE]]
  /\ pc = [w \in Writers |-> "idle"]
  /\ rank = [w \in Writers |-> NoRank]
  /\ ahead = [w \in Writers |-> {}]

Next ==
  \/ \E s \in Streams, u \in Urgencies, i \in BOOLEAN : SetPriority(s, u, i)
  \/ \E w \in Writers : Ask(w) \/ AcquireFree(w) \/ AcquireBusy(w)
                          \/ Resume(w) \/ Unlock(w)

\* A goroutine that can run does (acquire and <-ready do not block further),
\* and a holder writes one record and unlocks: every writer defers Unlock.
Fairness ==
  \A w \in Writers :
    /\ WF_vars(AcquireFree(w) \/ AcquireBusy(w))
    /\ WF_vars(Resume(w))
    /\ WF_vars(Unlock(w))

Spec == Init /\ [][Next]_vars
FairSpec == Spec /\ Fairness
-----------------------------------------------------------------------------
\* The shape of the state.
TypeOK ==
  /\ held \in BOOLEAN
  /\ arrivals \in Nat
  /\ prio \in [Streams -> [urgency : 0 .. maxUrgency, incremental : BOOLEAN]]
  /\ pc \in [Writers -> {"idle", "asking", "queued", "handed", "holding"}]
  /\ rank \in [Writers -> Rank]
  /\ ahead \in [Writers -> SUBSET Writers]

\* Those the lock belongs to: it was handed to them, or they took it.
Owners == {w \in Writers : pc[w] \in {"handed", "holding"}}

\* writeLock is a mutex: acquire and Unlock never give the lock to a second
\* writer, not even in the time between the close of a waiter's ready channel
\* and its return from LockPriority, when newcomers find the lock held.
MutualExclusion == \A w, v \in Owners : w = v

\* No hand-over loses the lock: it is held exactly when it has an owner, so
\* nobody queues behind a lock that no Unlock will ever release.
HeldHasOwner == held <=> Owners # {}

HandedTo(w) == pc[w] = "queued" /\ pc'[w] = "handed"

\* Control frames go ahead of all stream data: Unlock hands the lock to a
\* stream's writer only when no control writer is in the heap, whatever
\* urgency the application gave the stream.
ControlFirst ==
  [][\A w \in Writers \ Control :
       HandedTo(w) => Queued \cap Control = {}]_vars

\* The order the documentation of SetPriority promises among waiting writers:
\* a lower urgency first; within one, streams that are not incremental by
\* stream ID, and ahead of the incremental ones; those take turns, so that
\* none is passed by one that queued after it.  Control writers take turns
\* too.  The urgency is the one the stream had when its writer asked.
ServedInOrder ==
  [][\A w, v \in Writers :
       HandedTo(w) /\ v \in Queued =>
         LET p == rank[w]  q == rank[v] IN
         /\ p.urgency <= q.urgency
         /\ p.urgency = q.urgency =>
              /\ p.incremental => q.incremental
              /\ ~p.incremental /\ ~q.incremental => StreamOf[w] <= StreamOf[v]
              /\ p.incremental /\ q.incremental => v \notin ahead[w]]_vars

\* Stream data never keeps a control frame out: a control writer that queued
\* gets the lock, even when writers of an urgent stream that is not
\* incremental ask for it for ever.  (A stream's writer has no such promise.)
ControlServed ==
  \A w \in Control : pc[w] = "queued" ~> pc[w] = "holding"

\* The lock as its users see it: those that have called LockPriority, and
\* those the lock belongs to.
Asking == {w \in Writers : pc[w] \in {"asking", "queued"}}

AbstractLock == INSTANCE Mutex WITH wanting <- Asking, holding <- Owners

\* To its users the priority lock is a plain mutex that may be handed over:
\* it implements Mutex, which Mux relies on for writeMu.  No request is lost
\* and none is granted twice, and only who asked gets the lock.
ImplementsMutex == AbstractLock!Spec
=============================================================================
