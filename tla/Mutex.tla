------------------------------- MODULE Mutex -------------------------------
(***************************************************************************)
(* What writeLock (src/qmux/write_lock.go) promises the rest of the        *)
(* connection: goroutines ask for a lock, get it one at a time, and give   *)
(* it up or pass it straight to another that has asked.  The order in      *)
(* which they get it is left open; Mux, which only needs mutual exclusion, *)
(* uses the lock in this form, and WriteLock is shown to implement it.     *)
(***************************************************************************)
CONSTANT Writers   \* the goroutines that write to the transport

VARIABLES wanting, \* those that have asked for the lock
          holding  \* those that have it

vars == <<wanting, holding>>

Init == wanting = {} /\ holding = {}

Request(w) ==
  /\ w \notin wanting \cup holding
  /\ wanting' = wanting \cup {w}
  /\ UNCHANGED holding

Take(w) ==
  /\ w \in wanting /\ holding = {}
  /\ wanting' = wanting \ {w}
  /\ holding' = {w}

Release(w) ==
  /\ holding = {w}
  /\ holding' = {}
  /\ UNCHANGED wanting

\* An owner hands the lock over without freeing it first.
HandOver(w, n) ==
  /\ holding = {w} /\ n \in wanting
  /\ wanting' = wanting \ {n}
  /\ holding' = {n}

Next ==
  \E w \in Writers :
    \/ Request(w)
    \/ Take(w)
    \/ Release(w)
    \/ \E n \in Writers : HandOver(w, n)

Spec == Init /\ [][Next]_vars
=============================================================================
