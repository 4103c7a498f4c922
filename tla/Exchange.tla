------------------------------ MODULE Exchange ------------------------------
(***************************************************************************)
(* What a self-update promises about the executable, without files, faults *)
(* or services: actors exchange the value of one register, one at a time.  *)
(* An actor may only replace the value it saw before it became the holder, *)
(* only with its own, and may only take back what it did not keep.         *)
(***************************************************************************)
CONSTANTS
    Actors,  \* each one's new value is itself
    Old,     \* the first value
    None     \* no holder, nothing seen

VARIABLES
    cur,     \* the register
    holder,  \* the actor that may change it, or None
    seen,    \* seen[u]: the value u saw, or None
    kept     \* the actors whose exchange is final

xvars == <<cur, holder, seen, kept>>

Init ==
    /\ cur = Old
    /\ holder = None
    /\ seen = [u \in Actors |-> None]
    /\ kept = {}

Look(u) ==
    /\ holder # u /\ seen[u] = None
    /\ seen' = [seen EXCEPT ![u] = cur]
    /\ UNCHANGED <<cur, holder, kept>>

Take(u) ==
    /\ holder = None
    /\ seen[u] = cur
    /\ holder' = u
    /\ UNCHANGED <<cur, seen, kept>>

Put(u) ==
    /\ holder = u
    /\ cur = seen[u]
    /\ cur' = u
    /\ UNCHANGED <<holder, seen, kept>>

TakeBack(u) ==
    /\ holder = u
    /\ cur = u /\ u \notin kept
    /\ cur' = seen[u]
    /\ UNCHANGED <<holder, seen, kept>>

Keep(u) ==
    /\ holder = u
    /\ cur = u
    /\ kept' = kept \cup {u}
    /\ UNCHANGED <<cur, holder, seen>>

(* The holder is finished, or it is gone. *)
Leave(u) ==
    /\ holder = u
    /\ holder' = None
    /\ UNCHANGED <<cur, seen, kept>>

Next == \E u \in Actors : Look(u) \/ Take(u) \/ Put(u) \/ TakeBack(u) \/ Keep(u) \/ Leave(u)

Spec == Init /\ [][Next]_xvars
=============================================================================
