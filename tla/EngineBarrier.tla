--------------------------- MODULE EngineBarrier ---------------------------
(***************************************************************************)
(* What an Engine promises about its end: resources come into being only   *)
(* while it is open; once stopped, it is done exactly when the last one    *)
(* is gone, in the very step that removes it; and done is final.           *)
(***************************************************************************)
CONSTANT Resources
VARIABLES phase, owned

Init == phase = "open" /\ owned = {}

Acquire(r) ==
    /\ phase = "open"
    /\ r \notin owned
    /\ owned' = owned \cup {r}
    /\ UNCHANGED phase

\* The phase of a stopped Engine that owns the set s.
Stopped(s) == IF s = {} THEN "done" ELSE "closing"

Release(r) ==
    /\ r \in owned
    /\ owned' = owned \ {r}
    /\ phase' = IF phase = "open" THEN "open" ELSE Stopped(owned')

Stop ==
    /\ phase = "open"
    /\ phase' = Stopped(owned)
    /\ UNCHANGED owned

Next ==
    \/ \E r \in Resources : Acquire(r) \/ Release(r)
    \/ Stop

Spec == Init /\ [][Next]_<<phase, owned>>
=============================================================================
