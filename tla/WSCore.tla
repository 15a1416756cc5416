------------------------------- MODULE WSCore -------------------------------
(***************************************************************************)
(* What WS and WSS listeners and dials share of their Engine: its state,   *)
(* activeOps, the admission controller, the leases and the sessions it     *)
(* tracks, and the check whether it is done.                               *)
(***************************************************************************)
EXTENDS AdmissionController, FiniteSets

VARIABLES
    state,      \* of the Engine: Running, Closing (engineAborting), Done
    activeOps,  \* operations between beginOp and endOp
    adm,        \* the admissionController
    lease,      \* state of the lease of each connection
    sessions,   \* the websockets the Engine tracks
    serve       \* the goroutine that runs Server.Serve; "removed": no listener is tracked

coreVars == <<state, activeOps, adm, lease, sessions, serve>>

\* A mutant: an operation in progress does not keep the Engine alive.
MaybeDoneAnyway(from, ops, listening, tracked, a) ==
    IF from # "Running" /\ ~ listening /\ tracked = {} /\ Idle(a) THEN "Done" ELSE from

\* maybeDoneLocked, for the state a critical section of Engine.mu leaves.
MaybeDone(from, ops, listening, tracked, a) ==
    IF from # "Running" /\ ops = 0 /\ ~ listening /\ tracked = {} /\ Idle(a)
    THEN "Done" ELSE from

Listening == serve # "removed"
=============================================================================
