------------------------------- MODULE Engine -------------------------------
(***************************************************************************)
(* The Engine of transport/: the in-flight Dial, Listen and accept         *)
(* operations, the listeners, sessions and packet sockets it tracks, the   *)
(* leases they hold, Shutdown and Close, and the Done barrier.             *)
(*                                                                         *)
(* Every action is one critical section of Engine.mu (or of the admission  *)
(* controller's), followed by the local work of the same goroutine.  The   *)
(* capacity of a single listener is modelled in ConnectionLease; here it   *)
(* is a refusal that may always happen to an accepted connection.          *)
(***************************************************************************)
EXTENDS AdmissionController, FiniteSets

CONSTANTS
    Conns,       \* connection attempts: each may become a session or a socket
    Listeners,   \* calls of Listen: each may become a listener
    Callers,     \* calls of Shutdown or Close
    Kind,        \* Conns -> ConnKind
    ListenerOf,  \* accepted connection -> its listener
    PeerOf       \* Conns -> peer key

Stream == {"dial", "dialTLS", "accept", "acceptTLS"}
ConnKind == Stream \cup {"packet"}
Accepted(k) == Kind[k] \in {"accept", "acceptTLS"}
TLS(k) == Kind[k] \in {"dialTLS", "acceptTLS"}

Resources == Conns \cup Listeners

ASSUME EngineAssumption ==
    /\ IsFiniteSet(Conns)
    /\ IsFiniteSet(Listeners)
    /\ Conns \cap Listeners = {}
    /\ Kind \in [Conns -> ConnKind]
    /\ \A k \in Conns : Accepted(k) => ListenerOf[k] \in Listeners
    /\ PeerOf \in [Conns -> Peers \cup {NoPeer}]

VARIABLES
    state,      \* engineState
    reason,     \* shutdownReason
    shutdownErr,\* has recordShutdownError stored an error?
    activeOps,  \* operations between beginOp and endOp
    adm,        \* the admissionController
    lease,      \* state of each connection's lease
    pc,         \* where the operation that opens a resource is
    tracked,    \* the streamListeners, streams and packets maps
    closing,    \* listeners whose initiateClose has run
    asked,      \* what the Engine has told a session: nothing, drain, abort
    cpc,        \* where each Shutdown or Close call is
    owner,      \* did this Shutdown move the Engine to Draining?
    todo,       \* the part of a call's snapshot it has not yet told
    errs,       \* has a listener's Close failed in this call?
    result      \* what the call returned

connVars == <<lease, pc, tracked, closing, asked>>
callVars == <<cpc, owner, todo, errs, result>>
engineVars == <<state, reason, shutdownErr, activeOps, adm>>
vars == <<engineVars, connVars, callVars>>

EngineState == {"Running", "Draining", "Aborting", "Done"}
Live == {"opening", "active", "draining"}
InOp == {"op", "opening", "handshaking", "adopting", "undo", "leaving"}

TypeOK ==
    /\ state \in EngineState
    /\ reason \in {"none", "explicit", "caller", "failure"}
    /\ shutdownErr \in BOOLEAN
    /\ activeOps \in Nat
    /\ adm \in Controller
    /\ lease \in [Conns -> Live \cup {"none", "released"}]
    /\ pc \in [Resources -> InOp \cup {"idle", "accepted", "out"}]
    /\ tracked \in SUBSET Resources
    /\ closing \in SUBSET Listeners
    /\ asked \in [Conns -> {"no", "drain", "abort"}]
    /\ cpc \in [Callers -> {"idle", "request", "fail", "abort", "closeAll",
                            "wait", "returned"}]
    /\ owner \in [Callers -> BOOLEAN]
    /\ todo \in [Callers -> SUBSET Resources]
    /\ errs \in [Callers -> BOOLEAN]
    /\ result \in [Callers -> {"none", "nil", "closed", "cause", "error",
                               "aborted"}]

Init ==
    /\ state = "Running"
    /\ reason = "none"
    /\ shutdownErr = FALSE
    /\ activeOps = 0
    /\ adm = NewController
    /\ lease = [k \in Conns |-> "none"]
    /\ pc = [r \in Resources |-> "idle"]
    /\ tracked = {}
    /\ closing = {}
    /\ asked = [k \in Conns |-> "no"]
    /\ cpc = [c \in Callers |-> "idle"]
    /\ owner = [c \in Callers |-> FALSE]
    /\ todo = [c \in Callers |-> {}]
    /\ errs = [c \in Callers |-> FALSE]
    /\ result = [c \in Callers |-> "none"]

\* A mutant: maybeDoneLocked forgets the operations in flight.
MaybeDoneIgnoringOps(s, ops, owned, a) ==
    IF s # "Running" /\ owned = {} /\ Idle(a) THEN "Done" ELSE s

\* maybeDoneLocked: the state the Engine is left in by a critical section that
\* reached state s with these operations, tracked resources and counters.
MaybeDone(s, ops, owned, a) ==
    IF s # "Running" /\ ops = 0 /\ owned = {} /\ Idle(a) THEN "Done" ELSE s

\* A mutant: a draining Engine still admits.
AdmittingUnlessAborting == state \in {"Running", "Draining"}

\* The test under Engine.mu at the head of beginOp, acquireHandshake,
\* addStreamWithLease, addPacket and addTracked; its negation is ErrClosed.
Admitting == state = "Running"

----------------------------------------------------------------------------
(* Opening resources: Dial, Listen, DialPacket, ListenPacket, accept.      *)

Goto(r, label) == pc' = [pc EXCEPT ![r] = label]

\* acceptLoop hands a connection to a handleAccepted goroutine.
Accept(k) ==
    /\ Accepted(k)
    /\ pc[k] = "idle"
    /\ ListenerOf[k] \in tracked
    /\ Goto(k, "accepted")
    /\ UNCHANGED <<engineVars, lease, tracked, closing, asked, callVars>>

BeginOp(r) ==
    /\ pc[r] = IF r \in Conns /\ Accepted(r) THEN "accepted" ELSE "idle"
    /\ \/ /\ Admitting
          /\ activeOps' = activeOps + 1
          /\ Goto(r, "op")
       \/ /\ ~ Admitting
          /\ Goto(r, "out")
          /\ UNCHANGED activeOps
    /\ UNCHANGED <<state, reason, shutdownErr, adm, lease, tracked, closing,
                   asked, callVars>>

\* The dial, the bind or the listen itself fails.
OpenFails(r) ==
    /\ pc[r] = "op"
    /\ ~ (r \in Conns /\ Accepted(r))
    /\ Goto(r, "leaving")
    /\ UNCHANGED <<engineVars, lease, tracked, closing, asked, callVars>>

\* acquireOpening, acquireOpeningForListener.
AcquireOpening(k) ==
    /\ pc[k] = "op"
    /\ Kind[k] \in Stream
    /\ \/ /\ MayOpen(adm, PeerOf[k])
          /\ adm' = Opened(adm, PeerOf[k])
          /\ lease' = [lease EXCEPT ![k] = "opening"]
          /\ Goto(k, IF TLS(k) THEN "opening" ELSE "adopting")
       \/ /\ Accepted(k) \/ ~ MayOpen(adm, PeerOf[k])
          /\ Goto(k, "leaving")
          /\ UNCHANGED <<adm, lease>>
    /\ UNCHANGED <<state, reason, shutdownErr, activeOps, tracked, closing,
                   asked, callVars>>

\* acquireHandshake is refused at its limit and once the Engine is not Running;
\* a dial may also fail to build its TLS configuration.
AcquireHandshake(k) ==
    /\ pc[k] = "opening"
    /\ \/ /\ Admitting
          /\ MayHandshake(adm)
          /\ adm' = HandshakeTaken(adm)
          /\ Goto(k, "handshaking")
       \/ /\ Kind[k] = "dialTLS" \/ ~ Admitting \/ ~ MayHandshake(adm)
          /\ Goto(k, "undo")
          /\ UNCHANGED adm
    /\ UNCHANGED <<state, reason, shutdownErr, activeOps, lease, tracked,
                   closing, asked, callVars>>

\* The handshake ends, well or not; engineActivityLease.release.
EndHandshake(k) ==
    /\ pc[k] = "handshaking"
    /\ adm' = HandshakeReturned(adm)
    /\ state' = MaybeDone(state, activeOps, tracked, adm')
    /\ \E label \in {"adopting", "undo"} : Goto(k, label)
    /\ UNCHANGED <<reason, shutdownErr, activeOps, lease, tracked, closing,
                   asked, callVars>>

\* adoptStreamWithLease: addStreamWithLease under Engine.mu, then start.
AdoptStream(k) ==
    /\ pc[k] = "adopting"
    /\ \/ /\ Admitting
          /\ adm' = Activated(adm)
          /\ lease' = [lease EXCEPT ![k] = "active"]
          /\ tracked' = tracked \cup {k}
          /\ Goto(k, "leaving")
          /\ UNCHANGED closing
       \/ /\ ~ Admitting
          /\ Goto(k, "undo")
          /\ UNCHANGED <<adm, lease, tracked, closing>>
       \/ /\ Goto(k, "undo")  \* newFramer fails; an accept closes its listener
          /\ closing' = IF Accepted(k) THEN closing \cup {ListenerOf[k]} ELSE closing
          /\ UNCHANGED <<adm, lease, tracked>>
    /\ UNCHANGED <<state, reason, shutdownErr, activeOps, asked, callVars>>

\* The deferred lease.release of an operation that did not hand its lease over.
ReleaseLease(k) ==
    /\ pc[k] = "undo"
    /\ adm' = Released(adm, lease[k], PeerOf[k])
    /\ lease' = [lease EXCEPT ![k] = "released"]
    /\ Goto(k, "leaving")
    /\ UNCHANGED <<state, reason, shutdownErr, activeOps, tracked, closing,
                   asked, callVars>>

\* addPacket: acquireConnection and tracking in one critical section.
AddPacket(k) ==
    /\ pc[k] = "op"
    /\ Kind[k] = "packet"
    /\ Goto(k, "leaving")
    /\ IF Admitting /\ MayOpen(adm, PeerOf[k])
       THEN /\ adm' = Activated(Opened(adm, PeerOf[k]))
            /\ lease' = [lease EXCEPT ![k] = "active"]
            /\ tracked' = tracked \cup {k}
       ELSE UNCHANGED <<adm, lease, tracked>>
    /\ UNCHANGED <<state, reason, shutdownErr, activeOps, closing, asked, callVars>>

\* addStreamListener.
AddListener(l) ==
    /\ pc[l] = "op"
    /\ Goto(l, "leaving")
    /\ tracked' = IF Admitting THEN tracked \cup {l} ELSE tracked
    /\ UNCHANGED <<engineVars, lease, closing, asked, callVars>>

EndOp(r) ==
    /\ pc[r] = "leaving"
    /\ activeOps' = Less(activeOps)
    /\ state' = MaybeDone(state, activeOps', tracked, adm)
    /\ Goto(r, "out")
    /\ UNCHANGED <<reason, shutdownErr, adm, lease, tracked, closing, asked, callVars>>

----------------------------------------------------------------------------
(* Tracked resources end.                                                  *)

\* A session or socket has finalized: removeStream, removePacket.
RemoveSession(k) ==
    /\ k \in tracked
    /\ tracked' = tracked \ {k}
    /\ adm' = Released(adm, lease[k], PeerOf[k])
    /\ lease' = [lease EXCEPT ![k] = "released"]
    /\ state' = MaybeDone(state, activeOps, tracked', adm')
    /\ UNCHANGED <<reason, shutdownErr, activeOps, pc, closing, asked, callVars>>

\* The application, the listener's context or a failed accept closes it.
CloseListener(l) ==
    /\ l \in tracked \ closing
    /\ closing' = closing \cup {l}
    /\ UNCHANGED <<engineVars, lease, pc, tracked, asked, callVars>>

\* acceptLoop returns and finalizes: removeStreamListener.
FinalizeListener(l) ==
    /\ l \in tracked \cap closing
    /\ tracked' = tracked \ {l}
    /\ state' = MaybeDone(state, activeOps, tracked', adm)
    /\ UNCHANGED <<reason, shutdownErr, activeOps, adm, lease, pc, closing,
                   asked, callVars>>

----------------------------------------------------------------------------
(* Shutdown and Close.                                                     *)

Call(c, label) == cpc' = [cpc EXCEPT ![c] = label]

Return(c, r) == Call(c, "returned") /\ result' = [result EXCEPT ![c] = r]

\* The leases beginGracefulShutdown moves from active to draining, all in one
\* critical section of Engine.mu.
ToDrain == {k \in tracked \cap Conns : lease[k] = "active"}

\* A mutant: the snapshot leaves out the listeners.
SnapshotOfSessions == tracked \cap Conns

\* snapshotShutdownSetLocked.
Snapshot == tracked

BeginGracefulShutdown(c) ==
    /\ cpc[c] = "idle"
    /\ \/ /\ state = "Running"
          /\ adm' = [adm EXCEPT !.active = @ - Cardinality(ToDrain),
                                !.draining = @ + Cardinality(ToDrain)]
          /\ lease' = [k \in Conns |-> IF k \in ToDrain THEN "draining" ELSE lease[k]]
          /\ state' = MaybeDone("Draining", activeOps, tracked, adm')
          /\ owner' = [owner EXCEPT ![c] = TRUE]
          /\ todo' = [todo EXCEPT ![c] = Snapshot]
          /\ Call(c, "request")
       \/ /\ state # "Running"
          /\ Call(c, "wait")
          /\ UNCHANGED <<adm, lease, state, owner, todo>>
    /\ UNCHANGED <<reason, shutdownErr, activeOps, pc, tracked, closing, asked,
                   errs, result>>

\* Closing a listener: closeOnce; only the first close can report an error.
TellListener(c, l) ==
    /\ l \in todo[c] \cap Listeners
    /\ todo' = [todo EXCEPT ![c] = @ \ {l}]
    /\ closing' = closing \cup {l}
    /\ \/ UNCHANGED errs
       \/ l \notin closing /\ errs' = [errs EXCEPT ![c] = TRUE]
    /\ UNCHANGED <<engineVars, lease, pc, tracked, asked, cpc, owner, result>>

\* A mutant: sessions are told in no particular order.
ListenersToldOrNot(c) == TRUE

\* The loops over the listeners of the snapshot come first.
ListenersTold(c) == todo[c] \cap Listeners = {}

\* requestGracefulShutdown asks sessions to drain, closeSet closes them.  A
\* session that was aborted stays aborted.
TellSession(c, k) ==
    /\ ListenersTold(c)
    /\ k \in todo[c]
    /\ todo' = [todo EXCEPT ![c] = @ \ {k}]
    /\ asked' = [asked EXCEPT ![k] =
                   IF cpc[c] = "request" /\ @ # "abort" THEN "drain" ELSE "abort"]
    /\ UNCHANGED <<engineVars, lease, pc, tracked, closing, cpc, owner, errs, result>>

\* All resources are asked; a failed listener close turns Shutdown into an abort.
RequestDone(c) ==
    /\ cpc[c] = "request"
    /\ todo[c] = {}
    /\ Call(c, IF errs[c] THEN "fail" ELSE "wait")
    /\ shutdownErr' = (shutdownErr \/ errs[c])
    /\ errs' = [errs EXCEPT ![c] = FALSE]
    /\ UNCHANGED <<state, reason, activeOps, adm, connVars, owner, todo, result>>

\* beginAbort by call c, which goes on to close the snapshot ("abort" for
\* abortRemaining, "closeAll" for Close) unless the Engine is already ending.
BeginAbort(c, why, label) ==
    /\ state \notin {"Done", "Aborting"}
    /\ state' = MaybeDone("Aborting", activeOps, tracked, adm)
    /\ reason' = IF reason = "none" THEN why ELSE reason
    /\ todo' = [todo EXCEPT ![c] = Snapshot]
    /\ Call(c, label)
    /\ UNCHANGED <<shutdownErr, activeOps, adm, connVars, owner, errs, result>>

FailShutdown(c) ==
    /\ cpc[c] = "fail"
    /\ \/ BeginAbort(c, "failure", "abort")
       \/ /\ state \in {"Done", "Aborting"}
          /\ Call(c, "wait")
          /\ UNCHANGED <<engineVars, connVars, owner, todo, errs, result>>

\* The context of a waiting Shutdown expires: the owner escalates to an abort,
\* a waiter just returns.  Go's select may take this branch although done is
\* closed as well.
Expire(c) ==
    /\ cpc[c] = "wait"
    /\ \/ owner[c] /\ BeginAbort(c, "caller", "abort")
       \/ /\ ~ owner[c] \/ state \in {"Done", "Aborting"}
          /\ Return(c, "cause")
          /\ UNCHANGED <<engineVars, connVars, owner, todo, errs>>

\* abortRemaining has closed its snapshot.  After a failed request the call
\* goes on to wait for Done, after its context expired it returns the cause.
AbortDone(c) ==
    /\ cpc[c] = "abort"
    /\ todo[c] = {}
    /\ shutdownErr' = (shutdownErr \/ errs[c])
    /\ errs' = [errs EXCEPT ![c] = FALSE]
    /\ IF reason = "failure" THEN Call(c, "wait") /\ UNCHANGED result
       ELSE Return(c, "cause")
    /\ UNCHANGED <<state, reason, activeOps, adm, connVars, owner, todo>>

\* A mutant: an abort is no reason to report ErrClosed.
ShutdownResultIgnoringReason == IF shutdownErr THEN "error" ELSE "nil"

ShutdownResult ==
    IF shutdownErr THEN "error" ELSE IF reason # "none" THEN "closed" ELSE "nil"

\* Shutdown sees Done.
ShutdownReturns(c) ==
    /\ cpc[c] = "wait"
    /\ state = "Done"
    /\ Return(c, ShutdownResult)
    /\ UNCHANGED <<engineVars, connVars, owner, todo, errs>>

\* Close; the nil it returns is recorded as "aborted", apart from Shutdown's nil.
Close(c) ==
    /\ cpc[c] = "idle"
    /\ \/ BeginAbort(c, "explicit", "closeAll")
       \/ /\ state \in {"Done", "Aborting"}
          /\ Return(c, "aborted")
          /\ UNCHANGED <<engineVars, connVars, owner, todo, errs>>

CloseReturns(c) ==
    /\ cpc[c] = "closeAll"
    /\ todo[c] = {}
    /\ Return(c, IF errs[c] THEN "error" ELSE "aborted")
    /\ UNCHANGED <<engineVars, connVars, owner, todo, errs>>

----------------------------------------------------------------------------
\* A goroutine inside an operation takes its next step.
OpStep(r) ==
    \/ OpenFails(r)
    \/ r \in Conns /\ AcquireOpening(r)
    \/ r \in Conns /\ AcquireHandshake(r)
    \/ r \in Conns /\ EndHandshake(r)
    \/ r \in Conns /\ AdoptStream(r)
    \/ r \in Conns /\ ReleaseLease(r)
    \/ r \in Conns /\ AddPacket(r)
    \/ r \in Listeners /\ AddListener(r)
    \/ EndOp(r)

\* A Shutdown or Close that has begun takes its next step.
CallStep(c) ==
    \/ \E l \in Listeners : TellListener(c, l)
    \/ \E k \in Conns : TellSession(c, k)
    \/ RequestDone(c)
    \/ FailShutdown(c)
    \/ AbortDone(c)
    \/ ShutdownReturns(c)
    \/ CloseReturns(c)

Next ==
    \/ \E k \in Conns : Accept(k)
    \/ \E r \in Resources : BeginOp(r)
    \/ \E r \in Resources : OpStep(r)
    \/ \E k \in Conns : RemoveSession(k)
    \/ \E l \in Listeners : CloseListener(l)
    \/ \E l \in Listeners : FinalizeListener(l)
    \/ \E c \in Callers : BeginGracefulShutdown(c)
    \/ \E c \in Callers : Close(c)
    \/ \E c \in Callers : CallStep(c)
    \/ \E c \in Callers : Expire(c)

\* What the code promises of its goroutines: an operation returns (its dial and
\* handshake are bounded by a context, a timeout or the peer), a running call
\* goes on, the accept loop of a closed listener returns, and a session that was
\* told to abort terminates.  Nobody has to call Shutdown or Close, a context
\* need not expire, and a session that was only asked to drain may never end.
AbortedEnds(k) == asked[k] = "abort" /\ RemoveSession(k)

Fairness ==
    /\ \A r \in Resources : WF_vars(OpStep(r))
    /\ \A c \in Callers : WF_vars(CallStep(c))
    /\ \A l \in Listeners : WF_vars(FinalizeListener(l))
    /\ \A k \in Conns : WF_vars(AbortedEnds(k))

Spec == Init /\ [][Next]_vars

FairSpec == Spec /\ Fairness

----------------------------------------------------------------------------
(* Properties                                                              *)

\* What must be over before Done may close: operations, listeners, sessions and
\* sockets, leases, handshakes.
Outstanding ==
    {r \in Resources : \/ pc[r] \in InOp
                       \/ r \in tracked
                       \/ r \in Conns /\ lease[r] \in Live}

\* Engine.Done is an exact barrier.  It never closes while a listener, session,
\* packet socket or operation is alive or holds a lease, and it never stays
\* open once a stopping Engine has lost the last of them: whichever of endOp,
\* removeStream, removeTracked, engineActivityLease.release, Shutdown and Close
\* comes last has run maybeDoneLocked.
DoneExact ==
    state # "Running" => (state = "Done" <=> Outstanding = {})

\* The admission counters the barrier relies on are exact in every state.
AdmissionExact ==
    /\ adm.opening = Cardinality({k \in Conns : lease[k] = "opening"})
    /\ adm.active = Cardinality({k \in Conns : lease[k] = "active"})
    /\ adm.draining = Cardinality({k \in Conns : lease[k] = "draining"})
    /\ adm.handshakes = Cardinality({k \in Conns : pc[k] = "handshaking"})
    /\ activeOps = Cardinality({r \in Resources : pc[r] \in InOp})

\* The barrier and the counters it reads are exact (maybeDoneLocked).
BarrierExact == DoneExact /\ AdmissionExact

\* No connection slips past the snapshot of Shutdown or Close: once no call is
\* still working through its snapshot, every session left in a draining Engine
\* has been asked to drain and every one in an aborting Engine has been closed,
\* and no listener is left open, however a late Dial or accept interleaves.  And
\* listeners come first: a session is asked to drain only after every listener
\* has been closed, so nothing is accepted into an Engine that drains sessions.
SnapshotComplete ==
    /\ (state \in {"Draining", "Aborting"}
         /\ \A c \in Callers : cpc[c] \notin {"request", "fail", "abort", "closeAll"})
       => /\ tracked \cap Listeners \subseteq closing
          /\ \A k \in tracked \cap Conns :
                asked[k] \in IF state = "Draining" THEN {"drain", "abort"} ELSE {"abort"}
    /\ (\E k \in Conns : asked[k] = "drain") => tracked \cap Listeners \subseteq closing

\* Shutdown returns nil only when everything has terminated and nobody aborted
\* anything: a nil from any Shutdown caller is a truly graceful end.
NilShutdownIsGraceful ==
    \A c \in Callers :
        result[c] = "nil"
        => /\ state = "Done"
           /\ reason = "none"
           /\ \A k \in Conns : asked[k] # "abort"

\* The abstract barrier: what is owned, and whether it may still grow.
BarrierPhase ==
    IF state = "Running" THEN "open" ELSE IF state = "Done" THEN "done" ELSE "closing"

Barrier == INSTANCE EngineBarrier WITH phase <- BarrierPhase, owned <- Outstanding

\* The Engine implements the abstract barrier: resources are acquired one at a
\* time and only while it is Running, and Done closes with the last release.
ImplementsBarrier == Barrier!Spec

\* An Engine that aborts, and an Engine whose owning Shutdown has returned (its
\* context expired, for instance), reaches Done.
AbortReachesDone ==
    (state = "Aborting" \/ \E c \in Callers : owner[c] /\ cpc[c] = "returned")
    ~> state = "Done"

=============================================================================
