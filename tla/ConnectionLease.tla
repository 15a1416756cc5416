-------------------------- MODULE ConnectionLease --------------------------
(***************************************************************************)
(* Connection leases (transport/limits.go) at the granularity of their     *)
(* locks.  A lease is taken in two critical sections (the listener's       *)
(* atomic counter, then admissionController.mu), given up in three (the    *)
(* lease's own mutex, the controller, the listener), and any goroutine may *)
(* run between them: an accept loop, a dial, an Engine shutdown that moves *)
(* active leases to draining, a session that ends.                         *)
(*                                                                         *)
(* An element of Leases is one connectionLease object.  Once given up, the *)
(* identity stands for the next connection with the same peer and          *)
(* listener, so that arbitrarily long histories are covered.               *)
(***************************************************************************)
EXTENDS AdmissionController, FiniteSets

CONSTANTS
    Leases,          \* connection leases
    PeerOf,          \* lease -> its peer key (or NoPeer)
    Listeners,       \* listeners with a capacity of their own
    NoListener,      \* the listener of a dialed connection
    ListenerOf,      \* lease -> the listener that accepted it (or NoListener)
    MaxPerListener   \* Limits.MaxConnectionsPerListener

ASSUME LeasesAssumption ==
    /\ IsFiniteSet(Leases)
    /\ PeerOf \in [Leases -> Peers \cup {NoPeer}]
    /\ ListenerOf \in [Leases -> Listeners \cup {NoListener}]
    /\ NoListener \notin Listeners
    /\ MaxPerListener \in Nat

VARIABLES
    adm,    \* the admissionController
    lease,  \* state of each lease, see LeaseState
    owed,   \* what a release has still to subtract from the controller
    used    \* listenerCapacity.used of each listener

vars == <<adm, lease, owed, used>>

Live == {"opening", "active", "draining"}

\* "slot" and "undo" are inside acquireOpeningWithListener: the listener slot
\* is held and the controller has not been asked, or has refused.  "released"
\* and "unslot" are inside release: before and after the controller section.
LeaseState == Live \cup {"none", "slot", "undo", "released", "unslot"}

TypeOK ==
    /\ adm \in Controller
    /\ lease \in [Leases -> LeaseState]
    /\ owed \in [Leases -> Live \cup {"none"}]
    /\ used \in [Listeners -> Nat]

Init ==
    /\ adm = NewController
    /\ lease = [l \in Leases |-> "none"]
    /\ owed = [l \in Leases |-> "none"]
    /\ used = [q \in Listeners |-> 0]

----------------------------------------------------------------------------

\* listenerCapacity.acquire: an atomic compare-and-swap; at the limit the
\* connection is rejected and nothing changes.
AcquireListener(l) ==
    /\ lease[l] = "none"
    /\ ListenerOf[l] # NoListener
    /\ ~ AtLimit(MaxPerListener, used[ListenerOf[l]])
    /\ used' = [used EXCEPT ![ListenerOf[l]] = @ + 1]
    /\ lease' = [lease EXCEPT ![l] = "slot"]
    /\ UNCHANGED <<adm, owed>>

\* The controller section of acquireOpeningWithListener.
AcquireOpening(l) ==
    /\ lease[l] = IF ListenerOf[l] = NoListener THEN "none" ELSE "slot"
    /\ MayOpen(adm, PeerOf[l])
    /\ adm' = Opened(adm, PeerOf[l])
    /\ lease' = [lease EXCEPT ![l] = "opening"]
    /\ UNCHANGED <<owed, used>>

\* The controller refuses a connection that already holds a listener slot.
RefuseOpening(l) ==
    /\ lease[l] = "slot"
    /\ ~ MayOpen(adm, PeerOf[l])
    /\ lease' = [lease EXCEPT ![l] = "undo"]
    /\ UNCHANGED <<adm, owed, used>>

\* listenerCapacity.release, after a refusal or at the end of a release.
ReleaseListener(l) ==
    /\ lease[l] \in {"undo", "unslot"}
    /\ used' = IF ListenerOf[l] = NoListener THEN used
               ELSE [used EXCEPT ![ListenerOf[l]] = Less(@)]
    /\ lease' = [lease EXCEPT ![l] = "none"]
    /\ UNCHANGED <<adm, owed>>

Activate(l) ==
    /\ lease[l] = "opening"
    /\ adm' = Activated(adm)
    /\ lease' = [lease EXCEPT ![l] = "active"]
    /\ UNCHANGED <<owed, used>>

BeginDrain(l) ==
    /\ lease[l] = "active"
    /\ adm' = Drained(adm)
    /\ lease' = [lease EXCEPT ![l] = "draining"]
    /\ UNCHANGED <<owed, used>>

\* The first caller of release wins under the lease's mutex and remembers the
\* state it found; every later call returns at once.
Release(l) ==
    /\ lease[l] \in Live
    /\ owed' = [owed EXCEPT ![l] = lease[l]]
    /\ lease' = [lease EXCEPT ![l] = "released"]
    /\ UNCHANGED <<adm, used>>

ReleaseCounters(l) ==
    /\ owed[l] # "none"
    /\ adm' = Released(adm, owed[l], PeerOf[l])
    /\ owed' = [owed EXCEPT ![l] = "none"]
    /\ lease' = [lease EXCEPT ![l] = "unslot"]
    /\ UNCHANGED used

Next ==
    \E l \in Leases :
        \/ AcquireListener(l)
        \/ AcquireOpening(l)
        \/ RefuseOpening(l)
        \/ ReleaseListener(l)
        \/ Activate(l)
        \/ BeginDrain(l)
        \/ Release(l)
        \/ ReleaseCounters(l)

Spec == Init /\ [][Next]_vars

----------------------------------------------------------------------------

\* The leases the controller counts in state s: the ones in that state, and
\* the ones a release has taken out of it but not yet subtracted.
Counted(s) == {l \in Leases : lease[l] = s \/ owed[l] = s}

\* The leases that hold a unit of their peer's and the Engine's capacity.
Holding == {l \in Leases : lease[l] \in Live \/ owed[l] # "none"}

HoldingOf(p) == {l \in Holding : PeerOf[l] = p}

\* The leases that hold a slot of listener q.
SlotsOf(q) ==
    {l \in Leases : ListenerOf[l] = q /\ lease[l] # "none"}

\* Exact accounting (limits.go activate, beginDrain, release): whatever order
\* the critical sections of all leases run in, each counter is the number of
\* leases it stands for.  A double subtraction, a lost one, or a subtraction
\* from the wrong counter breaks it.
CountersExact ==
    /\ adm.opening = Cardinality(Counted("opening"))
    /\ adm.active = Cardinality(Counted("active"))
    /\ adm.draining = Cardinality(Counted("draining"))
    /\ \A p \in Peers : adm.perPeer[p] = Cardinality(HoldingOf(p))

\* listenerCapacity.used is the number of connections that hold a slot of the
\* listener, rejected ones on their way out included.
ListenerSlotsExact ==
    \A q \in Listeners : used[q] = Cardinality(SlotsOf(q))

\* The limits documented in docs/resource-governance.md: opening, active and
\* draining connections together never exceed MaxConnections, no peer has
\* more than MaxConnectionsPerPeer and no listener more than its own limit,
\* between any two critical sections.
LimitsHeld ==
    /\ MaxConnections > 0 => Cardinality(Holding) <= MaxConnections
    /\ MaxConnectionsPerPeer > 0 =>
         \A p \in Peers : Cardinality(HoldingOf(p)) <= MaxConnectionsPerPeer
    /\ MaxPerListener > 0 =>
         \A q \in Listeners : Cardinality(SlotsOf(q)) <= MaxPerListener

\* Between any two critical sections of limits.go every counter is exact and
\* every limit holds.
LeasesAccounted == CountersExact /\ ListenerSlotsExact /\ LimitsHeld
============================================================================
