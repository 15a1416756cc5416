------------------------ MODULE AdmissionController ------------------------
(***************************************************************************)
(* The bookkeeping of transport/limits.go: the counters an Engine keeps    *)
(* for every connection, TLS handshake and WebSocket upgrade it owns, and  *)
(* the checks made against the configured Limits.  A controller is one     *)
(* record; every operator below is what one critical section of            *)
(* admissionController.mu computes.  A limit of 0 means unlimited.         *)
(***************************************************************************)
EXTENDS Integers

CONSTANTS
    Peers,                   \* peer keys (canonical IPs) that connections have
    NoPeer,                  \* the empty peer key: not counted per peer
    MaxConnections,          \* Limits.MaxConnections
    MaxConnectionsPerPeer,   \* Limits.MaxConnectionsPerPeer
    MaxConcurrentHandshakes, \* Limits.MaxConcurrentHandshakes
    MaxPendingUpgrades       \* Limits.MaxPendingUpgrades

ASSUME LimitsAssumption ==
    /\ MaxConnections \in Nat
    /\ MaxConnectionsPerPeer \in Nat
    /\ MaxConcurrentHandshakes \in Nat
    /\ MaxPendingUpgrades \in Nat
    /\ NoPeer \notin Peers

Controller == [opening : Nat, active : Nat, draining : Nat,
               handshakes : Nat, upgrades : Nat, perPeer : [Peers -> Nat]]

NewController == [opening |-> 0, active |-> 0, draining |-> 0,
                  handshakes |-> 0, upgrades |-> 0,
                  perPeer |-> [p \in Peers |-> 0]]

AtLimit(limit, used) == limit > 0 /\ used >= limit

\* The clamped decrement the code writes as "if n > 0 { n-- }".
Less(n) == IF n > 0 THEN n - 1 ELSE 0

Connections(a) == a.opening + a.active + a.draining

\* May acquireOpening admit one more connection of this peer?
MayOpen(a, peer) ==
    /\ ~ AtLimit(MaxConnections, Connections(a))
    /\ peer # NoPeer => ~ AtLimit(MaxConnectionsPerPeer, a.perPeer[peer])

AddToPeer(perPeer, peer) ==
    [p \in Peers |-> IF p = peer THEN perPeer[p] + 1 ELSE perPeer[p]]

RemoveFromPeer(perPeer, peer) ==
    [p \in Peers |-> IF p = peer THEN Less(perPeer[p]) ELSE perPeer[p]]

Opened(a, peer) ==
    [a EXCEPT !.opening = @ + 1, !.perPeer = AddToPeer(@, peer)]

Activated(a) == [a EXCEPT !.opening = Less(@), !.active = @ + 1]

Drained(a) == [a EXCEPT !.active = Less(@), !.draining = @ + 1]

\* A mutant: a release always takes from the active connections.
ReleasedAsActive(a, s, peer) ==
    [a EXCEPT !.active = Less(@), !.perPeer = RemoveFromPeer(@, peer)]

\* The second half of connectionLease.release, for a lease that was in state s.
Released(a, s, peer) ==
    [a EXCEPT !.opening  = IF s = "opening"  THEN Less(@) ELSE @,
              !.active   = IF s = "active"   THEN Less(@) ELSE @,
              !.draining = IF s = "draining" THEN Less(@) ELSE @,
              !.perPeer  = RemoveFromPeer(@, peer)]

MayHandshake(a) == ~ AtLimit(MaxConcurrentHandshakes, a.handshakes)

HandshakeTaken(a) == [a EXCEPT !.handshakes = @ + 1]

HandshakeReturned(a) == [a EXCEPT !.handshakes = Less(@)]

MayUpgrade(a) == ~ AtLimit(MaxPendingUpgrades, a.upgrades)

UpgradeTaken(a) == [a EXCEPT !.upgrades = @ + 1]

UpgradeReturned(a) == [a EXCEPT !.upgrades = Less(@)]

Idle(a) ==
    /\ a.opening = 0
    /\ a.active = 0
    /\ a.draining = 0
    /\ a.handshakes = 0
    /\ a.upgrades = 0
============================================================================
