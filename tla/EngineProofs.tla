---------------------------- MODULE EngineProofs ----------------------------
(***************************************************************************)
(* For any number of operations, listeners, sessions and callers and any   *)
(* limits: Engine.Done is an exact barrier, the Engine implements the      *)
(* abstract EngineBarrier, Shutdown and Close reach every resource, and a  *)
(* nil Shutdown is graceful.                                               *)
(***************************************************************************)
EXTENDS Engine, FiniteSetTheorems, TLAPS

----------------------------------------------------------------------------
(* Counting with finite sets, and the counters of AdmissionController.     *)

\* The size of a finite set grows or shrinks by one with the element that
\* joins or leaves it.
LEMMA FiniteChange ==
  ASSUME NEW T, IsFiniteSet(T), NEW S \in SUBSET T, NEW x \in T
  PROVE  /\ Cardinality(S) \in Nat
         /\ x \notin S => Cardinality(S \cup {x}) = Cardinality(S) + 1
         /\ x \in S => /\ Cardinality(S \ {x}) = Cardinality(S) - 1
                       /\ Cardinality(S) > 0
  <1>1. IsFiniteSet(S)
    BY FS_Subset
  <1>2. IsFiniteSet(S \ {x}) /\ Cardinality(S) \in Nat
    BY <1>1, FS_RemoveElement, FS_CardinalityType
  <1>3. Cardinality(S \ {x}) \in Nat
    BY <1>2, FS_CardinalityType
  <1>4. x \notin S => Cardinality(S \cup {x}) = Cardinality(S) + 1
    BY <1>1, FS_AddElement, Zenon
  <1>5. x \in S => Cardinality(S \ {x}) = Cardinality(S) - 1
    BY <1>1, FS_RemoveElement, Zenon
  <1>. QED
    BY <1>2, <1>3, <1>4, <1>5

\* A count goes from m to n as the element in question belongs (now) and
\* belonged (before) to what is counted.
Follows(n, m, now, before) ==
    /\ (now <=> before) => n = m
    /\ now /\ ~ before => n = m + 1
    /\ ~ now /\ before => n = m - 1

\* Two subsets that differ at most in one element: the sizes differ by whether
\* that element is in them.
LEMMA Recount ==
  ASSUME NEW T, IsFiniteSet(T), NEW S \in SUBSET T, NEW U \in SUBSET T, NEW x \in T,
         \A y \in T \ {x} : y \in U <=> y \in S
  PROVE  Follows(Cardinality(U), Cardinality(S), x \in U, x \in S)
  <1>1. CASE x \in U <=> x \in S
    <2>1. U = S
      BY <1>1
    <2>. QED
      BY <1>1, <2>1 DEF Follows
  <1>2. CASE x \in U /\ x \notin S
    <2>1. U = S \cup {x}
      BY <1>2
    <2>2. Cardinality(S \cup {x}) = Cardinality(S) + 1
      BY <1>2, FiniteChange
    <2>. QED
      BY <1>2, <2>1, <2>2 DEF Follows
  <1>3. CASE x \notin U /\ x \in S
    <2>1. U = S \ {x}
      BY <1>3
    <2>2. Cardinality(S \ {x}) = Cardinality(S) - 1
      BY <1>3, FiniteChange
    <2>. QED
      BY <1>3, <2>1, <2>2 DEF Follows
  <1>. QED
    BY <1>1, <1>2, <1>3

\* A subset of a finite set is empty exactly when its size is 0.
LEMMA EmptyCount ==
  ASSUME NEW T, IsFiniteSet(T), NEW S \in SUBSET T
  PROVE  Cardinality(S) \in Nat /\ (Cardinality(S) = 0 <=> S = {})
  BY FS_Subset, FS_CardinalityType, FS_EmptySet

\* Every critical section of the controller leaves a well-formed controller.
LEMMA ControllerTyped ==
  ASSUME NEW a \in Controller, NEW peer, NEW s
  PROVE  /\ Opened(a, peer) \in Controller
         /\ Activated(a) \in Controller
         /\ Drained(a) \in Controller
         /\ Released(a, s, peer) \in Controller
         /\ HandshakeTaken(a) \in Controller
         /\ HandshakeReturned(a) \in Controller
  <1>1. AddToPeer(a.perPeer, peer) \in [Peers -> Nat]
    BY DEF AddToPeer, Controller
  <1>2. RemoveFromPeer(a.perPeer, peer) \in [Peers -> Nat]
    BY DEF RemoveFromPeer, Controller, Less
  <1>3. /\ a.opening + 1 \in Nat /\ a.active + 1 \in Nat /\ a.draining + 1 \in Nat
        /\ a.handshakes + 1 \in Nat
        /\ Less(a.opening) \in Nat /\ Less(a.active) \in Nat /\ Less(a.draining) \in Nat
        /\ Less(a.handshakes) \in Nat
    BY DEF Controller, Less
  <1>4. Opened(a, peer) \in Controller
    BY <1>1, <1>3, Zenon DEF Opened, Controller
  <1>5. Activated(a) \in Controller /\ Drained(a) \in Controller
    BY <1>3 DEF Activated, Drained, Controller
  <1>6. Released(a, s, peer) \in Controller
    BY <1>2, <1>3 DEF Released, Controller
  <1>7. HandshakeTaken(a) \in Controller /\ HandshakeReturned(a) \in Controller
    BY <1>3 DEF HandshakeTaken, HandshakeReturned, Controller
  <1>. QED
    BY <1>4, <1>5, <1>6, <1>7

\* What every critical section of the controller does to the counters.
LEMMA OpenedCounters ==
  ASSUME NEW a \in Controller, NEW peer
  PROVE  LET b == Opened(a, peer)
         IN  /\ b.opening = a.opening + 1 /\ b.active = a.active
             /\ b.draining = a.draining /\ b.handshakes = a.handshakes
             /\ b.upgrades = a.upgrades
  BY DEF Opened, Controller

LEMMA ActivatedCounters ==
  ASSUME NEW a \in Controller
  PROVE  LET b == Activated(a)
         IN  /\ b.opening = Less(a.opening) /\ b.active = a.active + 1
             /\ b.draining = a.draining /\ b.handshakes = a.handshakes
             /\ b.upgrades = a.upgrades
  BY DEF Activated, Controller

LEMMA ReleasedCounters ==
  ASSUME NEW a \in Controller, NEW s, NEW peer
  PROVE  LET b == Released(a, s, peer)
         IN  /\ s = "opening" => b.opening = Less(a.opening)
             /\ s # "opening" => b.opening = a.opening
             /\ s = "active" => b.active = Less(a.active)
             /\ s # "active" => b.active = a.active
             /\ s = "draining" => b.draining = Less(a.draining)
             /\ s # "draining" => b.draining = a.draining
             /\ b.handshakes = a.handshakes /\ b.upgrades = a.upgrades
  BY DEF Released, Controller

LEMMA HandshakeCounters ==
  ASSUME NEW a \in Controller
  PROVE  /\ LET b == HandshakeTaken(a)
            IN  /\ b.opening = a.opening /\ b.active = a.active
                /\ b.draining = a.draining /\ b.handshakes = a.handshakes + 1
                /\ b.upgrades = a.upgrades
         /\ LET b == HandshakeReturned(a)
            IN  /\ b.opening = a.opening /\ b.active = a.active
                /\ b.draining = a.draining /\ b.handshakes = Less(a.handshakes)
                /\ b.upgrades = a.upgrades
  BY DEF HandshakeTaken, HandshakeReturned, Controller

----------------------------------------------------------------------------
(* The inductive invariant of the Engine.                                  *)

Ops == {r \in Resources : pc[r] \in InOp}
InLease(s) == {k \in Conns : lease[k] = s}
Shaking == {k \in Conns : pc[k] = "handshaking"}

\* How a connection's lease follows its operation and its tracking: the
\* operation holds it while opening, the tracked session afterwards.
ShapeAt(r) ==
    /\ pc[r] \in {"idle", "accepted", "op"} => r \notin tracked
    /\ r \in Conns =>
         /\ lease[r] = "opening" <=> pc[r] \in {"opening", "handshaking", "adopting", "undo"}
         /\ lease[r] \in {"active", "draining"} <=> r \in tracked

Shape == adm.upgrades = 0 /\ \A r \in Resources : ShapeAt(r)

IInv == TypeOK /\ Shape /\ AdmissionExact /\ DoneExact

\* What maybeDoneLocked tests, apart from the state.
Quiet == activeOps = 0 /\ tracked = {} /\ Idle(adm)

----------------------------------------------------------------------------

LEMMA ResourcesFinite == IsFiniteSet(Resources) /\ IsFiniteSet(Conns)
  BY EngineAssumption, FS_Union, Zenon DEF Resources

LEMMA ConnsAreResources == \A k \in Conns : k \in Resources
  BY DEF Resources

\* AdmissionExact over the named sets.
Counts ==
    /\ activeOps = Cardinality(Ops)
    /\ adm.opening = Cardinality(InLease("opening"))
    /\ adm.active = Cardinality(InLease("active"))
    /\ adm.draining = Cardinality(InLease("draining"))
    /\ adm.handshakes = Cardinality(Shaking)

LEMMA CountsDef == AdmissionExact <=> Counts
  BY DEF AdmissionExact, Counts, Ops, InLease, Shaking

LEMMA CountsDefPrime == AdmissionExact' <=> Counts'
  BY CountsDef, PTL

\* The test of maybeDoneLocked is exact: it holds just when no operation,
\* tracked resource or lease is left.
LEMMA QuietExact ==
  TypeOK /\ Shape /\ AdmissionExact => (Quiet <=> Outstanding = {})
  <1>. SUFFICES ASSUME TypeOK, Shape, AdmissionExact
                PROVE  Quiet <=> Outstanding = {}
    OBVIOUS
  <1>1. /\ activeOps = 0 <=> Ops = {}
        /\ adm.opening = 0 <=> InLease("opening") = {}
        /\ adm.active = 0 <=> InLease("active") = {}
        /\ adm.draining = 0 <=> InLease("draining") = {}
        /\ adm.handshakes = 0 <=> Shaking = {}
    <2>1. /\ Ops \in SUBSET Resources /\ InLease("opening") \in SUBSET Conns
          /\ InLease("active") \in SUBSET Conns /\ InLease("draining") \in SUBSET Conns
          /\ Shaking \in SUBSET Conns
      BY DEF Ops, InLease, Shaking
    <2>. QED
      BY <2>1, EmptyCount, ResourcesFinite, CountsDef DEF Counts
  <1>2. adm.upgrades = 0
    BY DEF Shape
  <1>3. ASSUME Outstanding = {} PROVE Quiet
    <2>1. \A r \in Resources : /\ pc[r] \notin InOp /\ r \notin tracked
                               /\ r \in Conns => lease[r] \notin Live
      BY <1>3 DEF Outstanding
    <2>2. Ops = {} /\ tracked = {}
      BY <2>1 DEF Ops, TypeOK
    <2>3. Shaking = {}
      BY <2>1, ConnsAreResources DEF Shaking, InOp
    <2>4. InLease("opening") = {} /\ InLease("active") = {} /\ InLease("draining") = {}
      BY <2>1, ConnsAreResources DEF InLease, Live
    <2>. QED
      BY <1>1, <1>2, <2>2, <2>3, <2>4 DEF Quiet, Idle
  <1>4. ASSUME Quiet PROVE Outstanding = {}
    <2>1. Ops = {} /\ tracked = {}
      BY <1>1, <1>4 DEF Quiet
    <2>2. InLease("opening") = {} /\ InLease("active") = {} /\ InLease("draining") = {}
      BY <1>1, <1>4 DEF Quiet, Idle
    <2>. QED
      BY <2>1, <2>2 DEF Outstanding, Ops, InLease, Live
  <1>. QED
    BY <1>3, <1>4

\* A critical section that ends in maybeDoneLocked restores the barrier.
LEMMA MaybeDoneExact ==
  ASSUME TypeOK', Shape', AdmissionExact',
         NEW s \in EngineState \ {"Done"},
         state' = MaybeDone(s, activeOps', tracked', adm')
  PROVE  DoneExact'
  <1>1. (Quiet <=> Outstanding = {})'
    <2>1. (TypeOK /\ Shape /\ AdmissionExact)' => (Quiet <=> Outstanding = {})'
      BY QuietExact, PTL
    <2>. QED
      BY <2>1
  <1>. QED
    BY <1>1 DEF DoneExact, MaybeDone, Quiet, EngineState

----------------------------------------------------------------------------
(* A step that concerns one resource.                                      *)

\* The step leaves every resource but r as it was.
Only(r) ==
    /\ \A q \in Resources \ {r} : pc'[q] = pc[q] /\ (q \in tracked' <=> q \in tracked)
    /\ \A q \in Conns \ {r} : lease'[q] = lease[q]

\* The counters follow what happens to r.
Counted(r) ==
    /\ Follows(activeOps', activeOps, pc'[r] \in InOp, pc[r] \in InOp)
    /\ adm'.upgrades = adm.upgrades
    /\ r \notin Conns => adm' = adm
    /\ r \in Conns =>
         /\ Follows(adm'.opening, adm.opening, lease'[r] = "opening", lease[r] = "opening")
         /\ Follows(adm'.active, adm.active, lease'[r] = "active", lease[r] = "active")
         /\ Follows(adm'.draining, adm.draining, lease'[r] = "draining", lease[r] = "draining")
         /\ Follows(adm'.handshakes, adm.handshakes,
                    pc'[r] = "handshaking", pc[r] = "handshaking")

\* The step admits, or it neither ends r nor changes the state, or it runs
\* maybeDoneLocked.
Barred(r) ==
    \/ state = "Running" /\ state' = "Running"
    \/ state' = state /\ (r \in Outstanding' <=> r \in Outstanding)
    \/ r \in Outstanding /\ state' = MaybeDone(state, activeOps', tracked', adm')

\* What a step does to the barrier: nothing, one resource more while Running, one
\* resource less, or the end of Running.
Same == (state' = "Running" <=> state = "Running") /\ Outstanding' = Outstanding

Grows ==
    /\ state = "Running" /\ state' = "Running"
    /\ \E r \in Resources \ Outstanding : Outstanding' = Outstanding \cup {r}

Shrinks ==
    /\ state' = "Running" <=> state = "Running"
    /\ \E r \in Outstanding : Outstanding' = Outstanding \ {r}

Stops == state = "Running" /\ state' # "Running" /\ Outstanding' = Outstanding

\* What is shown of every step.
Preserved == IInv' /\ (Same \/ Grows \/ Shrinks \/ Stops)

LEMMA ShapeStep ==
  ASSUME Shape, NEW r \in Resources, Only(r), ShapeAt(r)', Counted(r)
  PROVE  Shape'
  <1>1. ASSUME NEW q \in Resources, q # r PROVE ShapeAt(q)'
    <2>1. /\ pc'[q] = pc[q] /\ (q \in tracked' <=> q \in tracked)
          /\ q \in Conns => lease'[q] = lease[q]
      BY <1>1 DEF Only
    <2>2. ShapeAt(q)
      BY DEF Shape
    <2>. QED
      BY <2>1, <2>2 DEF ShapeAt
  <1>2. adm'.upgrades = 0
    BY DEF Shape, Counted
  <1>. QED
    BY <1>1, <1>2 DEF Shape

LEMMA CountStep ==
  ASSUME AdmissionExact, NEW r \in Resources, Only(r), Counted(r)
  PROVE  AdmissionExact'
  <1>1. Counts
    BY CountsDef
  <1>2. activeOps' = Cardinality(Ops')
    <2>1. /\ Ops \in SUBSET Resources /\ Ops' \in SUBSET Resources
          /\ r \in Ops <=> pc[r] \in InOp
          /\ r \in Ops' <=> pc'[r] \in InOp
      BY DEF Ops
    <2>2. \A q \in Resources \ {r} : q \in Ops' <=> q \in Ops
      BY DEF Only, Ops
    <2>3. Follows(Cardinality(Ops'), Cardinality(Ops), r \in Ops', r \in Ops)
      BY <2>1, <2>2, ResourcesFinite, Recount
    <2>. QED
      BY <1>1, <2>1, <2>3 DEF Follows, Counted, Counts
  <1>3. CASE r \notin Conns
    <2>1. \A s : InLease(s)' = InLease(s)
      BY <1>3 DEF Only, InLease
    <2>2. Shaking' = Shaking
      BY <1>3, ConnsAreResources DEF Only, Shaking
    <2>3. adm' = adm
      BY <1>3 DEF Counted
    <2>. QED
      BY <1>1, <1>2, <2>1, <2>2, <2>3, CountsDefPrime DEF Counts
  <1>4. CASE r \in Conns
    <2>1. ASSUME NEW s
          PROVE  Follows(Cardinality(InLease(s)'), Cardinality(InLease(s)),
                         lease'[r] = s, lease[r] = s)
      <3>1. /\ InLease(s) \in SUBSET Conns /\ InLease(s)' \in SUBSET Conns
            /\ r \in InLease(s) <=> lease[r] = s
            /\ r \in InLease(s)' <=> lease'[r] = s
        BY <1>4 DEF InLease
      <3>2. \A q \in Conns \ {r} : q \in InLease(s)' <=> q \in InLease(s)
        BY DEF Only, InLease
      <3>3. Follows(Cardinality(InLease(s)'), Cardinality(InLease(s)),
                    r \in InLease(s)', r \in InLease(s))
        BY <1>4, <3>1, <3>2, ResourcesFinite, Recount
      <3>. QED
        BY <3>1, <3>3 DEF Follows
    <2>2. Follows(Cardinality(Shaking'), Cardinality(Shaking),
                  pc'[r] = "handshaking", pc[r] = "handshaking")
      <3>1. /\ Shaking \in SUBSET Conns /\ Shaking' \in SUBSET Conns
            /\ r \in Shaking <=> pc[r] = "handshaking"
            /\ r \in Shaking' <=> pc'[r] = "handshaking"
        BY <1>4 DEF Shaking
      <3>2. \A q \in Conns \ {r} : q \in Shaking' <=> q \in Shaking
        BY ConnsAreResources DEF Only, Shaking
      <3>3. Follows(Cardinality(Shaking'), Cardinality(Shaking), r \in Shaking', r \in Shaking)
        BY <1>4, <3>1, <3>2, ResourcesFinite, Recount
      <3>. QED
        BY <3>1, <3>3 DEF Follows
    <2>3. adm'.opening = Cardinality(InLease("opening")')
      BY <1>1, <1>4, <2>1 DEF Follows, Counted, Counts
    <2>4. adm'.active = Cardinality(InLease("active")')
      BY <1>1, <1>4, <2>1 DEF Follows, Counted, Counts
    <2>5. adm'.draining = Cardinality(InLease("draining")')
      BY <1>1, <1>4, <2>1 DEF Follows, Counted, Counts
    <2>6. adm'.handshakes = Cardinality(Shaking')
      BY <1>1, <1>4, <2>2 DEF Follows, Counted, Counts
    <2>. QED
      BY <1>2, <2>3, <2>4, <2>5, <2>6, CountsDefPrime DEF Counts
  <1>. QED
    BY <1>3, <1>4

\* Such a step preserves the invariant.
LEMMA StepIInv ==
  ASSUME IInv, NEW r \in Resources, TypeOK', Only(r), ShapeAt(r)', Counted(r), Barred(r)
  PROVE  Preserved
  <1>1. Shape' /\ AdmissionExact'
    BY ShapeStep, CountStep DEF IInv
  <1>2. \A q \in Resources \ {r} : q \in Outstanding' <=> q \in Outstanding
    BY DEF Only, Outstanding
  <1>3. Outstanding \subseteq Resources /\ Outstanding' \subseteq Resources
    BY DEF Outstanding
  <1>4. CASE state = "Running" /\ state' = "Running"
    <2>1. IInv'
      BY <1>1, <1>4 DEF IInv, DoneExact
    <2>2. CASE r \in Outstanding' <=> r \in Outstanding
      BY <1>2, <1>3, <1>4, <2>1, <2>2 DEF Preserved, Same
    <2>3. CASE r \in Outstanding' /\ r \notin Outstanding
      <3>1. Outstanding' = Outstanding \cup {r}
        BY <1>2, <1>3, <2>3
      <3>. QED
        BY <1>4, <2>1, <2>3, <3>1 DEF Preserved, Grows
    <2>4. CASE r \notin Outstanding' /\ r \in Outstanding
      <3>1. Outstanding' = Outstanding \ {r}
        BY <1>2, <1>3, <2>4
      <3>. QED
        BY <1>4, <2>1, <2>4, <3>1 DEF Preserved, Shrinks
    <2>. QED
      BY <2>2, <2>3, <2>4
  <1>5. CASE state' = state /\ (r \in Outstanding' <=> r \in Outstanding)
    <2>1. Outstanding' = Outstanding
      BY <1>2, <1>3, <1>5
    <2>. QED
      BY <1>1, <1>5, <2>1 DEF IInv, DoneExact, Preserved, Same
  <1>6. CASE r \in Outstanding /\ state' = MaybeDone(state, activeOps', tracked', adm')
    <2>1. state \in EngineState \ {"Done"}
      BY <1>6 DEF IInv, TypeOK, DoneExact, EngineState
    <2>2. DoneExact'
      BY <1>1, <1>6, <2>1, MaybeDoneExact
    <2>3. state' = "Running" <=> state = "Running"
      BY <1>6 DEF MaybeDone
    <2>4. Outstanding' = Outstanding \/ Outstanding' = Outstanding \ {r}
      BY <1>2, <1>3, <1>6
    <2>. QED
      BY <1>1, <1>6, <2>2, <2>3, <2>4 DEF IInv, Preserved, Same, Shrinks
  <1>. QED
    BY <1>4, <1>5, <1>6 DEF Barred

\* A step that touches neither the counters nor what they count.
LEMMA FrameIInv ==
  ASSUME IInv, TypeOK', UNCHANGED <<state, activeOps, adm, lease, pc, tracked>>
  PROVE  Preserved
  <1>1. Shape'
    BY DEF IInv, Shape, ShapeAt
  <1>2. AdmissionExact'
    BY DEF IInv, AdmissionExact
  <1>3. Outstanding' = Outstanding
    BY DEF Outstanding
  <1>4. DoneExact'
    BY <1>3 DEF IInv, DoneExact
  <1>. QED
    BY <1>1, <1>2, <1>3, <1>4 DEF IInv, Preserved, Same

\* What is in flight or leased is counted: the clamped decrements are exact.
LEMMA Positive ==
  ASSUME AdmissionExact, NEW r \in Resources
  PROVE  /\ pc[r] \in InOp => Less(activeOps) = activeOps - 1
         /\ r \in Conns =>
              /\ lease[r] = "opening" => Less(adm.opening) = adm.opening - 1
              /\ lease[r] = "active" => Less(adm.active) = adm.active - 1
              /\ lease[r] = "draining" => Less(adm.draining) = adm.draining - 1
              /\ pc[r] = "handshaking" => Less(adm.handshakes) = adm.handshakes - 1
  <1>1. Counts
    BY CountsDef
  <1>2. pc[r] \in InOp => Cardinality(Ops) > 0
    <2>1. Ops \in SUBSET Resources /\ (pc[r] \in InOp => r \in Ops)
      BY DEF Ops
    <2>. QED
      BY <2>1, ResourcesFinite, FiniteChange
  <1>3. ASSUME r \in Conns, NEW s, lease[r] = s PROVE Cardinality(InLease(s)) > 0
    <2>1. InLease(s) \in SUBSET Conns /\ r \in InLease(s)
      BY <1>3 DEF InLease
    <2>. QED
      BY <1>3, <2>1, ResourcesFinite, FiniteChange
  <1>4. ASSUME r \in Conns, pc[r] = "handshaking" PROVE Cardinality(Shaking) > 0
    <2>1. Shaking \in SUBSET Conns /\ r \in Shaking
      BY <1>4 DEF Shaking
    <2>. QED
      BY <1>4, <2>1, ResourcesFinite, FiniteChange
  <1>. QED
    BY <1>1, <1>2, <1>3, <1>4 DEF Counts, Less

PcType == [Resources -> InOp \cup {"idle", "accepted", "out"}]
LeaseType == [Conns -> Live \cup {"none", "released"}]

LEMMA PcStep ==
  ASSUME TypeOK, NEW r \in Resources, NEW label \in InOp \cup {"idle", "accepted", "out"},
         Goto(r, label)
  PROVE  /\ pc' \in PcType
         /\ pc'[r] = label
         /\ \A q \in Resources \ {r} : pc'[q] = pc[q]
  BY DEF TypeOK, PcType, Goto

LEMMA LeaseStep ==
  ASSUME TypeOK, NEW k \in Conns, NEW s \in Live \cup {"none", "released"},
         lease' = [lease EXCEPT ![k] = s]
  PROVE  /\ lease' \in LeaseType
         /\ lease'[k] = s
         /\ \A q \in Conns \ {k} : lease'[q] = lease[q]
  BY DEF TypeOK, LeaseType

LEMMA MaybeDoneTyped ==
  ASSUME NEW s \in EngineState, NEW n, NEW S, NEW a
  PROVE  MaybeDone(s, n, S, a) \in EngineState
  BY DEF MaybeDone, EngineState

\* The types, taken apart for the steps of operations and sessions.
LEMMA Typed ==
  ASSUME TypeOK
  PROVE  /\ state \in EngineState /\ activeOps \in Nat /\ adm \in Controller
         /\ lease \in LeaseType /\ pc \in PcType
         /\ tracked \in SUBSET Resources /\ closing \in SUBSET Listeners
         /\ adm.opening \in Nat /\ adm.active \in Nat /\ adm.draining \in Nat
         /\ adm.handshakes \in Nat
  <1>1. /\ state \in EngineState /\ activeOps \in Nat /\ adm \in Controller
        /\ lease \in LeaseType /\ pc \in PcType
        /\ tracked \in SUBSET Resources /\ closing \in SUBSET Listeners
    BY DEF TypeOK, LeaseType, PcType
  <1>. QED
    BY <1>1 DEF Controller

LEMMA OpTyped ==
  ASSUME TypeOK,
         state' \in EngineState, activeOps' \in Nat, adm' \in Controller,
         lease' \in LeaseType, pc' \in PcType,
         tracked' \in SUBSET Resources, closing' \in SUBSET Listeners,
         UNCHANGED <<reason, shutdownErr, asked, callVars>>
  PROVE  TypeOK'
  BY DEF TypeOK, LeaseType, PcType, callVars

----------------------------------------------------------------------------
(* The initial state and the steps of an operation.                        *)

LEMMA InitIInv == Init => IInv
  <1>. SUFFICES ASSUME Init PROVE IInv
    OBVIOUS
  <1>1. TypeOK
    <2>1. adm \in Controller
      BY DEF Init, Controller, NewController
    <2>. QED
      BY <2>1, Zenon DEF Init, TypeOK, EngineState
  <1>2. Shape
    BY DEF Init, Shape, ShapeAt, NewController, Resources
  <1>3. /\ Ops = {} /\ Shaking = {}
        /\ InLease("opening") = {} /\ InLease("active") = {} /\ InLease("draining") = {}
    BY DEF Init, Ops, Shaking, InLease, Resources, InOp
  <1>4. AdmissionExact
    <2>1. /\ activeOps = 0 /\ adm.opening = 0 /\ adm.active = 0
          /\ adm.draining = 0 /\ adm.handshakes = 0
      BY DEF Init, NewController
    <2>2. Cardinality({}) = 0
      BY FS_EmptySet
    <2>. QED
      BY <1>3, <2>1, <2>2, CountsDef, Zenon DEF Counts
  <1>5. DoneExact
    BY DEF Init, DoneExact
  <1>. QED
    BY <1>1, <1>2, <1>4, <1>5 DEF IInv

\* A step of an operation that only moves on: no counter and no lease changes,
\* the resource may become tracked, and the operation is in flight before and
\* after.
LEMMA MoveIInv ==
  ASSUME IInv, NEW r \in Resources, NEW label \in InOp \ {"handshaking"},
         pc[r] \in InOp \ {"handshaking"}, Goto(r, label), closing' \in SUBSET Listeners,
         tracked' \in {tracked, tracked \cup {r}}, ShapeAt(r)',
         UNCHANGED <<state, reason, shutdownErr, activeOps, adm, lease, asked, callVars>>
  PROVE  Preserved
  <1>1. /\ pc' \in PcType /\ pc'[r] = label
        /\ \A q \in Resources \ {r} : pc'[q] = pc[q]
    BY PcStep DEF IInv
  <1>2. TypeOK'
    <2>1. tracked' \in SUBSET Resources
      BY Typed DEF IInv
    <2>. QED
      BY <1>1, <2>1, Typed, OpTyped DEF IInv
  <1>3. Only(r)
    BY <1>1 DEF Only
  <1>4. Counted(r)
    BY <1>1 DEF Counted, Follows
  <1>5. Barred(r)
    BY <1>1 DEF Barred, Outstanding
  <1>. QED
    BY <1>2, <1>3, <1>4, <1>5, StepIInv

\* beginOp.
LEMMA BeginOpIInv ==
  ASSUME IInv, NEW r \in Resources, BeginOp(r)
  PROVE  Preserved
  <1>1. /\ pc[r] \in {"idle", "accepted"}
        /\ UNCHANGED <<state, reason, shutdownErr, adm, lease, tracked, closing, asked, callVars>>
    BY DEF BeginOp
  <1>2. /\ r \notin tracked
        /\ r \in Conns => lease[r] \notin Live
    BY <1>1 DEF IInv, Shape, ShapeAt, Live
  <1>3. PICK label \in {"op", "out"} :
           /\ Goto(r, label)
           /\ label = "op" => Admitting /\ activeOps' = activeOps + 1
           /\ label = "out" => activeOps' = activeOps
    BY DEF BeginOp
  <1>4. /\ pc' \in PcType /\ pc'[r] = label
        /\ \A q \in Resources \ {r} : pc'[q] = pc[q]
    BY <1>3, PcStep DEF IInv, InOp
  <1>5. TypeOK'
    BY <1>1, <1>3, <1>4, Typed, OpTyped DEF IInv
  <1>6. Only(r) /\ ShapeAt(r)'
    BY <1>1, <1>2, <1>4 DEF Only, ShapeAt, Live
  <1>7. Counted(r)
    BY <1>1, <1>3, <1>4 DEF Counted, Follows, InOp
  <1>8. Barred(r)
    BY <1>1, <1>2, <1>3, <1>4 DEF Barred, Outstanding, Admitting, InOp
  <1>. QED
    BY <1>5, <1>6, <1>7, <1>8, StepIInv

LEMMA OpenFailsIInv ==
  ASSUME IInv, NEW r \in Resources, OpenFails(r)
  PROVE  Preserved
  <1>1. /\ pc[r] = "op" /\ Goto(r, "leaving")
        /\ UNCHANGED <<state, reason, shutdownErr, activeOps, adm, lease, tracked, closing,
                       asked, callVars>>
    BY DEF OpenFails, engineVars
  <1>2. pc'[r] = "leaving"
    BY <1>1, PcStep DEF IInv, InOp
  <1>3. ShapeAt(r)'
    BY <1>1, <1>2 DEF IInv, Shape, ShapeAt
  <1>. QED
    BY <1>1, <1>3, MoveIInv, Typed DEF IInv, InOp

\* addStreamListener.
LEMMA AddListenerIInv ==
  ASSUME IInv, NEW l \in Listeners, AddListener(l)
  PROVE  Preserved
  <1>1. l \in Resources /\ l \notin Conns
    BY EngineAssumption DEF Resources
  <1>2. /\ pc[l] = "op" /\ Goto(l, "leaving")
        /\ tracked' \in {tracked, tracked \cup {l}}
        /\ UNCHANGED <<state, reason, shutdownErr, activeOps, adm, lease, closing, asked,
                       callVars>>
    BY DEF AddListener, engineVars
  <1>3. pc'[l] = "leaving"
    BY <1>1, <1>2, PcStep DEF IInv, InOp
  <1>4. ShapeAt(l)'
    BY <1>1, <1>3 DEF ShapeAt
  <1>. QED
    BY <1>1, <1>2, <1>4, MoveIInv, Typed DEF IInv, InOp

\* acquireOpening.
LEMMA AcquireOpeningIInv ==
  ASSUME IInv, NEW k \in Conns, AcquireOpening(k)
  PROVE  Preserved
  <1>0. k \in Resources /\ TypeOK /\ adm \in Controller
    BY ConnsAreResources, Typed DEF IInv
  <1>1. /\ pc[k] = "op"
        /\ UNCHANGED <<state, reason, shutdownErr, activeOps, tracked, closing, asked, callVars>>
    BY DEF AcquireOpening
  <1>2. lease[k] \notin Live /\ k \notin tracked
    BY <1>0, <1>1 DEF IInv, Shape, ShapeAt, Live
  <1>3. CASE Goto(k, "leaving") /\ UNCHANGED <<adm, lease>>
    <2>1. pc'[k] = "leaving"
      BY <1>0, <1>3, PcStep DEF InOp
    <2>2. ShapeAt(k)'
      BY <1>1, <1>2, <1>3, <2>1 DEF ShapeAt, Live
    <2>. QED
      BY <1>0, <1>1, <1>3, <2>2, MoveIInv, Typed DEF InOp
  <1>4. ASSUME NEW label \in {"opening", "adopting"}, Goto(k, label),
               adm' = Opened(adm, PeerOf[k]), lease' = [lease EXCEPT ![k] = "opening"]
        PROVE  Preserved
    <2>1. /\ pc' \in PcType /\ pc'[k] = label
          /\ \A q \in Resources \ {k} : pc'[q] = pc[q]
      BY <1>0, <1>4, PcStep DEF InOp
    <2>2. /\ lease' \in LeaseType /\ lease'[k] = "opening"
          /\ \A q \in Conns \ {k} : lease'[q] = lease[q]
      BY <1>0, <1>4, LeaseStep DEF Live
    <2>3. /\ adm' \in Controller
          /\ adm'.opening = adm.opening + 1 /\ adm'.active = adm.active
          /\ adm'.draining = adm.draining /\ adm'.handshakes = adm.handshakes
          /\ adm'.upgrades = adm.upgrades
      BY <1>0, <1>4, ControllerTyped, OpenedCounters
    <2>4. TypeOK'
      BY <1>0, <1>1, <2>1, <2>2, <2>3, Typed, OpTyped
    <2>5. Only(k) /\ ShapeAt(k)'
      BY <1>1, <1>2, <2>1, <2>2 DEF Only, ShapeAt
    <2>6. Counted(k)
      BY <1>0, <1>1, <1>2, <2>1, <2>2, <2>3 DEF Counted, Follows, InOp, Live
    <2>7. Barred(k)
      BY <1>0, <1>1, <2>1 DEF Barred, Outstanding, InOp
    <2>. QED
      BY <1>0, <2>4, <2>5, <2>6, <2>7, StepIInv
  <1>. QED
    BY <1>3, <1>4 DEF AcquireOpening

\* acquireHandshake.
LEMMA AcquireHandshakeIInv ==
  ASSUME IInv, NEW k \in Conns, AcquireHandshake(k)
  PROVE  Preserved
  <1>0. k \in Resources /\ TypeOK /\ adm \in Controller
    BY ConnsAreResources, Typed DEF IInv
  <1>1. /\ pc[k] = "opening"
        /\ UNCHANGED <<state, reason, shutdownErr, activeOps, lease, tracked, closing, asked,
                       callVars>>
    BY DEF AcquireHandshake
  <1>2. lease[k] = "opening" /\ k \notin tracked
    BY <1>0, <1>1 DEF IInv, Shape, ShapeAt
  <1>3. CASE Goto(k, "undo") /\ UNCHANGED adm
    <2>1. pc'[k] = "undo"
      BY <1>0, <1>3, PcStep DEF InOp
    <2>2. ShapeAt(k)'
      BY <1>1, <1>2, <2>1 DEF ShapeAt
    <2>. QED
      BY <1>0, <1>1, <1>3, <2>2, MoveIInv, Typed DEF InOp
  <1>4. CASE Goto(k, "handshaking") /\ adm' = HandshakeTaken(adm)
    <2>1. /\ pc' \in PcType /\ pc'[k] = "handshaking"
          /\ \A q \in Resources \ {k} : pc'[q] = pc[q]
      BY <1>0, <1>4, PcStep DEF InOp
    <2>2. /\ adm' \in Controller
          /\ adm'.opening = adm.opening /\ adm'.active = adm.active
          /\ adm'.draining = adm.draining /\ adm'.handshakes = adm.handshakes + 1
          /\ adm'.upgrades = adm.upgrades
      BY <1>0, <1>4, ControllerTyped, HandshakeCounters
    <2>3. TypeOK'
      BY <1>0, <1>1, <2>1, <2>2, Typed, OpTyped
    <2>4. Only(k) /\ ShapeAt(k)'
      BY <1>1, <1>2, <2>1 DEF Only, ShapeAt
    <2>5. Counted(k)
      BY <1>0, <1>1, <1>2, <2>1, <2>2 DEF Counted, Follows, InOp
    <2>6. Barred(k)
      BY <1>0, <1>1, <2>1 DEF Barred, Outstanding, InOp
    <2>. QED
      BY <1>0, <2>3, <2>4, <2>5, <2>6, StepIInv
  <1>. QED
    BY <1>3, <1>4 DEF AcquireHandshake

\* engineActivityLease.release.
LEMMA EndHandshakeIInv ==
  ASSUME IInv, NEW k \in Conns, EndHandshake(k)
  PROVE  Preserved
  <1>0. k \in Resources /\ TypeOK /\ adm \in Controller
    BY ConnsAreResources, Typed DEF IInv
  <1>1. /\ pc[k] = "handshaking"
        /\ adm' = HandshakeReturned(adm)
        /\ state' = MaybeDone(state, activeOps', tracked', adm')
        /\ UNCHANGED <<reason, shutdownErr, activeOps, lease, tracked, closing, asked, callVars>>
    BY DEF EndHandshake
  <1>2. lease[k] = "opening" /\ k \notin tracked
    BY <1>0, <1>1 DEF IInv, Shape, ShapeAt
  <1>3. PICK label \in {"adopting", "undo"} : Goto(k, label)
    BY DEF EndHandshake
  <1>4. /\ pc' \in PcType /\ pc'[k] = label
        /\ \A q \in Resources \ {k} : pc'[q] = pc[q]
    BY <1>0, <1>3, PcStep DEF InOp
  <1>5. /\ adm' \in Controller
        /\ adm'.opening = adm.opening /\ adm'.active = adm.active
        /\ adm'.draining = adm.draining /\ adm'.handshakes = Less(adm.handshakes)
        /\ adm'.upgrades = adm.upgrades
    BY <1>0, <1>1, ControllerTyped, HandshakeCounters
  <1>6. state' \in EngineState
    BY <1>0, <1>1, MaybeDoneTyped, Typed
  <1>7. TypeOK'
    BY <1>0, <1>1, <1>4, <1>5, <1>6, Typed, OpTyped
  <1>8. Only(k) /\ ShapeAt(k)'
    BY <1>1, <1>2, <1>4 DEF Only, ShapeAt
  <1>9. Less(adm.handshakes) = adm.handshakes - 1
    BY <1>0, <1>1, Positive DEF IInv
  <1>10. Counted(k)
    BY <1>0, <1>1, <1>2, <1>4, <1>5, <1>9 DEF Counted, Follows, InOp
  <1>11. Barred(k)
    <2>1. k \in Outstanding
      BY <1>0, <1>1 DEF Outstanding, InOp
    <2>. QED
      BY <1>1, <2>1 DEF Barred
  <1>. QED
    BY <1>0, <1>7, <1>8, <1>10, <1>11, StepIInv

\* addStreamWithLease.
LEMMA AdoptStreamIInv ==
  ASSUME IInv, NEW k \in Conns, AdoptStream(k)
  PROVE  Preserved
  <1>0. k \in Resources /\ TypeOK /\ adm \in Controller
    BY ConnsAreResources, Typed DEF IInv
  <1>1. /\ pc[k] = "adopting"
        /\ UNCHANGED <<state, reason, shutdownErr, activeOps, asked, callVars>>
    BY DEF AdoptStream
  <1>2. lease[k] = "opening" /\ k \notin tracked
    BY <1>0, <1>1 DEF IInv, Shape, ShapeAt
  <1>3. CASE Goto(k, "undo") /\ UNCHANGED <<adm, lease, tracked>>
    <2>1. closing' \in SUBSET Listeners
      <3>1. closing' = closing \/ (Accepted(k) /\ closing' = closing \cup {ListenerOf[k]})
        BY DEF AdoptStream
      <3>. QED
        BY <1>0, <3>1, EngineAssumption, Typed
    <2>2. pc'[k] = "undo"
      BY <1>0, <1>3, PcStep DEF InOp
    <2>3. ShapeAt(k)'
      BY <1>1, <1>2, <1>3, <2>2 DEF ShapeAt
    <2>. QED
      BY <1>0, <1>1, <1>3, <2>1, <2>3, MoveIInv DEF InOp
  <1>4. CASE /\ Admitting
             /\ adm' = Activated(adm)
             /\ lease' = [lease EXCEPT ![k] = "active"]
             /\ tracked' = tracked \cup {k}
             /\ Goto(k, "leaving")
             /\ UNCHANGED closing
    <2>1. /\ pc' \in PcType /\ pc'[k] = "leaving"
          /\ \A q \in Resources \ {k} : pc'[q] = pc[q]
      BY <1>0, <1>4, PcStep DEF InOp
    <2>2. /\ lease' \in LeaseType /\ lease'[k] = "active"
          /\ \A q \in Conns \ {k} : lease'[q] = lease[q]
      BY <1>0, <1>4, LeaseStep DEF Live
    <2>3. /\ adm' \in Controller
          /\ adm'.opening = Less(adm.opening) /\ adm'.active = adm.active + 1
          /\ adm'.draining = adm.draining /\ adm'.handshakes = adm.handshakes
          /\ adm'.upgrades = adm.upgrades
      BY <1>0, <1>4, ControllerTyped, ActivatedCounters
    <2>4. tracked' \in SUBSET Resources
      BY <1>0, <1>4, Typed
    <2>5. TypeOK'
      BY <1>0, <1>1, <1>4, <2>1, <2>2, <2>3, <2>4, Typed, OpTyped
    <2>6. Only(k) /\ ShapeAt(k)'
      BY <1>4, <2>1, <2>2 DEF Only, ShapeAt
    <2>7. Less(adm.opening) = adm.opening - 1
      BY <1>0, <1>2, Positive DEF IInv
    <2>8. Counted(k)
      BY <1>0, <1>1, <1>2, <2>1, <2>2, <2>3, <2>7 DEF Counted, Follows, InOp
    <2>9. Barred(k)
      BY <1>1, <1>4 DEF Barred, Admitting
    <2>. QED
      BY <1>0, <2>5, <2>6, <2>8, <2>9, StepIInv
  <1>. QED
    BY <1>3, <1>4 DEF AdoptStream

\* The deferred lease.release of a failed operation.
LEMMA ReleaseLeaseIInv ==
  ASSUME IInv, NEW k \in Conns, ReleaseLease(k)
  PROVE  Preserved
  <1>0. k \in Resources /\ TypeOK /\ adm \in Controller
    BY ConnsAreResources, Typed DEF IInv
  <1>1. /\ pc[k] = "undo"
        /\ adm' = Released(adm, lease[k], PeerOf[k])
        /\ lease' = [lease EXCEPT ![k] = "released"]
        /\ Goto(k, "leaving")
        /\ UNCHANGED <<state, reason, shutdownErr, activeOps, tracked, closing, asked, callVars>>
    BY DEF ReleaseLease
  <1>2. lease[k] = "opening" /\ k \notin tracked
    BY <1>0, <1>1 DEF IInv, Shape, ShapeAt
  <1>3. /\ pc' \in PcType /\ pc'[k] = "leaving"
        /\ \A q \in Resources \ {k} : pc'[q] = pc[q]
    BY <1>0, <1>1, PcStep DEF InOp
  <1>4. /\ lease' \in LeaseType /\ lease'[k] = "released"
        /\ \A q \in Conns \ {k} : lease'[q] = lease[q]
    BY <1>0, <1>1, LeaseStep
  <1>5. /\ adm' \in Controller
        /\ adm'.opening = Less(adm.opening) /\ adm'.active = adm.active
        /\ adm'.draining = adm.draining /\ adm'.handshakes = adm.handshakes
        /\ adm'.upgrades = adm.upgrades
    <2>1. adm' \in Controller
      BY <1>0, <1>1, ControllerTyped
    <2>2. adm \in Controller /\ adm' = Released(adm, lease[k], PeerOf[k])
      BY <1>0, <1>1
    <2>. QED
      BY <1>2, <2>1, <2>2, ReleasedCounters
  <1>6. TypeOK'
    BY <1>0, <1>1, <1>3, <1>4, <1>5, Typed, OpTyped
  <1>7. Only(k) /\ ShapeAt(k)'
    BY <1>1, <1>2, <1>3, <1>4 DEF Only, ShapeAt
  <1>8. Less(adm.opening) = adm.opening - 1
    BY <1>0, <1>2, Positive DEF IInv
  <1>9. Counted(k)
    BY <1>0, <1>1, <1>2, <1>3, <1>4, <1>5, <1>8 DEF Counted, Follows, InOp
  <1>10. Barred(k)
    BY <1>0, <1>1, <1>3 DEF Barred, Outstanding, InOp
  <1>. QED
    BY <1>0, <1>6, <1>7, <1>9, <1>10, StepIInv

\* addPacket.
LEMMA AddPacketIInv ==
  ASSUME IInv, NEW k \in Conns, AddPacket(k)
  PROVE  Preserved
  <1>0. k \in Resources /\ TypeOK /\ adm \in Controller
    BY ConnsAreResources, Typed DEF IInv
  <1>1. /\ pc[k] = "op" /\ Goto(k, "leaving")
        /\ UNCHANGED <<state, reason, shutdownErr, activeOps, closing, asked, callVars>>
    BY DEF AddPacket
  <1>2. lease[k] \notin Live /\ k \notin tracked
    BY <1>0, <1>1 DEF IInv, Shape, ShapeAt, Live
  <1>3. /\ pc' \in PcType /\ pc'[k] = "leaving"
        /\ \A q \in Resources \ {k} : pc'[q] = pc[q]
    BY <1>0, <1>1, PcStep DEF InOp
  <1>4. CASE ~ (Admitting /\ MayOpen(adm, PeerOf[k]))
    <2>1. UNCHANGED <<adm, lease, tracked>>
      BY <1>4 DEF AddPacket
    <2>2. ShapeAt(k)'
      BY <1>2, <1>3, <2>1 DEF ShapeAt, Live
    <2>. QED
      BY <1>0, <1>1, <2>1, <2>2, MoveIInv, Typed DEF InOp
  <1>5. CASE Admitting /\ MayOpen(adm, PeerOf[k])
    <2>. DEFINE a == Opened(adm, PeerOf[k])
    <2>1. /\ adm' = Activated(a)
          /\ lease' = [lease EXCEPT ![k] = "active"]
          /\ tracked' = tracked \cup {k}
      BY <1>5 DEF AddPacket
    <2>2. /\ a \in Controller
          /\ a.opening = adm.opening + 1 /\ a.active = adm.active
          /\ a.draining = adm.draining /\ a.handshakes = adm.handshakes
          /\ a.upgrades = adm.upgrades
      BY <1>0, ControllerTyped, OpenedCounters
    <2>. HIDE DEF a
    <2>3. /\ adm' \in Controller
          /\ adm'.opening = Less(a.opening) /\ adm'.active = a.active + 1
          /\ adm'.draining = a.draining /\ adm'.handshakes = a.handshakes
          /\ adm'.upgrades = a.upgrades
      BY <2>1, <2>2, ControllerTyped, ActivatedCounters
    <2>4. /\ lease' \in LeaseType /\ lease'[k] = "active"
          /\ \A q \in Conns \ {k} : lease'[q] = lease[q]
      BY <1>0, <2>1, LeaseStep DEF Live
    <2>5. tracked' \in SUBSET Resources
      BY <1>0, <2>1, Typed
    <2>6. TypeOK'
      BY <1>0, <1>1, <1>3, <2>3, <2>4, <2>5, Typed, OpTyped
    <2>7. Only(k) /\ ShapeAt(k)'
      BY <1>3, <2>1, <2>4 DEF Only, ShapeAt
    <2>8. adm'.opening = adm.opening
      BY <1>0, <2>2, <2>3, Typed DEF Less
    <2>9. Counted(k)
      BY <1>0, <1>1, <1>2, <1>3, <2>2, <2>3, <2>4, <2>8 DEF Counted, Follows, InOp, Live
    <2>10. Barred(k)
      BY <1>1, <1>5 DEF Barred, Admitting
    <2>. QED
      BY <1>0, <2>6, <2>7, <2>9, <2>10, StepIInv
  <1>. QED
    BY <1>4, <1>5

\* endOp.
LEMMA EndOpIInv ==
  ASSUME IInv, NEW r \in Resources, EndOp(r)
  PROVE  Preserved
  <1>0. TypeOK
    BY DEF IInv
  <1>1. /\ pc[r] = "leaving" /\ Goto(r, "out")
        /\ activeOps' = Less(activeOps)
        /\ state' = MaybeDone(state, activeOps', tracked', adm')
        /\ UNCHANGED <<reason, shutdownErr, adm, lease, tracked, closing, asked, callVars>>
    BY DEF EndOp
  <1>2. /\ pc' \in PcType /\ pc'[r] = "out"
        /\ \A q \in Resources \ {r} : pc'[q] = pc[q]
    BY <1>0, <1>1, PcStep
  <1>3. Less(activeOps) = activeOps - 1 /\ Less(activeOps) \in Nat
    <2>1. Less(activeOps) = activeOps - 1
      BY <1>1, Positive DEF IInv, InOp
    <2>2. Less(activeOps) \in Nat
      BY <1>0, Typed DEF Less
    <2>. QED
      BY <2>1, <2>2
  <1>4. state' \in EngineState
    BY <1>0, <1>1, MaybeDoneTyped, Typed
  <1>5. TypeOK'
    <2>1. activeOps' \in Nat
      BY <1>1, <1>3
    <2>. QED
      BY <1>0, <1>1, <1>2, <1>4, <2>1, Typed, OpTyped
  <1>6. Only(r) /\ ShapeAt(r)'
    BY <1>1, <1>2 DEF Only, ShapeAt, IInv, Shape
  <1>7. Counted(r)
    BY <1>0, <1>1, <1>2, <1>3 DEF Counted, Follows, InOp
  <1>8. Barred(r)
    <2>1. r \in Outstanding
      BY <1>1 DEF Outstanding, InOp
    <2>. QED
      BY <1>1, <2>1 DEF Barred
  <1>. QED
    BY <1>5, <1>6, <1>7, <1>8, StepIInv

\* removeStream and removePacket.
LEMMA RemoveSessionIInv ==
  ASSUME IInv, NEW k \in Conns, RemoveSession(k)
  PROVE  Preserved
  <1>0. k \in Resources /\ TypeOK /\ adm \in Controller
    BY ConnsAreResources, Typed DEF IInv
  <1>1. /\ k \in tracked
        /\ tracked' = tracked \ {k}
        /\ adm' = Released(adm, lease[k], PeerOf[k])
        /\ lease' = [lease EXCEPT ![k] = "released"]
        /\ state' = MaybeDone(state, activeOps', tracked', adm')
        /\ UNCHANGED <<reason, shutdownErr, activeOps, pc, closing, asked, callVars>>
    BY DEF RemoveSession
  <1>2. lease[k] \in {"active", "draining"}
    BY <1>0, <1>1 DEF IInv, Shape, ShapeAt
  <1>3. /\ lease' \in LeaseType /\ lease'[k] = "released"
        /\ \A q \in Conns \ {k} : lease'[q] = lease[q]
    BY <1>0, <1>1, LeaseStep
  <1>4. /\ adm' \in Controller
        /\ adm'.opening = adm.opening
        /\ lease[k] = "active" => adm'.active = Less(adm.active) /\ adm'.draining = adm.draining
        /\ lease[k] = "draining" => adm'.active = adm.active /\ adm'.draining = Less(adm.draining)
        /\ adm'.handshakes = adm.handshakes
        /\ adm'.upgrades = adm.upgrades
    <2>1. adm' \in Controller
      BY <1>0, <1>1, ControllerTyped
    <2>2. adm \in Controller /\ adm' = Released(adm, lease[k], PeerOf[k])
      BY <1>0, <1>1
    <2>. QED
      BY <1>2, <2>1, <2>2, ReleasedCounters
  <1>5. state' \in EngineState /\ tracked' \in SUBSET Resources
    BY <1>0, <1>1, MaybeDoneTyped, Typed
  <1>6. TypeOK'
    BY <1>0, <1>1, <1>3, <1>4, <1>5, Typed, OpTyped
  <1>7. Only(k)
    BY <1>1, <1>3 DEF Only
  <1>8. ShapeAt(k)'
    BY <1>0, <1>1, <1>2, <1>3 DEF ShapeAt, IInv, Shape
  <1>9. /\ lease[k] = "active" => Less(adm.active) = adm.active - 1
        /\ lease[k] = "draining" => Less(adm.draining) = adm.draining - 1
    BY <1>0, Positive DEF IInv
  <1>10. Counted(k)
    BY <1>0, <1>1, <1>2, <1>3, <1>4, <1>9 DEF Counted, Follows
  <1>11. Barred(k)
    <2>1. k \in Outstanding
      BY <1>0, <1>1 DEF Outstanding
    <2>. QED
      BY <1>1, <2>1 DEF Barred
  <1>. QED
    BY <1>0, <1>6, <1>7, <1>8, <1>10, <1>11, StepIInv

\* removeStreamListener.
LEMMA FinalizeListenerIInv ==
  ASSUME IInv, NEW l \in Listeners, FinalizeListener(l)
  PROVE  Preserved
  <1>0. l \in Resources /\ l \notin Conns /\ TypeOK
    BY EngineAssumption DEF Resources, IInv
  <1>1. /\ l \in tracked
        /\ tracked' = tracked \ {l}
        /\ state' = MaybeDone(state, activeOps', tracked', adm')
        /\ UNCHANGED <<reason, shutdownErr, activeOps, adm, lease, pc, closing, asked, callVars>>
    BY DEF FinalizeListener
  <1>2. state' \in EngineState /\ tracked' \in SUBSET Resources
    BY <1>0, <1>1, MaybeDoneTyped, Typed
  <1>3. TypeOK'
    BY <1>0, <1>1, <1>2, Typed, OpTyped
  <1>4. Only(l) /\ ShapeAt(l)'
    BY <1>0, <1>1 DEF Only, ShapeAt
  <1>5. Counted(l)
    BY <1>0, <1>1 DEF Counted, Follows
  <1>6. Barred(l)
    <2>1. l \in Outstanding
      BY <1>0, <1>1 DEF Outstanding
    <2>. QED
      BY <1>1, <2>1 DEF Barred
  <1>. QED
    BY <1>0, <1>3, <1>4, <1>5, <1>6, StepIInv

----------------------------------------------------------------------------
(* The steps of Shutdown and Close.                                        *)

CallerType ==
    /\ cpc \in [Callers -> {"idle", "request", "fail", "abort", "closeAll",
                            "wait", "returned"}]
    /\ owner \in [Callers -> BOOLEAN]
    /\ todo \in [Callers -> SUBSET Resources]
    /\ errs \in [Callers -> BOOLEAN]
    /\ result \in [Callers -> {"none", "nil", "closed", "cause", "error", "aborted"}]

LEMMA CallerTyped ==
  ASSUME TypeOK
  PROVE  /\ CallerType
         /\ reason \in {"none", "explicit", "caller", "failure"}
         /\ shutdownErr \in BOOLEAN
         /\ asked \in [Conns -> {"no", "drain", "abort"}]
  BY DEF TypeOK, CallerType

LEMMA CallTyped ==
  ASSUME TypeOK, state' \in EngineState, adm' \in Controller, lease' \in LeaseType,
         reason' \in {"none", "explicit", "caller", "failure"}, shutdownErr' \in BOOLEAN,
         closing' \in SUBSET Listeners, asked' \in [Conns -> {"no", "drain", "abort"}],
         CallerType', UNCHANGED <<activeOps, pc, tracked>>
  PROVE  TypeOK'
  BY DEF TypeOK, CallerType, LeaseType

\* A step of a call that changes neither the state nor a counter.
LEMMA CallFrameIInv ==
  ASSUME IInv, CallerType', reason' = reason, shutdownErr' \in BOOLEAN,
         closing' \in SUBSET Listeners, asked' \in [Conns -> {"no", "drain", "abort"}],
         UNCHANGED <<state, activeOps, adm, lease, pc, tracked>>
  PROVE  Preserved
  <1>1. TypeOK'
    BY CallTyped, CallerTyped, Typed DEF IInv
  <1>. QED
    BY <1>1, FrameIInv

\* What a call writes to its own row.
LEMMA CallStepTyped ==
  ASSUME CallerType, NEW c \in Callers
  PROVE  /\ \A label \in {"request", "fail", "abort", "closeAll", "wait", "returned"} :
              [cpc EXCEPT ![c] = label] \in [Callers -> {"idle", "request", "fail", "abort",
                                                         "closeAll", "wait", "returned"}]
         /\ \A b \in BOOLEAN : /\ [owner EXCEPT ![c] = b] \in [Callers -> BOOLEAN]
                               /\ [errs EXCEPT ![c] = b] \in [Callers -> BOOLEAN]
         /\ \A S \in SUBSET Resources : [todo EXCEPT ![c] = S] \in [Callers -> SUBSET Resources]
         /\ \A x : [todo EXCEPT ![c] = @ \ {x}] \in [Callers -> SUBSET Resources]
         /\ \A s \in {"nil", "closed", "cause", "error", "aborted"} :
              [result EXCEPT ![c] = s] \in [Callers -> {"none", "nil", "closed", "cause",
                                                        "error", "aborted"}]
  <1>1. \A label \in {"request", "fail", "abort", "closeAll", "wait", "returned"} :
          [cpc EXCEPT ![c] = label] \in [Callers -> {"idle", "request", "fail", "abort",
                                                     "closeAll", "wait", "returned"}]
    BY DEF CallerType
  <1>2. \A b \in BOOLEAN : /\ [owner EXCEPT ![c] = b] \in [Callers -> BOOLEAN]
                           /\ [errs EXCEPT ![c] = b] \in [Callers -> BOOLEAN]
    BY DEF CallerType
  <1>3. /\ \A S \in SUBSET Resources : [todo EXCEPT ![c] = S] \in [Callers -> SUBSET Resources]
        /\ \A x : [todo EXCEPT ![c] = @ \ {x}] \in [Callers -> SUBSET Resources]
    BY DEF CallerType
  <1>4. \A s \in {"nil", "closed", "cause", "error", "aborted"} :
          [result EXCEPT ![c] = s] \in [Callers -> {"none", "nil", "closed", "cause",
                                                    "error", "aborted"}]
    BY DEF CallerType
  <1>. QED
    BY <1>1, <1>2, <1>3, <1>4, Zenon

\* A caller that only returns.
LEMMA ReturnIInv ==
  ASSUME IInv, NEW c \in Callers, NEW s \in {"nil", "closed", "cause", "error", "aborted"},
         Return(c, s), UNCHANGED <<engineVars, connVars, owner, todo, errs>>
  PROVE  Preserved
  <1>1. TypeOK /\ CallerType
    BY CallerTyped DEF IInv
  <1>2. /\ UNCHANGED <<state, reason, shutdownErr, activeOps, adm>>
        /\ UNCHANGED <<lease, pc, tracked, closing, asked>>
    BY DEF engineVars, connVars
  <1>3. CallerType'
    BY <1>1, CallStepTyped DEF Return, Call, CallerType
  <1>. QED
    BY <1>1, <1>2, <1>3, CallFrameIInv, CallerTyped, Typed

\* beginAbort.
LEMMA BeginAbortIInv ==
  ASSUME IInv, NEW c \in Callers, NEW why \in {"explicit", "caller", "failure"},
         NEW label \in {"abort", "closeAll"}, BeginAbort(c, why, label)
  PROVE  Preserved
  <1>0. TypeOK /\ CallerType /\ "Aborting" \in EngineState \ {"Done"}
    BY CallerTyped DEF IInv, EngineState
  <1>1. /\ state' = MaybeDone("Aborting", activeOps', tracked', adm')
        /\ reason' \in {reason, why}
        /\ cpc' = [cpc EXCEPT ![c] = label]
        /\ todo' = [todo EXCEPT ![c] = tracked]
        /\ UNCHANGED <<shutdownErr, activeOps, adm, lease, pc, tracked, closing, asked,
                       owner, errs, result>>
    BY DEF BeginAbort, Call, Snapshot, connVars
  <1>2. CallerType'
    BY <1>0, <1>1, CallStepTyped, Typed DEF CallerType
  <1>3. state' \in EngineState
    BY <1>0, <1>1, MaybeDoneTyped
  <1>4. TypeOK'
    BY <1>0, <1>1, <1>2, <1>3, CallTyped, CallerTyped, Typed
  <1>5. Shape'
    BY <1>1 DEF IInv, Shape, ShapeAt
  <1>6. AdmissionExact'
    BY <1>1 DEF IInv, AdmissionExact
  <1>7. DoneExact'
    BY <1>0, <1>1, <1>4, <1>5, <1>6, MaybeDoneExact
  <1>8. Outstanding' = Outstanding
    BY <1>1 DEF Outstanding
  <1>9. state' # "Running"
    BY <1>1 DEF MaybeDone
  <1>. QED
    BY <1>4, <1>5, <1>6, <1>7, <1>8, <1>9 DEF IInv, Preserved, Same, Stops

\* beginGracefulShutdown: all active leases become draining at once.
LEMMA BeginGracefulShutdownIInv ==
  ASSUME IInv, NEW c \in Callers, BeginGracefulShutdown(c)
  PROVE  Preserved
  <1>0. TypeOK /\ CallerType /\ "Draining" \in EngineState \ {"Done"}
    BY CallerTyped DEF IInv, EngineState
  <1>1. CASE state # "Running"
    <2>1. /\ cpc' = [cpc EXCEPT ![c] = "wait"]
          /\ UNCHANGED <<adm, lease, state, owner, todo>>
          /\ UNCHANGED <<reason, shutdownErr, activeOps, pc, tracked, closing, asked, errs, result>>
      BY <1>1 DEF BeginGracefulShutdown, Call
    <2>2. CallerType'
      BY <1>0, <2>1, CallStepTyped DEF CallerType
    <2>. QED
      BY <1>0, <2>1, <2>2, CallFrameIInv, CallerTyped, Typed
  <1>2. CASE state = "Running"
    <2>. DEFINE n == Cardinality(InLease("active"))
    <2>1. ToDrain = InLease("active")
      BY ConnsAreResources DEF ToDrain, InLease, IInv, Shape, ShapeAt
    <2>2. /\ n = adm.active /\ n \in Nat
          /\ adm.draining + n \in Nat /\ adm.active - n = 0
      BY <1>0, CountsDef, Typed DEF Counts, IInv
    <2>3. /\ adm' = [adm EXCEPT !.active = adm.active - n, !.draining = adm.draining + n]
          /\ lease' = [k \in Conns |-> IF k \in InLease("active") THEN "draining" ELSE lease[k]]
          /\ state' = MaybeDone("Draining", activeOps', tracked', adm')
          /\ UNCHANGED <<activeOps, pc, tracked, closing, asked, reason, shutdownErr>>
      BY <1>2, <2>1 DEF BeginGracefulShutdown
    <2>. HIDE DEF n
    <2>4. /\ adm' \in Controller
          /\ adm'.opening = adm.opening /\ adm'.active = 0
          /\ adm'.draining = adm.draining + n /\ adm'.handshakes = adm.handshakes
          /\ adm'.upgrades = adm.upgrades
      <3>1. PICK m \in Nat : m = adm.draining + n
        BY <2>2
      <3>2. adm' = [adm EXCEPT !.active = 0, !.draining = m]
        BY <2>2, <2>3, <3>1, Zenon
      <3>3. adm \in Controller /\ 0 \in Nat
        BY <1>0, Typed
      <3>4. adm' \in Controller
        BY <3>2, <3>3, Zenon DEF Controller
      <3>. QED
        BY <3>1, <3>2, <3>3, <3>4 DEF Controller
    <2>5. lease' \in LeaseType /\ \A k \in Conns :
             /\ lease[k] = "active" => lease'[k] = "draining"
             /\ lease[k] # "active" => lease'[k] = lease[k]
      BY <1>0, <2>3, Typed DEF LeaseType, Live, InLease
    <2>6. TypeOK'
      <3>1. state' \in EngineState
        BY <1>0, <2>3, MaybeDoneTyped
      <3>2. /\ cpc' = [cpc EXCEPT ![c] = "request"]
            /\ owner' = [owner EXCEPT ![c] = TRUE]
            /\ todo' = [todo EXCEPT ![c] = tracked]
            /\ UNCHANGED <<errs, result>>
        BY <1>2 DEF BeginGracefulShutdown, Call, Snapshot
      <3>3. CallerType'
        BY <1>0, <3>2, CallStepTyped, Typed DEF CallerType
      <3>. QED
        BY <1>0, <2>3, <2>4, <2>5, <3>1, <3>3, CallTyped, CallerTyped, Typed
    <2>7. Shape'
      <3>1. ASSUME NEW r \in Resources PROVE ShapeAt(r)'
        <4>1. ShapeAt(r) /\ pc'[r] = pc[r] /\ (r \in tracked' <=> r \in tracked)
          BY <2>3 DEF IInv, Shape
        <4>2. r \in Conns => /\ lease'[r] = "opening" <=> lease[r] = "opening"
                             /\ lease'[r] \in {"active", "draining"}
                                  <=> lease[r] \in {"active", "draining"}
          BY <2>5
        <4>. QED
          BY <4>1, <4>2 DEF ShapeAt
      <3>. QED
        BY <2>4, <3>1 DEF IInv, Shape
    <2>8. /\ InLease("opening")' = InLease("opening")
          /\ InLease("active")' = {}
          /\ InLease("draining")' = InLease("draining") \cup InLease("active")
      BY <2>5 DEF InLease
    <2>9. Ops' = Ops /\ Shaking' = Shaking
      BY <2>3 DEF Ops, Shaking
    <2>10. Cardinality(InLease("draining")') = adm.draining + n
      <3>1. InLease("draining") \cap InLease("active") = {}
        BY DEF InLease
      <3>2. IsFiniteSet(InLease("draining")) /\ IsFiniteSet(InLease("active"))
        BY ResourcesFinite, FS_Subset DEF InLease
      <3>3. Cardinality(InLease("draining") \cup InLease("active"))
              = Cardinality(InLease("draining")) + Cardinality(InLease("active"))
                  - Cardinality(InLease("draining") \cap InLease("active"))
        BY <3>2, FS_Union, Zenon
      <3>4. Cardinality(InLease("draining")) \in Nat /\ Cardinality(InLease("active")) \in Nat
        BY <3>2, FS_CardinalityType
      <3>5. Cardinality(InLease("draining") \cap InLease("active")) = 0
        BY <3>1, FS_EmptySet
      <3>6. Cardinality(InLease("draining")) = adm.draining /\ Cardinality(InLease("active")) = n
        BY CountsDef DEF Counts, n, IInv
      <3>7. Cardinality(InLease("draining") \cup InLease("active")) = adm.draining + n
        BY <3>3, <3>4, <3>5, <3>6
      <3>8. Cardinality(InLease("draining")')
              = Cardinality(InLease("draining") \cup InLease("active"))
        BY <2>8, Zenon
      <3>. QED
        BY <3>7, <3>8
    <2>11. AdmissionExact'
      <3>1. /\ Cardinality(InLease("opening")') = Cardinality(InLease("opening"))
            /\ Cardinality(InLease("active")') = 0
        BY <2>8, FS_EmptySet
      <3>2. Cardinality(Ops') = Cardinality(Ops) /\ Cardinality(Shaking') = Cardinality(Shaking)
        BY <2>9
      <3>3. Counts
        BY CountsDef DEF IInv
      <3>4. Counts'
        BY <2>3, <2>4, <2>10, <3>1, <3>2, <3>3 DEF Counts
      <3>. QED
        BY <3>4, CountsDefPrime
    <2>12. DoneExact'
      BY <1>0, <2>3, <2>6, <2>7, <2>11, MaybeDoneExact
    <2>13. Outstanding' = Outstanding
      <3>1. \A k \in Conns : lease'[k] \in Live <=> lease[k] \in Live
        BY <2>5 DEF Live
      <3>. QED
        BY <2>3, <3>1 DEF Outstanding
    <2>14. state' # "Running"
      BY <2>3 DEF MaybeDone
    <2>. QED
      BY <1>2, <2>6, <2>7, <2>11, <2>12, <2>13, <2>14 DEF IInv, Preserved, Stops
  <1>. QED
    BY <1>1, <1>2

LEMMA TellListenerIInv ==
  ASSUME IInv, NEW c \in Callers, NEW l \in Listeners, TellListener(c, l)
  PROVE  Preserved
  <1>0. TypeOK /\ CallerType
    BY CallerTyped DEF IInv
  <1>1. /\ todo' = [todo EXCEPT ![c] = @ \ {l}]
        /\ closing' = closing \cup {l}
        /\ errs' \in {errs, [errs EXCEPT ![c] = TRUE]}
        /\ UNCHANGED <<state, reason, shutdownErr, activeOps, adm>>
        /\ UNCHANGED <<lease, pc, tracked, asked, cpc, owner, result>>
    BY DEF TellListener, engineVars
  <1>2. CallerType'
    BY <1>0, <1>1, CallStepTyped DEF CallerType
  <1>3. closing' \in SUBSET Listeners
    BY <1>0, <1>1, Typed
  <1>. QED
    BY <1>0, <1>1, <1>2, <1>3, CallFrameIInv, CallerTyped

LEMMA TellSessionIInv ==
  ASSUME IInv, NEW c \in Callers, NEW k \in Conns, TellSession(c, k)
  PROVE  Preserved
  <1>0. TypeOK /\ CallerType
    BY CallerTyped DEF IInv
  <1>1. /\ todo' = [todo EXCEPT ![c] = @ \ {k}]
        /\ asked' \in {[asked EXCEPT ![k] = "drain"], [asked EXCEPT ![k] = "abort"]}
        /\ UNCHANGED <<state, reason, shutdownErr, activeOps, adm>>
        /\ UNCHANGED <<lease, pc, tracked, closing, cpc, owner, errs, result>>
    BY DEF TellSession, engineVars
  <1>2. CallerType'
    BY <1>0, <1>1, CallStepTyped DEF CallerType
  <1>3. asked' \in [Conns -> {"no", "drain", "abort"}]
    BY <1>0, <1>1, CallerTyped
  <1>. QED
    BY <1>0, <1>1, <1>2, <1>3, CallFrameIInv, CallerTyped, Typed

\* All resources of the snapshot have been told: RequestDone, AbortDone.
LEMMA ToldIInv ==
  ASSUME IInv, NEW c \in Callers, RequestDone(c) \/ AbortDone(c)
  PROVE  Preserved
  <1>0. TypeOK /\ CallerType /\ shutdownErr \in BOOLEAN /\ errs[c] \in BOOLEAN
    BY CallerTyped DEF IInv, CallerType
  <1>1. /\ shutdownErr' = (shutdownErr \/ errs[c])
        /\ errs' = [errs EXCEPT ![c] = FALSE]
        /\ UNCHANGED <<state, reason, activeOps, adm>>
        /\ UNCHANGED <<lease, pc, tracked, closing, asked, owner, todo>>
    BY DEF RequestDone, AbortDone, connVars
  <1>2. \E label \in {"fail", "wait", "returned"} : cpc' = [cpc EXCEPT ![c] = label]
    BY DEF RequestDone, AbortDone, Call, Return
  <1>3. result' = result \/ result' = [result EXCEPT ![c] = "cause"]
    BY DEF RequestDone, AbortDone, Return
  <1>4. CallerType'
    <2>1. cpc' \in [Callers -> {"idle", "request", "fail", "abort", "closeAll", "wait", "returned"}]
      BY <1>0, <1>2, CallStepTyped
    <2>2. result' \in [Callers -> {"none", "nil", "closed", "cause", "error", "aborted"}]
      BY <1>0, <1>3, CallStepTyped DEF CallerType
    <2>3. errs' \in [Callers -> BOOLEAN]
      BY <1>0, <1>1, CallStepTyped
    <2>. QED
      BY <1>0, <1>1, <2>1, <2>2, <2>3 DEF CallerType
  <1>5. shutdownErr' \in BOOLEAN
    BY <1>1, Zenon
  <1>. QED
    BY <1>0, <1>1, <1>4, <1>5, CallFrameIInv, CallerTyped, Typed

LEMMA CallStepIInv ==
  ASSUME IInv, NEW c \in Callers, CallStep(c)
  PROVE  Preserved
  <1>1. ASSUME FailShutdown(c) PROVE Preserved
    <2>1. CASE BeginAbort(c, "failure", "abort")
      BY <2>1, BeginAbortIInv
    <2>2. CASE Call(c, "wait") /\ UNCHANGED <<engineVars, connVars, owner, todo, errs, result>>
      <3>0. TypeOK /\ CallerType
        BY CallerTyped DEF IInv
      <3>1. /\ UNCHANGED <<state, reason, shutdownErr, activeOps, adm>>
            /\ UNCHANGED <<lease, pc, tracked, closing, asked>>
        BY <2>2 DEF engineVars, connVars
      <3>2. CallerType'
        BY <2>2, <3>0, CallStepTyped DEF Call, CallerType
      <3>. QED
        BY <3>0, <3>1, <3>2, CallFrameIInv, CallerTyped, Typed
    <2>. QED
      BY <1>1, <2>1, <2>2 DEF FailShutdown
  <1>2. ASSUME ShutdownReturns(c) PROVE Preserved
    <2>1. ShutdownResult \in {"nil", "closed", "error"}
      BY DEF ShutdownResult
    <2>. QED
      BY <1>2, <2>1, ReturnIInv DEF ShutdownReturns
  <1>3. ASSUME CloseReturns(c) PROVE Preserved
    BY <1>3, ReturnIInv DEF CloseReturns
  <1>. QED
    BY <1>1, <1>2, <1>3, TellListenerIInv, TellSessionIInv, ToldIInv DEF CallStep

\* Shutdown's context expires, or Close is called.
LEMMA ExpireCloseIInv ==
  ASSUME IInv, NEW c \in Callers, Expire(c) \/ Close(c)
  PROVE  Preserved
  <1>1. ASSUME NEW why \in {"explicit", "caller", "failure"}, NEW label \in {"abort", "closeAll"},
               BeginAbort(c, why, label)
        PROVE  Preserved
    BY <1>1, BeginAbortIInv
  <1>2. ASSUME NEW s \in {"cause", "aborted"}, Return(c, s),
               UNCHANGED <<engineVars, connVars, owner, todo, errs>>
        PROVE  Preserved
    BY <1>2, ReturnIInv
  <1>. QED
    BY <1>1, <1>2 DEF Expire, Close

\* A connection is accepted, a listener is closed.
LEMMA AcceptIInv ==
  ASSUME IInv, NEW k \in Conns, Accept(k)
  PROVE  Preserved
  <1>0. k \in Resources /\ TypeOK
    BY ConnsAreResources DEF IInv
  <1>1. /\ pc[k] = "idle" /\ Goto(k, "accepted")
        /\ UNCHANGED <<state, reason, shutdownErr, activeOps, adm, lease, tracked, closing,
                       asked, callVars>>
    BY DEF Accept, engineVars
  <1>2. /\ pc' \in PcType /\ pc'[k] = "accepted"
        /\ \A q \in Resources \ {k} : pc'[q] = pc[q]
    BY <1>0, <1>1, PcStep
  <1>3. TypeOK'
    BY <1>0, <1>1, <1>2, Typed, OpTyped
  <1>4. Only(k) /\ ShapeAt(k)'
    BY <1>0, <1>1, <1>2 DEF Only, ShapeAt, IInv, Shape
  <1>5. Counted(k)
    BY <1>0, <1>1, <1>2 DEF Counted, Follows, InOp
  <1>6. Barred(k)
    BY <1>0, <1>1, <1>2 DEF Barred, Outstanding, InOp
  <1>. QED
    BY <1>0, <1>3, <1>4, <1>5, <1>6, StepIInv

LEMMA CloseListenerIInv ==
  ASSUME IInv, NEW l \in Listeners, CloseListener(l)
  PROVE  Preserved
  <1>0. TypeOK /\ CallerType
    BY CallerTyped DEF IInv
  <1>1. /\ closing' = closing \cup {l}
        /\ UNCHANGED <<state, reason, shutdownErr, activeOps, adm>>
        /\ UNCHANGED <<lease, pc, tracked, asked>>
        /\ UNCHANGED <<cpc, owner, todo, errs, result>>
    BY DEF CloseListener, engineVars, callVars
  <1>2. CallerType' /\ closing' \in SUBSET Listeners
    BY <1>0, <1>1, Typed DEF CallerType
  <1>. QED
    BY <1>0, <1>1, <1>2, CallFrameIInv, CallerTyped

LEMMA NextIInv == IInv /\ [Next]_vars => Preserved
  <1>. SUFFICES ASSUME IInv, [Next]_vars PROVE Preserved
    OBVIOUS
  <1>1. ASSUME NEW r \in Resources, OpStep(r) PROVE Preserved
    BY <1>1, OpenFailsIInv, AcquireOpeningIInv, AcquireHandshakeIInv, EndHandshakeIInv,
       AdoptStreamIInv, ReleaseLeaseIInv, AddPacketIInv, AddListenerIInv, EndOpIInv
    DEF OpStep
  <1>2. CASE UNCHANGED vars
    <2>1. /\ UNCHANGED <<state, reason, shutdownErr, activeOps, adm>>
          /\ UNCHANGED <<lease, pc, tracked, closing, asked>>
          /\ UNCHANGED <<cpc, owner, todo, errs, result>>
      BY <1>2 DEF vars, engineVars, connVars, callVars
    <2>2. TypeOK'
      BY <2>1 DEF IInv, TypeOK
    <2>. QED
      BY <2>1, <2>2, FrameIInv
  <1>. QED
    BY <1>1, <1>2, AcceptIInv, BeginOpIInv, RemoveSessionIInv, CloseListenerIInv,
       FinalizeListenerIInv, BeginGracefulShutdownIInv, CallStepIInv, ExpireCloseIInv
    DEF Next

\* Engine.Done is an exact barrier for every number of operations, listeners,
\* sessions and concurrent Shutdown and Close calls: it never closes while
\* something is outstanding and is never left open by a lost maybeDoneLocked.
\* The counters maybeDoneLocked reads are exact in every state.
THEOREM BarrierIsExact == Spec => []BarrierExact
  <1>1. IInv => BarrierExact
    BY DEF IInv, BarrierExact
  <1>2. IInv /\ [Next]_vars => IInv'
    BY NextIInv DEF Preserved
  <1>. QED
    BY <1>1, <1>2, InitIInv, PTL DEF Spec

\* Type correctness of the Engine model.
THEOREM TypeCorrect == Spec => []TypeOK
  <1>1. IInv => TypeOK
    BY DEF IInv
  <1>2. IInv /\ [Next]_vars => IInv'
    BY NextIInv DEF Preserved
  <1>. QED
    BY <1>1, <1>2, InitIInv, PTL DEF Spec

----------------------------------------------------------------------------
(* Refinement of EngineBarrier.                                            *)

\* The phase of the barrier is a function of what is outstanding.
LEMMA PhaseExact ==
  IInv => BarrierPhase = IF state = "Running" THEN "open" ELSE Barrier!Stopped(Outstanding)
  BY DEF IInv, BarrierPhase, DoneExact, Barrier!Stopped

\* The Engine implements EngineBarrier: it acquires resources only while
\* Running and Done closes in the very step that gives up the last one,
\* whichever of endOp, removeStream, removeTracked and release that is.
THEOREM EngineImplementsBarrier == Spec => ImplementsBarrier
  <1>1. Init => Barrier!Init
    BY DEF Init, Barrier!Init, BarrierPhase, Outstanding, Resources, InOp, Live
  <1>2. IInv /\ IInv' /\ [Next]_vars => [Barrier!Next]_<<BarrierPhase, Outstanding>>
    <2>. SUFFICES ASSUME IInv, IInv', [Next]_vars
                  PROVE  Barrier!Next \/ UNCHANGED <<BarrierPhase, Outstanding>>
      OBVIOUS
    <2>1. BarrierPhase = IF state = "Running" THEN "open" ELSE Barrier!Stopped(Outstanding)
      BY PhaseExact
    <2>2. BarrierPhase' = IF state' = "Running" THEN "open" ELSE Barrier!Stopped(Outstanding')
      <3>1. IInv' => (BarrierPhase = IF state = "Running" THEN "open"
                                     ELSE Barrier!Stopped(Outstanding))'
        BY PhaseExact, PTL
      <3>. QED
        BY <3>1 DEF Barrier!Stopped
    <2>3. \A S : Barrier!Stopped(S) # "open"
      BY DEF Barrier!Stopped
    <2>4. CASE Same
      BY <2>1, <2>2, <2>4 DEF Same
    <2>5. CASE Grows
      BY <2>1, <2>2, <2>5 DEF Grows, Barrier!Next, Barrier!Acquire
    <2>6. CASE Shrinks
      <3>1. PICK r \in Outstanding : Outstanding' = Outstanding \ {r}
        BY <2>6 DEF Shrinks
      <3>2. Barrier!Release(r)
        BY <2>1, <2>2, <2>3, <2>6, <3>1 DEF Shrinks, Barrier!Release
      <3>3. r \in Resources
        BY <3>1 DEF Outstanding
      <3>. QED
        BY <3>2, <3>3 DEF Barrier!Next
    <2>7. CASE Stops
      BY <2>1, <2>2, <2>7 DEF Stops, Barrier!Next, Barrier!Stop
    <2>. QED
      BY <2>4, <2>5, <2>6, <2>7, NextIInv DEF Preserved
  <1>3. IInv /\ [Next]_vars => IInv'
    BY NextIInv DEF Preserved
  <1>. QED
    BY <1>1, <1>2, <1>3, InitIInv, PTL DEF Spec, ImplementsBarrier, Barrier!Spec

----------------------------------------------------------------------------
(* Shutdown and Close reach everything, and a nil Shutdown is graceful.    *)

\* Every tracked resource outside the rest of a snapshot has been told: its
\* listeners are closing and its sessions have been asked one of these.
ToldBut(rest, asks) ==
    /\ \A l \in Listeners : l \in tracked => l \in closing \/ l \in rest
    /\ \A k \in Conns : k \in tracked => asked[k] \in asks \/ k \in rest

\* What a Shutdown or Close at work promises: nothing is told before the first
\* call, a call has a snapshot only while it works through it, and what is
\* tracked and not yet told is in the snapshot of every call that tells it.
CallsCover ==
    /\ state = "Running" => /\ \A c \in Callers : cpc[c] = "idle"
                            /\ \A k \in Conns : asked[k] = "no"
    /\ \A c \in Callers :
         /\ cpc[c] \notin {"request", "abort", "closeAll"} => todo[c] = {}
         /\ cpc[c] = "request" => ToldBut(todo[c], {"drain", "abort"})
         /\ cpc[c] \in {"abort", "closeAll"} => ToldBut(todo[c], {"abort"})
    /\ (state = "Draining" /\ \A c \in Callers : cpc[c] # "request")
       => ToldBut({}, {"drain", "abort"})
    /\ (state = "Aborting" /\ \A c \in Callers : cpc[c] \notin {"abort", "closeAll"})
       => ToldBut({}, {"abort"})
    /\ (\E k \in Conns : asked[k] = "drain")
       => \A l \in Listeners : l \in tracked => l \in closing

\* Only an abort closes sessions, and every abort leaves its reason.
AbortsHaveReason ==
    /\ reason = "none" =>
         /\ \A c \in Callers : cpc[c] \notin {"abort", "closeAll"}
         /\ \A k \in Conns : asked[k] # "abort"
    /\ \A c \in Callers : result[c] = "nil" => state = "Done" /\ reason = "none"

JInv == CallsCover /\ AbortsHaveReason

LEMMA InitJInv == Init => JInv
  BY DEF Init, JInv, CallsCover, AbortsHaveReason, ToldBut

\* The rows of one caller change, those of the others do not.
OnlyCaller(c) ==
    \A d \in Callers \ {c} : cpc'[d] = cpc[d] /\ todo'[d] = todo[d] /\ result'[d] = result[d]

\* A step of an operation or of a session: no call moves, and a resource joins
\* only while the Engine is Running.
LEMMA QuietJInv ==
  ASSUME JInv, UNCHANGED <<reason, asked, cpc, todo, result>>, closing \subseteq closing',
         \/ state' = state /\ (state = "Running" \/ tracked' \subseteq tracked)
         \/ state' = "Done" /\ state # "Running" /\ tracked' \subseteq tracked
  PROVE  JInv'
  <1>1. AbortsHaveReason'
    BY DEF JInv, AbortsHaveReason
  <1>2. CASE state = "Running"
    <2>1. /\ \A c \in Callers : cpc'[c] = "idle"
          /\ \A k \in Conns : asked'[k] = "no"
          /\ state' = "Running"
      BY <1>2 DEF JInv, CallsCover
    <2>2. \A c \in Callers : todo'[c] = {}
      BY <1>2 DEF JInv, CallsCover
    <2>. QED
      BY <1>1, <2>1, <2>2 DEF JInv, CallsCover
  <1>3. CASE state # "Running"
    <2>0. tracked' \subseteq tracked /\ state' \in {state, "Done"}
      BY <1>3
    <2>1. ASSUME NEW rest, NEW asks, ToldBut(rest, asks)
          PROVE  /\ \A l \in Listeners : l \in tracked' => l \in closing' \/ l \in rest
                 /\ \A k \in Conns : k \in tracked' => asked'[k] \in asks \/ k \in rest
      BY <2>0, <2>1 DEF ToldBut
    <2>2. ASSUME NEW c \in Callers
          PROVE  /\ cpc'[c] \notin {"request", "abort", "closeAll"} => todo'[c] = {}
                 /\ cpc'[c] = "request" => ToldBut(todo[c], {"drain", "abort"})'
                 /\ cpc'[c] \in {"abort", "closeAll"} => ToldBut(todo[c], {"abort"})'
      <3>1. /\ cpc'[c] = cpc[c] /\ todo'[c] = todo[c]
            /\ cpc[c] \notin {"request", "abort", "closeAll"} => todo[c] = {}
            /\ cpc[c] = "request" => ToldBut(todo[c], {"drain", "abort"})
            /\ cpc[c] \in {"abort", "closeAll"} => ToldBut(todo[c], {"abort"})
        BY DEF JInv, CallsCover
      <3>. QED
        BY <2>1, <3>1 DEF ToldBut
    <2>3. (state' = "Draining" /\ \A c \in Callers : cpc'[c] # "request")
          => ToldBut({}, {"drain", "abort"})'
      BY <2>0, <2>1 DEF JInv, CallsCover, ToldBut
    <2>4. (state' = "Aborting" /\ \A c \in Callers : cpc'[c] \notin {"abort", "closeAll"})
          => ToldBut({}, {"abort"})'
      BY <2>0, <2>1 DEF JInv, CallsCover, ToldBut
    <2>5. (\E k \in Conns : asked'[k] = "drain")
          => \A l \in Listeners : l \in tracked' => l \in closing'
      BY <2>0 DEF JInv, CallsCover
    <2>6. state' # "Running"
      BY <1>3, <2>0
    <2>. QED
      BY <1>1, <2>2, <2>3, <2>4, <2>5, <2>6 DEF JInv, CallsCover
  <1>. QED
    BY <1>2, <1>3

\* A call that has told its whole snapshot, or has none, moves on.
LEMMA MovesOnJInv ==
  ASSUME JInv, NEW c \in Callers, OnlyCaller(c), state # "Running", todo[c] = {},
         cpc'[c] \in {"fail", "wait", "returned"}, todo'[c] = {},
         result'[c] \in {result[c], "closed", "cause", "error", "aborted"}
           \/ (state = "Done" /\ reason = "none"),
         UNCHANGED <<state, reason, tracked, closing, asked>>
  PROVE  JInv'
  <1>1. AbortsHaveReason'
    BY DEF JInv, AbortsHaveReason, OnlyCaller
  <1>2. ASSUME NEW rest, NEW asks, ToldBut(rest, asks)
        PROVE  /\ \A l \in Listeners : l \in tracked' => l \in closing' \/ l \in rest
               /\ \A k \in Conns : k \in tracked' => asked'[k] \in asks \/ k \in rest
    BY <1>2 DEF ToldBut
  <1>3. ASSUME NEW d \in Callers
        PROVE  /\ cpc'[d] \notin {"request", "abort", "closeAll"} => todo'[d] = {}
               /\ cpc'[d] = "request" => ToldBut(todo[d], {"drain", "abort"})'
               /\ cpc'[d] \in {"abort", "closeAll"} => ToldBut(todo[d], {"abort"})'
    <2>1. d # c => cpc'[d] = cpc[d] /\ todo'[d] = todo[d]
      BY DEF OnlyCaller
    <2>2. /\ cpc[d] \notin {"request", "abort", "closeAll"} => todo[d] = {}
          /\ cpc[d] = "request" => ToldBut(todo[d], {"drain", "abort"})
          /\ cpc[d] \in {"abort", "closeAll"} => ToldBut(todo[d], {"abort"})
      BY DEF JInv, CallsCover
    <2>. QED
      BY <1>2, <2>1, <2>2 DEF ToldBut
  <1>4. ASSUME state = "Draining", \A d \in Callers : cpc'[d] # "request"
        PROVE  ToldBut({}, {"drain", "abort"})'
    <2>1. ToldBut({}, {"drain", "abort"})
      <3>1. CASE cpc[c] = "request"
        BY <3>1 DEF JInv, CallsCover
      <3>2. CASE cpc[c] # "request"
        BY <1>4, <3>2 DEF JInv, CallsCover, OnlyCaller
      <3>. QED
        BY <3>1, <3>2
    <2>. QED
      BY <2>1 DEF ToldBut
  <1>5. ASSUME state = "Aborting", \A d \in Callers : cpc'[d] \notin {"abort", "closeAll"}
        PROVE  ToldBut({}, {"abort"})'
    <2>1. ToldBut({}, {"abort"})
      <3>1. CASE cpc[c] \in {"abort", "closeAll"}
        BY <3>1 DEF JInv, CallsCover
      <3>2. CASE cpc[c] \notin {"abort", "closeAll"}
        BY <1>5, <3>2 DEF JInv, CallsCover, OnlyCaller
      <3>. QED
        BY <3>1, <3>2
    <2>. QED
      BY <2>1 DEF ToldBut
  <1>6. (\E k \in Conns : asked'[k] = "drain")
        => \A l \in Listeners : l \in tracked' => l \in closing'
    BY DEF JInv, CallsCover
  <1>. QED
    BY <1>1, <1>3, <1>4, <1>5, <1>6 DEF JInv, CallsCover

\* What the update of one row leaves of a call.
LEMMA RowStep ==
  ASSUME TypeOK, NEW c \in Callers
  PROVE  /\ \A s : cpc' = [cpc EXCEPT ![c] = s] =>
              cpc'[c] = s /\ \A d \in Callers \ {c} : cpc'[d] = cpc[d]
         /\ \A S : todo' = [todo EXCEPT ![c] = S] =>
              todo'[c] = S /\ \A d \in Callers \ {c} : todo'[d] = todo[d]
         /\ \A s : result' = [result EXCEPT ![c] = s] =>
              result'[c] = s /\ \A d \in Callers \ {c} : result'[d] = result[d]
  <1>1. CallerType
    BY CallerTyped
  <1>2. \A s : cpc' = [cpc EXCEPT ![c] = s] =>
          cpc'[c] = s /\ \A d \in Callers \ {c} : cpc'[d] = cpc[d]
    BY <1>1 DEF CallerType
  <1>3. \A S : todo' = [todo EXCEPT ![c] = S] =>
          todo'[c] = S /\ \A d \in Callers \ {c} : todo'[d] = todo[d]
    BY <1>1 DEF CallerType
  <1>4. \A s : result' = [result EXCEPT ![c] = s] =>
          result'[c] = s /\ \A d \in Callers \ {c} : result'[d] = result[d]
    BY <1>1 DEF CallerType
  <1>. QED
    BY <1>2, <1>3, <1>4

\* beginAbort, and beginGracefulShutdown of a Running Engine: call c takes the
\* snapshot.
LEMMA SnapshotJInv ==
  ASSUME JInv, NEW c \in Callers, OnlyCaller(c), result'[c] = result[c],
         todo'[c] = tracked, UNCHANGED <<tracked, closing, asked>>,
         \/ /\ state = "Running" /\ state' \in {"Draining", "Done"}
            /\ cpc'[c] = "request" /\ reason' = reason
         \/ /\ state \notin {"Done", "Aborting"} /\ state' \in {"Aborting", "Done"}
            /\ cpc'[c] \in {"abort", "closeAll"} /\ reason' # "none"
  PROVE  JInv'
  <1>1. AbortsHaveReason'
    <2>1. \A d \in Callers : result'[d] # "nil"
      BY DEF JInv, AbortsHaveReason, OnlyCaller
    <2>2. reason' = "none" => /\ \A d \in Callers : cpc'[d] \notin {"abort", "closeAll"}
                              /\ \A k \in Conns : asked'[k] # "abort"
      BY DEF JInv, AbortsHaveReason, OnlyCaller
    <2>. QED
      BY <2>1, <2>2 DEF AbortsHaveReason
  <1>2. ASSUME NEW d \in Callers
        PROVE  /\ cpc'[d] \notin {"request", "abort", "closeAll"} => todo'[d] = {}
               /\ cpc'[d] = "request" => ToldBut(todo[d], {"drain", "abort"})'
               /\ cpc'[d] \in {"abort", "closeAll"} => ToldBut(todo[d], {"abort"})'
    <2>1. CASE d = c
      BY <2>1 DEF ToldBut
    <2>2. CASE d # c
      <3>1. cpc'[d] = cpc[d] /\ todo'[d] = todo[d]
        BY <2>2 DEF OnlyCaller
      <3>2. /\ cpc[d] \notin {"request", "abort", "closeAll"} => todo[d] = {}
            /\ cpc[d] = "request" => ToldBut(todo[d], {"drain", "abort"})
            /\ cpc[d] \in {"abort", "closeAll"} => ToldBut(todo[d], {"abort"})
        BY DEF JInv, CallsCover
      <3>. QED
        BY <3>1, <3>2 DEF ToldBut
    <2>. QED
      BY <2>1, <2>2
  <1>3. /\ state' # "Running"
        /\ state' = "Draining" => cpc'[c] = "request"
        /\ state' = "Aborting" => cpc'[c] \in {"abort", "closeAll"}
    OBVIOUS
  <1>4. (\E k \in Conns : asked'[k] = "drain")
        => \A l \in Listeners : l \in tracked' => l \in closing'
    BY DEF JInv, CallsCover
  <1>. QED
    BY <1>1, <1>2, <1>3, <1>4 DEF JInv, CallsCover

\* Call c tells one resource x of its snapshot.
LEMMA TellsJInv ==
  ASSUME JInv, NEW c \in Callers, OnlyCaller(c), NEW x \in todo[c],
         cpc'[c] = cpc[c], todo'[c] = todo[c] \ {x}, result'[c] = result[c],
         closing \subseteq closing', x \in Listeners => x \in closing',
         \A k \in Conns \ {x} : asked'[k] = asked[k],
         x \in Conns => /\ cpc[c] = "request" =>
                             asked'[x] = IF asked[x] = "abort" THEN "abort" ELSE "drain"
                        /\ cpc[c] # "request" => asked'[x] = "abort"
                        /\ ListenersTold(c),
         UNCHANGED <<state, reason, tracked>>
  PROVE  JInv'
  <1>1. cpc[c] \in {"request", "abort", "closeAll"} /\ state # "Running"
    BY DEF JInv, CallsCover
  <1>2. /\ \A k \in Conns : asked[k] \in {"drain", "abort"} => asked'[k] \in {"drain", "abort"}
        /\ \A k \in Conns : asked[k] = "abort" => asked'[k] = "abort"
        /\ \A k \in Conns : asked'[k] = "abort" => asked[k] = "abort" \/ cpc[c] # "request"
    <2>1. ASSUME NEW k \in Conns
          PROVE  /\ asked[k] \in {"drain", "abort"} => asked'[k] \in {"drain", "abort"}
                 /\ asked[k] = "abort" => asked'[k] = "abort"
                 /\ asked'[k] = "abort" => asked[k] = "abort" \/ cpc[c] # "request"
      <3>1. CASE k = x
        BY <3>1
      <3>2. CASE k # x
        BY <3>2
      <3>. QED
        BY <3>1, <3>2
    <2>. QED
      BY <2>1
  <1>3. AbortsHaveReason'
    <2>1. ASSUME reason' = "none"
          PROVE  /\ \A d \in Callers : cpc'[d] \notin {"abort", "closeAll"}
                 /\ \A k \in Conns : asked'[k] # "abort"
      <3>1. /\ \A d \in Callers : cpc[d] \notin {"abort", "closeAll"}
            /\ \A k \in Conns : asked[k] # "abort"
        BY <2>1 DEF JInv, AbortsHaveReason
      <3>2. cpc[c] = "request"
        BY <1>1, <3>1
      <3>. QED
        BY <1>2, <3>1, <3>2 DEF OnlyCaller
    <2>2. \A d \in Callers : result'[d] = "nil" => state' = "Done" /\ reason' = "none"
      BY DEF JInv, AbortsHaveReason, OnlyCaller
    <2>. QED
      BY <2>1, <2>2 DEF AbortsHaveReason
  <1>4. ASSUME NEW rest, NEW asks \in {{"drain", "abort"}, {"abort"}}, ToldBut(rest, asks)
        PROVE  ToldBut(rest, asks)'
    BY <1>2, <1>4 DEF ToldBut
  <1>5. ASSUME NEW d \in Callers
        PROVE  /\ cpc'[d] \notin {"request", "abort", "closeAll"} => todo'[d] = {}
               /\ cpc'[d] = "request" => ToldBut(todo[d], {"drain", "abort"})'
               /\ cpc'[d] \in {"abort", "closeAll"} => ToldBut(todo[d], {"abort"})'
    <2>1. /\ cpc[d] \notin {"request", "abort", "closeAll"} => todo[d] = {}
          /\ cpc[d] = "request" => ToldBut(todo[d], {"drain", "abort"})
          /\ cpc[d] \in {"abort", "closeAll"} => ToldBut(todo[d], {"abort"})
      BY DEF JInv, CallsCover
    <2>2. CASE d # c
      <3>1. cpc'[d] = cpc[d] /\ todo'[d] = todo[d]
        BY <2>2 DEF OnlyCaller
      <3>. QED
        BY <1>2, <2>1, <3>1 DEF ToldBut
    <2>3. CASE d = c
      <3>1. ASSUME cpc[c] = "request" PROVE ToldBut(todo[c], {"drain", "abort"})'
        <4>1. x \in Conns => asked'[x] \in {"drain", "abort"}
          BY <3>1
        <4>. QED
          BY <1>2, <2>1, <2>3, <3>1, <4>1 DEF ToldBut
      <3>2. ASSUME cpc[c] \in {"abort", "closeAll"} PROVE ToldBut(todo[c], {"abort"})'
        <4>1. x \in Conns => asked'[x] = "abort"
          BY <3>2
        <4>. QED
          BY <1>2, <2>1, <2>3, <3>2, <4>1 DEF ToldBut
      <3>. QED
        BY <1>1, <2>3, <3>1, <3>2
    <2>. QED
      BY <2>2, <2>3
  <1>6. /\ \A d \in Callers : cpc'[d] = cpc[d]
        /\ state' = state
    BY DEF OnlyCaller
  <1>7. (state' = "Draining" /\ \A d \in Callers : cpc'[d] # "request")
        => ToldBut({}, {"drain", "abort"})'
    BY <1>4, <1>6 DEF JInv, CallsCover
  <1>8. (state' = "Aborting" /\ \A d \in Callers : cpc'[d] \notin {"abort", "closeAll"})
        => ToldBut({}, {"abort"})'
    BY <1>4, <1>6 DEF JInv, CallsCover
  <1>9. ASSUME NEW k \in Conns, asked'[k] = "drain", NEW l \in Listeners, l \in tracked'
        PROVE  l \in closing'
    <2>1. CASE asked[k] = "drain"
      BY <1>9, <2>1 DEF JInv, CallsCover
    <2>2. CASE asked[k] # "drain"
      <3>1. k = x /\ cpc[c] = "request" /\ ListenersTold(c)
        BY <1>9, <2>2
      <3>2. ToldBut(todo[c], {"drain", "abort"})
        BY <3>1 DEF JInv, CallsCover
      <3>. QED
        BY <1>9, <3>1, <3>2 DEF ToldBut, ListenersTold
    <2>. QED
      BY <2>1, <2>2
  <1>. QED
    BY <1>1, <1>3, <1>5, <1>6, <1>7, <1>8, <1>9 DEF JInv, CallsCover

\* Once stopped, the state moves only to Done by maybeDoneLocked.
LEMMA MaybeDoneMoves ==
  ASSUME NEW s, NEW n, NEW S, NEW a
  PROVE  /\ MaybeDone(s, n, S, a) \in {s, "Done"}
         /\ s = "Running" => MaybeDone(s, n, S, a) = "Running"
  BY DEF MaybeDone

\* The steps of operations, sessions and listeners.
LEMMA OpsJInv ==
  ASSUME JInv,
         \/ \E k \in Conns : Accept(k) \/ RemoveSession(k)
         \/ \E r \in Resources : BeginOp(r) \/ OpStep(r)
         \/ \E l \in Listeners : CloseListener(l) \/ FinalizeListener(l)
  PROVE  JInv'
  <1>. DEFINE Calm == /\ UNCHANGED <<reason, asked, cpc, todo, result>>
                      /\ closing \subseteq closing'
              Steps == \/ state' = state /\ (state = "Running" \/ tracked' \subseteq tracked)
                       \/ state' = "Done" /\ state # "Running" /\ tracked' \subseteq tracked
  <1>1. ASSUME NEW k \in Conns, Accept(k) \/ RemoveSession(k) PROVE Calm /\ Steps
    <2>1. Calm
      BY <1>1 DEF Accept, RemoveSession, engineVars, callVars
    <2>2. ASSUME Accept(k) PROVE Steps
      BY <2>2 DEF Accept, engineVars
    <2>3. ASSUME RemoveSession(k) PROVE Steps
      <3>1. tracked' \subseteq tracked /\ state' = MaybeDone(state, activeOps, tracked', adm')
        BY <2>3 DEF RemoveSession
      <3>. QED
        BY <3>1, MaybeDoneMoves
    <2>. QED
      BY <1>1, <2>1, <2>2, <2>3
  <1>2. ASSUME NEW l \in Listeners, CloseListener(l) \/ FinalizeListener(l) PROVE Calm /\ Steps
    <2>1. Calm
      BY <1>2 DEF CloseListener, FinalizeListener, engineVars, callVars
    <2>2. ASSUME CloseListener(l) PROVE Steps
      BY <2>2 DEF CloseListener, engineVars
    <2>3. ASSUME FinalizeListener(l) PROVE Steps
      <3>1. tracked' \subseteq tracked /\ state' = MaybeDone(state, activeOps, tracked', adm)
        BY <2>3 DEF FinalizeListener
      <3>. QED
        BY <3>1, MaybeDoneMoves
    <2>. QED
      BY <1>2, <2>1, <2>2, <2>3
  <1>3. ASSUME NEW r \in Resources, BeginOp(r) \/ OpenFails(r) \/ EndOp(r) PROVE Calm /\ Steps
    <2>1. Calm
      BY <1>3 DEF BeginOp, OpenFails, EndOp, engineVars, callVars
    <2>2. ASSUME BeginOp(r) \/ OpenFails(r) PROVE Steps
      BY <2>2 DEF BeginOp, OpenFails, engineVars
    <2>3. ASSUME EndOp(r) PROVE Steps
      <3>1. tracked' = tracked /\ state' = MaybeDone(state, activeOps', tracked, adm)
        BY <2>3 DEF EndOp
      <3>. QED
        BY <3>1, MaybeDoneMoves
    <2>. QED
      BY <1>3, <2>1, <2>2, <2>3
  <1>4. ASSUME NEW k \in Conns, AcquireOpening(k) \/ AcquireHandshake(k) \/ ReleaseLease(k)
        PROVE  Calm /\ Steps
    BY <1>4 DEF AcquireOpening, AcquireHandshake, ReleaseLease, callVars
  <1>5. ASSUME NEW k \in Conns, EndHandshake(k) PROVE Calm /\ Steps
    <2>1. Calm /\ tracked' = tracked /\ state' = MaybeDone(state, activeOps, tracked, adm')
      BY <1>5 DEF EndHandshake, callVars
    <2>. QED
      BY <2>1, MaybeDoneMoves
  <1>6. ASSUME NEW k \in Conns, AdoptStream(k) \/ AddPacket(k) PROVE Calm /\ Steps
    <2>1. Calm
      BY <1>6 DEF AdoptStream, AddPacket, callVars
    <2>2. state' = state /\ (state = "Running" \/ tracked' = tracked)
      BY <1>6 DEF AdoptStream, AddPacket, Admitting
    <2>. QED
      BY <2>1, <2>2
  <1>7. ASSUME NEW l \in Listeners, AddListener(l) PROVE Calm /\ Steps
    BY <1>7 DEF AddListener, Admitting, engineVars, callVars
  <1>8. Calm /\ Steps
    <2>. HIDE DEF Calm, Steps
    <2>. QED
      BY <1>1, <1>2, <1>3, <1>4, <1>5, <1>6, <1>7 DEF OpStep
  <1>. QED
    BY <1>8, QuietJInv

\* closeSet and requestGracefulShutdown tell one listener, then one session.
LEMMA TellJInv ==
  ASSUME TypeOK, JInv, NEW c \in Callers,
         (\E l \in Listeners : TellListener(c, l)) \/ (\E k \in Conns : TellSession(c, k))
  PROVE  JInv'
  <1>0. Listeners \cap Conns = {}
    BY EngineAssumption
  <1>1. ASSUME NEW l \in Listeners, TellListener(c, l) PROVE JInv'
    <2>1. /\ l \in todo[c] /\ l \notin Conns
          /\ todo' = [todo EXCEPT ![c] = todo[c] \ {l}] /\ closing' = closing \cup {l}
          /\ UNCHANGED <<state, reason, tracked, asked, cpc, result>>
      BY <1>0, <1>1 DEF TellListener, engineVars
    <2>2. OnlyCaller(c) /\ todo'[c] = todo[c] \ {l}
      BY <2>1, RowStep DEF OnlyCaller
    <2>. QED
      BY <2>1, <2>2, TellsJInv
  <1>2. ASSUME NEW k \in Conns, TellSession(c, k) PROVE JInv'
    <2>1. /\ k \in todo[c] /\ k \notin Listeners /\ ListenersTold(c)
          /\ todo' = [todo EXCEPT ![c] = todo[c] \ {k}]
          /\ UNCHANGED <<state, reason, tracked, closing, cpc, result>>
      BY <1>0, <1>2 DEF TellSession, engineVars
    <2>2. OnlyCaller(c) /\ todo'[c] = todo[c] \ {k}
      BY <2>1, RowStep DEF OnlyCaller
    <2>3. asked \in [Conns -> {"no", "drain", "abort"}]
      BY DEF TypeOK
    <2>4. /\ \A j \in Conns \ {k} : asked'[j] = asked[j]
          /\ cpc[c] = "request" =>
               asked'[k] = IF asked[k] = "abort" THEN "abort" ELSE "drain"
          /\ cpc[c] # "request" => asked'[k] = "abort"
      BY <1>2, <2>3 DEF TellSession
    <2>. QED
      BY <2>1, <2>2, <2>4, TellsJInv
  <1>. QED
    BY <1>1, <1>2

\* beginAbort by any of its callers.
LEMMA BeginAbortJInv ==
  ASSUME TypeOK, JInv, NEW c \in Callers, NEW why \in {"explicit", "caller", "failure"},
         NEW label \in {"abort", "closeAll"}, BeginAbort(c, why, label)
  PROVE  JInv'
  <1>1. /\ state \notin {"Done", "Aborting"} /\ reason' # "none"
        /\ todo' = [todo EXCEPT ![c] = tracked] /\ cpc' = [cpc EXCEPT ![c] = label]
        /\ UNCHANGED <<tracked, closing, asked, result>>
    BY DEF BeginAbort, Call, Snapshot, connVars
  <1>2. state' \in {"Aborting", "Done"}
    BY MaybeDoneMoves DEF BeginAbort
  <1>3. OnlyCaller(c) /\ todo'[c] = tracked /\ cpc'[c] = label
    BY <1>1, RowStep DEF OnlyCaller
  <1>. QED
    BY <1>1, <1>2, <1>3, SnapshotJInv

\* beginGracefulShutdown.
LEMMA BeginGracefulShutdownJInv ==
  ASSUME TypeOK, JInv, NEW c \in Callers, BeginGracefulShutdown(c)
  PROVE  JInv'
  <1>1. cpc[c] = "idle" /\ UNCHANGED <<reason, tracked, closing, asked, result>>
    BY DEF BeginGracefulShutdown
  <1>2. CASE state = "Running"
    <2>1. todo' = [todo EXCEPT ![c] = tracked] /\ cpc' = [cpc EXCEPT ![c] = "request"]
      BY <1>2 DEF BeginGracefulShutdown, Call, Snapshot
    <2>2. state' \in {"Draining", "Done"}
      BY <1>2, MaybeDoneMoves DEF BeginGracefulShutdown
    <2>3. OnlyCaller(c) /\ todo'[c] = tracked /\ cpc'[c] = "request"
      BY <1>1, <2>1, RowStep DEF OnlyCaller
    <2>. QED
      BY <1>1, <1>2, <2>2, <2>3, SnapshotJInv
  <1>3. CASE state # "Running"
    <2>1. cpc' = [cpc EXCEPT ![c] = "wait"] /\ UNCHANGED <<state, todo>>
      BY <1>3 DEF BeginGracefulShutdown, Call
    <2>2. OnlyCaller(c) /\ cpc'[c] = "wait"
      BY <1>1, <2>1, RowStep DEF OnlyCaller
    <2>3. todo[c] = {}
      BY <1>1 DEF JInv, CallsCover
    <2>. QED
      BY <1>1, <1>3, <2>1, <2>2, <2>3, MovesOnJInv
  <1>. QED
    BY <1>2, <1>3

\* A call returns, or goes on to wait for Done.
LEMMA ReturnsJInv ==
  ASSUME TypeOK, JInv, NEW c \in Callers, todo[c] = {}, state # "Running",
         UNCHANGED <<state, reason, tracked, closing, asked, todo>>,
         \/ \E label \in {"fail", "wait"} : Call(c, label) /\ result' = result
         \/ \E r \in {"closed", "cause", "error", "aborted"} : Return(c, r)
         \/ Return(c, "nil") /\ state = "Done" /\ reason = "none"
  PROVE  JInv'
  <1>1. ASSUME NEW label \in {"fail", "wait"}, Call(c, label), result' = result PROVE JInv'
    <2>1. OnlyCaller(c) /\ cpc'[c] = label
      BY <1>1, RowStep DEF OnlyCaller, Call
    <2>. QED
      BY <1>1, <2>1, MovesOnJInv
  <1>2. ASSUME NEW r, Return(c, r),
               r \in {"closed", "cause", "error", "aborted"} \/ (state = "Done" /\ reason = "none")
        PROVE  JInv'
    <2>1. OnlyCaller(c) /\ cpc'[c] = "returned" /\ result'[c] = r
      BY <1>2, RowStep DEF OnlyCaller, Return, Call
    <2>. QED
      BY <1>2, <2>1, MovesOnJInv
  <1>. QED
    BY <1>1, <1>2

\* The remaining steps of a call: requestGracefulShutdown and closeSet are over,
\* the context expires, Shutdown or Close returns.
LEMMA CallJInv ==
  ASSUME TypeOK, JInv, NEW c \in Callers,
         \/ RequestDone(c) \/ FailShutdown(c) \/ AbortDone(c) \/ ShutdownReturns(c)
         \/ CloseReturns(c) \/ Expire(c) \/ Close(c)
  PROVE  JInv'
  <1>0. /\ cpc[c] # "idle" => state # "Running"
        /\ cpc[c] \notin {"request", "abort", "closeAll"} => todo[c] = {}
    BY DEF JInv, CallsCover
  <1>. DEFINE Rest == UNCHANGED <<state, reason, tracked, closing, asked, todo>>
  <1>1. ASSUME RequestDone(c) PROVE JInv'
    <2>1. /\ todo[c] = {} /\ Rest /\ result' = result
          /\ \E label \in {"fail", "wait"} : Call(c, label)
      BY <1>1 DEF RequestDone, connVars
    <2>2. state # "Running"
      BY <1>0, <1>1 DEF RequestDone
    <2>. QED
      BY <2>1, <2>2, ReturnsJInv
  <1>2. ASSUME FailShutdown(c) PROVE JInv'
    <2>1. CASE BeginAbort(c, "failure", "abort")
      BY <2>1, BeginAbortJInv
    <2>2. CASE ~ BeginAbort(c, "failure", "abort")
      <3>1. /\ cpc[c] = "fail" /\ Rest /\ result' = result
            /\ Call(c, "wait")
        BY <1>2, <2>2 DEF FailShutdown, engineVars, connVars
      <3>. QED
        BY <1>0, <3>1, ReturnsJInv
    <2>. QED
      BY <2>1, <2>2
  <1>3. ASSUME AbortDone(c) PROVE JInv'
    <2>1. /\ todo[c] = {} /\ cpc[c] = "abort" /\ Rest
          /\ (Call(c, "wait") /\ result' = result) \/ Return(c, "cause")
      BY <1>3 DEF AbortDone, connVars
    <2>. QED
      BY <1>0, <2>1, ReturnsJInv
  <1>4. ASSUME ShutdownReturns(c) PROVE JInv'
    <2>1. cpc[c] = "wait" /\ state = "Done" /\ Rest /\ Return(c, ShutdownResult)
      BY <1>4 DEF ShutdownReturns, engineVars, connVars
    <2>2. /\ ShutdownResult \in {"error", "closed", "nil"}
          /\ ShutdownResult = "nil" => reason = "none"
      BY DEF ShutdownResult
    <2>. QED
      BY <1>0, <2>1, <2>2, ReturnsJInv
  <1>5. ASSUME CloseReturns(c) PROVE JInv'
    <2>1. /\ todo[c] = {} /\ cpc[c] = "closeAll" /\ Rest
          /\ Return(c, "error") \/ Return(c, "aborted")
      BY <1>5 DEF CloseReturns, engineVars, connVars
    <2>. QED
      BY <1>0, <2>1, ReturnsJInv
  <1>6. ASSUME Expire(c) PROVE JInv'
    <2>1. CASE BeginAbort(c, "caller", "abort")
      BY <2>1, BeginAbortJInv
    <2>2. CASE ~ BeginAbort(c, "caller", "abort")
      <3>1. cpc[c] = "wait" /\ Rest /\ Return(c, "cause")
        BY <1>6, <2>2 DEF Expire, engineVars, connVars
      <3>. QED
        BY <1>0, <3>1, ReturnsJInv
    <2>. QED
      BY <2>1, <2>2
  <1>7. ASSUME Close(c) PROVE JInv'
    <2>1. CASE BeginAbort(c, "explicit", "closeAll")
      BY <2>1, BeginAbortJInv
    <2>2. CASE ~ BeginAbort(c, "explicit", "closeAll")
      <3>1. /\ cpc[c] = "idle" /\ Rest /\ Return(c, "aborted")
            /\ state \in {"Done", "Aborting"}
        BY <1>7, <2>2 DEF Close, engineVars, connVars
      <3>. QED
        BY <1>0, <3>1, ReturnsJInv
    <2>. QED
      BY <2>1, <2>2
  <1>. QED
    BY <1>1, <1>2, <1>3, <1>4, <1>5, <1>6, <1>7

LEMMA NextJInv == TypeOK /\ JInv /\ [Next]_vars => JInv'
  <1>. SUFFICES ASSUME TypeOK, JInv, [Next]_vars PROVE JInv'
    OBVIOUS
  <1>1. CASE \/ \E k \in Conns : Accept(k) \/ RemoveSession(k)
             \/ \E r \in Resources : BeginOp(r) \/ OpStep(r)
             \/ \E l \in Listeners : CloseListener(l) \/ FinalizeListener(l)
    BY <1>1, OpsJInv
  <1>2. ASSUME NEW c \in Callers,
               BeginGracefulShutdown(c) \/ Close(c) \/ CallStep(c) \/ Expire(c)
        PROVE  JInv'
    BY <1>2, BeginGracefulShutdownJInv, TellJInv, CallJInv DEF CallStep
  <1>3. CASE UNCHANGED vars
    <2>1. UNCHANGED <<state, reason, tracked, closing, asked, cpc, todo, result>>
      BY <1>3 DEF vars, engineVars, connVars, callVars
    <2>. QED
      BY <2>1, QuietJInv
  <1>. QED
    BY <1>1, <1>2, <1>3 DEF Next

\* Shutdown and Close leave nothing out, and a session is asked to drain only
\* after every listener is closing, for every number of resources and callers.
THEOREM SnapshotIsComplete == Spec => []SnapshotComplete
  <1>1. JInv => SnapshotComplete
    <2>. SUFFICES ASSUME JInv PROVE SnapshotComplete
      OBVIOUS
    <2>1. ASSUME state = "Draining", \A c \in Callers : cpc[c] # "request"
          PROVE  /\ tracked \cap Listeners \subseteq closing
                 /\ \A k \in tracked \cap Conns : asked[k] \in {"drain", "abort"}
      BY <2>1 DEF JInv, CallsCover, ToldBut
    <2>2. ASSUME state = "Aborting", \A c \in Callers : cpc[c] \notin {"abort", "closeAll"}
          PROVE  /\ tracked \cap Listeners \subseteq closing
                 /\ \A k \in tracked \cap Conns : asked[k] \in {"abort"}
      BY <2>2 DEF JInv, CallsCover, ToldBut
    <2>3. (\E k \in Conns : asked[k] = "drain") => tracked \cap Listeners \subseteq closing
      BY DEF JInv, CallsCover
    <2>. QED
      BY <2>1, <2>2, <2>3 DEF SnapshotComplete
  <1>. QED
    BY <1>1, InitJInv, NextJInv, TypeCorrect, PTL DEF Spec

\* A Shutdown that returns nil returns it from a Done Engine that nobody aborted.
THEOREM NilIsGraceful == Spec => []NilShutdownIsGraceful
  <1>1. JInv => NilShutdownIsGraceful
    BY DEF JInv, AbortsHaveReason, NilShutdownIsGraceful
  <1>. QED
    BY <1>1, InitJInv, NextJInv, TypeCorrect, PTL DEF Spec

=============================================================================
