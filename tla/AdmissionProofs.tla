-------------------------- MODULE AdmissionProofs --------------------------
(***************************************************************************)
(* What is admitted, and how much of it.  For any number of leases, peers  *)
(* and listeners and any limits: the counters of the admissionController   *)
(* are exact and the limits hold.  For any number of sessions and Sends,   *)
(* frames of any size and any limits: no budget is exceeded and no waiting *)
(* Send misses its wake-up.                                                *)
(***************************************************************************)
EXTENDS ConnectionLease, SendAdmission, FiniteSetTheorems, TLAPS

----------------------------------------------------------------------------
(* Connection leases.                                                      *)

\* What the lease states mean: only a release owes a subtraction, and only a
\* connection of a listener passes through the listener's slot states.
Shape ==
    \A l \in Leases :
        /\ owed[l] # "none" <=> lease[l] = "released"
        /\ lease[l] \in {"slot", "undo"} => ListenerOf[l] # NoListener

\* LimitsHeld as the code tests it, on the counters.
WithinLimits ==
    /\ MaxConnections > 0 => Connections(adm) <= MaxConnections
    /\ MaxConnectionsPerPeer > 0 =>
         \A p \in Peers : adm.perPeer[p] <= MaxConnectionsPerPeer
    /\ MaxPerListener > 0 => \A q \in Listeners : used[q] <= MaxPerListener

IInv == TypeOK /\ Shape /\ CountersExact /\ ListenerSlotsExact /\ WithinLimits

----------------------------------------------------------------------------

\* Every set of leases is finite, and its size grows or shrinks by one with
\* the element that joins or leaves it.
LEMMA LeaseSets ==
  ASSUME NEW S \in SUBSET Leases, NEW x \in Leases
  PROVE  /\ Cardinality(S) \in Nat
         /\ x \notin S => Cardinality(S \cup {x}) = Cardinality(S) + 1
         /\ x \in S => /\ Cardinality(S \ {x}) = Cardinality(S) - 1
                       /\ Cardinality(S) > 0
  <1>1. IsFiniteSet(S)
    BY FS_Subset, LeasesAssumption
  <1>2. IsFiniteSet(S \ {x}) /\ Cardinality(S) \in Nat
    BY <1>1, FS_RemoveElement, FS_CardinalityType
  <1>3. Cardinality(S \ {x}) \in Nat
    BY <1>2, FS_CardinalityType
  <1>4. x \notin S => Cardinality(S \cup {x}) = Cardinality(S) + 1
    BY <1>1, FS_AddElement, Zenon
  <1>5. x \in S => Cardinality(S \ {x}) = Cardinality(S) - 1
    BY <1>1, FS_RemoveElement, Zenon
  <1>. QED
    BY <1>2, <1>3, <1>4, <1>5

\* Every critical section of a lease leaves a well-formed controller.
LEMMA ControllerTyped ==
  ASSUME NEW a \in Controller, NEW peer, NEW s
  PROVE  /\ Opened(a, peer) \in Controller
         /\ Activated(a) \in Controller
         /\ Drained(a) \in Controller
         /\ Released(a, s, peer) \in Controller
  <1>1. AddToPeer(a.perPeer, peer) \in [Peers -> Nat]
    BY DEF AddToPeer, Controller
  <1>2. RemoveFromPeer(a.perPeer, peer) \in [Peers -> Nat]
    BY DEF RemoveFromPeer, Controller, Less
  <1>3. /\ a.opening + 1 \in Nat /\ a.active + 1 \in Nat /\ a.draining + 1 \in Nat
        /\ Less(a.opening) \in Nat /\ Less(a.active) \in Nat /\ Less(a.draining) \in Nat
    BY DEF Controller, Less
  <1>4. Opened(a, peer) \in Controller
    BY <1>1, <1>3, Zenon DEF Opened, Controller
  <1>5. Activated(a) \in Controller /\ Drained(a) \in Controller
    BY <1>3 DEF Activated, Drained, Controller
  <1>6. Released(a, s, peer) \in Controller
    BY <1>2, <1>3 DEF Released, Controller
  <1>. QED
    BY <1>4, <1>5, <1>6

\* The three classes of counted leases partition the leases that hold
\* capacity, so the sum the code compares with MaxConnections is their number.
LEMMA HoldingSum ==
  ASSUME TypeOK, Shape, CountersExact
  PROVE  Cardinality(Holding) = Connections(adm)
  <1> DEFINE O == Counted("opening")
             A == Counted("active")
             D == Counted("draining")
  <1>1. Holding = (O \cup A) \cup D
    BY DEF Holding, Counted, TypeOK, Live
  <1>2. O \cap A = {} /\ (O \cup A) \cap D = {}
    BY DEF Counted, Shape, TypeOK, Live
  <1>3. IsFiniteSet(O) /\ IsFiniteSet(A) /\ IsFiniteSet(D)
    BY FS_Subset, LeasesAssumption DEF Counted
  <1>4. /\ IsFiniteSet(O \cup A)
        /\ Cardinality(O \cup A) = Cardinality(O) + Cardinality(A)
    <2>1. Cardinality(O) \in Nat /\ Cardinality(A) \in Nat
      BY <1>3, FS_CardinalityType
    <2>2. /\ IsFiniteSet(O \cup A)
          /\ Cardinality(O \cup A)
               = Cardinality(O) + Cardinality(A) - Cardinality(O \cap A)
      BY <1>3, FS_Union, Zenon
    <2>3. Cardinality(O \cap A) = 0
      BY <1>2, FS_EmptySet
    <2>. QED
      BY <2>1, <2>2, <2>3
  <1>5. Cardinality((O \cup A) \cup D) = Cardinality(O) + Cardinality(A) + Cardinality(D)
    <2>1. Cardinality(O \cup A) \in Nat /\ Cardinality(D) \in Nat
      BY <1>3, <1>4, FS_CardinalityType
    <2>2. Cardinality((O \cup A) \cup D) = Cardinality(O \cup A) + Cardinality(D)
      BY <1>2, <1>3, <1>4, <2>1, FS_Union, FS_EmptySet
    <2>. QED
      BY <2>2, <1>4
  <1>. QED
    BY <1>1, <1>5 DEF CountersExact, Connections

\* The bounds the code tests on its counters bound the connections.
LEMMA LimitsFromCounters == IInv => LimitsHeld
  <1>1. IInv => Cardinality(Holding) = Connections(adm)
    BY HoldingSum DEF IInv
  <1>. QED
    BY <1>1 DEF IInv, WithinLimits, LimitsHeld, CountersExact, ListenerSlotsExact

----------------------------------------------------------------------------

LEMMA InitIInv == Init => IInv
  <1>. SUFFICES ASSUME Init PROVE IInv
    OBVIOUS
  <1>1. TypeOK /\ Shape
    BY DEF Init, TypeOK, Shape, Controller, NewController, LeaseState
  <1>2. /\ \A s \in Live : Counted(s) = {}
        /\ \A p \in Peers : HoldingOf(p) = {}
        /\ \A q \in Listeners : SlotsOf(q) = {}
    BY DEF Init, Counted, HoldingOf, Holding, SlotsOf, Live
  <1>3. CountersExact /\ ListenerSlotsExact
    BY <1>2, FS_EmptySet
    DEF Init, CountersExact, ListenerSlotsExact, NewController, Live
  <1>4. WithinLimits
    BY LimitsAssumption, LeasesAssumption
    DEF Init, WithinLimits, NewController, Connections
  <1>. QED
    BY <1>1, <1>3, <1>4 DEF IInv

LEMMA NextIInv == IInv /\ [Next]_vars => IInv'
  <1>. SUFFICES ASSUME IInv, [Next]_vars PROVE IInv'
    OBVIOUS
  <1>. USE DEF IInv
  <1>1. ASSUME NEW l \in Leases, AcquireListener(l) PROVE IInv'
    <2>. DEFINE q0 == ListenerOf[l]
    <2>1. q0 \in Listeners
      BY <1>1, LeasesAssumption DEF AcquireListener
    <2>2. TypeOK' /\ Shape'
      BY <1>1, <2>1 DEF AcquireListener, TypeOK, Shape, LeaseState, Live
    <2>3. \A s \in Live : Counted(s)' = Counted(s)
      BY <1>1, <2>2 DEF AcquireListener, Counted, TypeOK, Live
    <2>4. Holding' = Holding
      BY <1>1, <2>2 DEF AcquireListener, Holding, TypeOK, Live
    <2>5. CountersExact'
      BY <1>1, <2>3, <2>4 DEF AcquireListener, CountersExact, HoldingOf, Live
    <2>6. /\ SlotsOf(q0)' = SlotsOf(q0) \cup {l}
          /\ l \notin SlotsOf(q0)
          /\ \A q \in Listeners \ {q0} : SlotsOf(q)' = SlotsOf(q)
      BY <1>1 DEF AcquireListener, SlotsOf, TypeOK
    <2>7. ListenerSlotsExact'
      <3>1. SlotsOf(q0) \in SUBSET Leases
        BY DEF SlotsOf
      <3>2. Cardinality(SlotsOf(q0)') = Cardinality(SlotsOf(q0)) + 1
        BY <2>6, <3>1, LeaseSets
      <3>. QED
        BY <1>1, <2>1, <2>6, <3>2 DEF AcquireListener, ListenerSlotsExact, TypeOK
    <2>8. WithinLimits'
      BY <1>1, <2>1, LeasesAssumption
      DEF AcquireListener, WithinLimits, AtLimit, TypeOK
    <2>. QED
      BY <2>2, <2>5, <2>7, <2>8
  <1>2. ASSUME NEW l \in Leases, AcquireOpening(l) PROVE IInv'
    <2>1. TypeOK' /\ Shape'
      BY <1>2, ControllerTyped
      DEF AcquireOpening, TypeOK, Shape, LeaseState, Live
    <2>2. /\ Counted("opening")' = Counted("opening") \cup {l}
          /\ l \notin Counted("opening")
          /\ \A s \in {"active", "draining"} : Counted(s)' = Counted(s)
      BY <1>2 DEF AcquireOpening, Counted, TypeOK, Shape
    <2>3. Holding' = Holding \cup {l} /\ l \notin Holding
      BY <1>2 DEF AcquireOpening, Holding, TypeOK, Shape, Live
    <2>4. CountersExact'
      <3>1. Cardinality(Counted("opening")') = Cardinality(Counted("opening")) + 1
        BY <2>2, LeaseSets DEF Counted
      <3>2. ASSUME NEW p \in Peers
            PROVE  adm'.perPeer[p] = Cardinality(HoldingOf(p)')
        <4>1. HoldingOf(p) \in SUBSET Leases /\ l \notin HoldingOf(p)
          BY <2>3 DEF HoldingOf, Holding
        <4>2. CASE PeerOf[l] = p
          <5>1. HoldingOf(p)' = HoldingOf(p) \cup {l}
            BY <2>3, <4>2 DEF HoldingOf
          <5>2. Cardinality(HoldingOf(p)') = Cardinality(HoldingOf(p)) + 1
            BY <4>1, <5>1, LeaseSets
          <5>. QED
            BY <1>2, <4>2, <5>2
            DEF AcquireOpening, CountersExact, Opened, AddToPeer, TypeOK, Controller
        <4>3. CASE PeerOf[l] # p
          <5>1. HoldingOf(p)' = HoldingOf(p)
            BY <2>3, <4>3 DEF HoldingOf
          <5>. QED
            BY <1>2, <4>3, <5>1
            DEF AcquireOpening, CountersExact, Opened, AddToPeer, TypeOK, Controller
        <4>. QED
          BY <4>2, <4>3
      <3>. QED
        BY <1>2, <2>2, <3>1, <3>2
        DEF AcquireOpening, CountersExact, Opened, TypeOK, Controller
    <2>5. ListenerSlotsExact'
      <3>1. \A q \in Listeners : SlotsOf(q)' = SlotsOf(q)
        BY <1>2, LeasesAssumption DEF AcquireOpening, SlotsOf, TypeOK
      <3>. QED
        BY <1>2, <3>1 DEF AcquireOpening, ListenerSlotsExact
    <2>6. WithinLimits'
      BY <1>2, LimitsAssumption
      DEF AcquireOpening, WithinLimits, MayOpen, AtLimit, Opened, AddToPeer,
          Connections, TypeOK, Controller
    <2>. QED
      BY <2>1, <2>4, <2>5, <2>6
  <1>3. ASSUME NEW l \in Leases, RefuseOpening(l) PROVE IInv'
    <2>1. TypeOK' /\ Shape'
      BY <1>3 DEF RefuseOpening, TypeOK, Shape, LeaseState, Live
    <2>2. /\ \A s \in Live : Counted(s)' = Counted(s)
          /\ Holding' = Holding
          /\ \A q \in Listeners : SlotsOf(q)' = SlotsOf(q)
      BY <1>3 DEF RefuseOpening, Counted, Holding, SlotsOf, TypeOK, Live
    <2>. QED
      BY <1>3, <2>1, <2>2
      DEF RefuseOpening, CountersExact, ListenerSlotsExact, HoldingOf,
          WithinLimits, Live
  <1>4. ASSUME NEW l \in Leases, ReleaseListener(l) PROVE IInv'
    <2>. DEFINE q0 == ListenerOf[l]
    <2>1. TypeOK' /\ Shape'
      <3>1. \A q \in Listeners : Less(used[q]) \in Nat
        BY DEF TypeOK, Less
      <3>2. used' \in [Listeners -> Nat]
        BY <1>4, <3>1, LeasesAssumption DEF ReleaseListener, TypeOK
      <3>. QED
        BY <1>4, <3>2 DEF ReleaseListener, TypeOK, Shape, LeaseState, Live
    <2>2. /\ \A s \in Live : Counted(s)' = Counted(s)
          /\ Holding' = Holding
      BY <1>4 DEF ReleaseListener, Counted, Holding, TypeOK, Live
    <2>3. CountersExact'
      BY <1>4, <2>2 DEF ReleaseListener, CountersExact, HoldingOf, Live
    <2>4. \A q \in Listeners : q # q0 => SlotsOf(q)' = SlotsOf(q)
      BY <1>4 DEF ReleaseListener, SlotsOf, TypeOK
    <2>5. ASSUME q0 \in Listeners
          PROVE  /\ Cardinality(SlotsOf(q0)') = Cardinality(SlotsOf(q0)) - 1
                 /\ Cardinality(SlotsOf(q0)) > 0
                 /\ Cardinality(SlotsOf(q0)) \in Nat
      <3>1. /\ SlotsOf(q0)' = SlotsOf(q0) \ {l}
            /\ l \in SlotsOf(q0)
            /\ SlotsOf(q0) \in SUBSET Leases
        BY <1>4 DEF ReleaseListener, SlotsOf, TypeOK
      <3>. QED
        BY <3>1, LeaseSets
    <2>6. ListenerSlotsExact'
      BY <1>4, <2>4, <2>5, LeasesAssumption
      DEF ReleaseListener, ListenerSlotsExact, TypeOK, Less
    <2>7. WithinLimits'
      BY <1>4, LeasesAssumption DEF ReleaseListener, WithinLimits, TypeOK, Less
    <2>. QED
      BY <2>1, <2>3, <2>6, <2>7
  <1>5. ASSUME NEW l \in Leases, Activate(l) PROVE IInv'
    <2>1. TypeOK' /\ Shape'
      BY <1>5, ControllerTyped DEF Activate, TypeOK, Shape, LeaseState, Live
    <2>2. /\ Counted("opening")' = Counted("opening") \ {l}
          /\ l \in Counted("opening")
          /\ Counted("active")' = Counted("active") \cup {l}
          /\ l \notin Counted("active")
          /\ Counted("draining")' = Counted("draining")
      BY <1>5 DEF Activate, Counted, TypeOK, Shape
    <2>3. /\ Holding' = Holding
          /\ \A q \in Listeners : SlotsOf(q)' = SlotsOf(q)
      BY <1>5 DEF Activate, Holding, SlotsOf, TypeOK, Live
    <2>4. /\ Cardinality(Counted("opening")') = Cardinality(Counted("opening")) - 1
          /\ Cardinality(Counted("opening")) > 0
          /\ Cardinality(Counted("active")') = Cardinality(Counted("active")) + 1
      <3>1. Counted("opening") \in SUBSET Leases /\ Counted("active") \in SUBSET Leases
        BY DEF Counted
      <3>. QED
        BY <2>2, <3>1, LeaseSets
    <2>5. CountersExact'
      BY <1>5, <2>2, <2>3, <2>4
      DEF Activate, CountersExact, HoldingOf, Activated, TypeOK, Controller, Less
    <2>6. ListenerSlotsExact'
      BY <1>5, <2>3 DEF Activate, ListenerSlotsExact
    <2>7. WithinLimits'
      BY <1>5, <2>4
      DEF Activate, WithinLimits, Connections, Activated, CountersExact, TypeOK,
          Controller, Less
    <2>. QED
      BY <2>1, <2>5, <2>6, <2>7
  <1>6. ASSUME NEW l \in Leases, BeginDrain(l) PROVE IInv'
    <2>1. TypeOK' /\ Shape'
      BY <1>6, ControllerTyped DEF BeginDrain, TypeOK, Shape, LeaseState, Live
    <2>2. /\ Counted("active")' = Counted("active") \ {l}
          /\ l \in Counted("active")
          /\ Counted("draining")' = Counted("draining") \cup {l}
          /\ l \notin Counted("draining")
          /\ Counted("opening")' = Counted("opening")
      BY <1>6 DEF BeginDrain, Counted, TypeOK, Shape
    <2>3. /\ Holding' = Holding
          /\ \A q \in Listeners : SlotsOf(q)' = SlotsOf(q)
      BY <1>6 DEF BeginDrain, Holding, SlotsOf, TypeOK, Live
    <2>4. /\ Cardinality(Counted("active")') = Cardinality(Counted("active")) - 1
          /\ Cardinality(Counted("active")) > 0
          /\ Cardinality(Counted("draining")') = Cardinality(Counted("draining")) + 1
      <3>1. Counted("active") \in SUBSET Leases /\ Counted("draining") \in SUBSET Leases
        BY DEF Counted
      <3>. QED
        BY <2>2, <3>1, LeaseSets
    <2>5. CountersExact'
      BY <1>6, <2>2, <2>3, <2>4
      DEF BeginDrain, CountersExact, HoldingOf, Drained, TypeOK, Controller, Less
    <2>6. ListenerSlotsExact'
      BY <1>6, <2>3 DEF BeginDrain, ListenerSlotsExact
    <2>7. WithinLimits'
      BY <1>6, <2>4
      DEF BeginDrain, WithinLimits, Connections, Drained, CountersExact, TypeOK,
          Controller, Less
    <2>. QED
      BY <2>1, <2>5, <2>6, <2>7
  <1>7. ASSUME NEW l \in Leases, Release(l) PROVE IInv'
    <2>1. TypeOK' /\ Shape'
      BY <1>7 DEF Release, TypeOK, Shape, LeaseState, Live
    <2>2. /\ \A s \in Live : Counted(s)' = Counted(s)
          /\ Holding' = Holding
          /\ \A q \in Listeners : SlotsOf(q)' = SlotsOf(q)
      BY <1>7 DEF Release, Counted, Holding, SlotsOf, TypeOK, Live, Shape
    <2>. QED
      BY <1>7, <2>1, <2>2
      DEF Release, CountersExact, ListenerSlotsExact, HoldingOf, WithinLimits, Live
  <1>8. ASSUME NEW l \in Leases, ReleaseCounters(l) PROVE IInv'
    <2>1. PICK s0 \in Live : s0 = owed[l] /\ lease[l] = "released"
      BY <1>8 DEF ReleaseCounters, TypeOK, Shape
    <2>2. TypeOK' /\ Shape'
      BY <1>8, ControllerTyped DEF ReleaseCounters, TypeOK, Shape, LeaseState, Live
    <2>3a. /\ Counted("opening")' = Counted("opening") \ {l}
           /\ l \in Counted("opening") <=> s0 = "opening"
      BY <1>8, <2>1 DEF ReleaseCounters, Counted, TypeOK, Live
    <2>3b. /\ Counted("active")' = Counted("active") \ {l}
           /\ l \in Counted("active") <=> s0 = "active"
      BY <1>8, <2>1 DEF ReleaseCounters, Counted, TypeOK, Live
    <2>3c. /\ Counted("draining")' = Counted("draining") \ {l}
           /\ l \in Counted("draining") <=> s0 = "draining"
      BY <1>8, <2>1 DEF ReleaseCounters, Counted, TypeOK, Live
    <2>4. Holding' = Holding \ {l} /\ l \in Holding
      BY <1>8 DEF ReleaseCounters, Holding, TypeOK, Shape, Live
    <2>5a. Cardinality(Counted("opening")')
            = IF s0 = "opening" THEN Less(adm.opening) ELSE adm.opening
      <3>1. CASE s0 = "opening"
        BY <2>3a, <3>1, LeaseSets DEF Counted, CountersExact, Less
      <3>2. CASE s0 # "opening"
        <4>1. Counted("opening")' = Counted("opening")
          BY <2>3a, <3>2
        <4>. QED
          BY <3>2, <4>1 DEF CountersExact
      <3>. QED
        BY <3>1, <3>2
    <2>5b. Cardinality(Counted("active")')
            = IF s0 = "active" THEN Less(adm.active) ELSE adm.active
      <3>1. CASE s0 = "active"
        BY <2>3b, <3>1, LeaseSets DEF Counted, CountersExact, Less
      <3>2. CASE s0 # "active"
        <4>1. Counted("active")' = Counted("active")
          BY <2>3b, <3>2
        <4>. QED
          BY <3>2, <4>1 DEF CountersExact
      <3>. QED
        BY <3>1, <3>2
    <2>5c. Cardinality(Counted("draining")')
            = IF s0 = "draining" THEN Less(adm.draining) ELSE adm.draining
      <3>1. CASE s0 = "draining"
        BY <2>3c, <3>1, LeaseSets DEF Counted, CountersExact, Less
      <3>2. CASE s0 # "draining"
        <4>1. Counted("draining")' = Counted("draining")
          BY <2>3c, <3>2
        <4>. QED
          BY <3>2, <4>1 DEF CountersExact
      <3>. QED
        BY <3>1, <3>2
    <2>5. adm.opening > 0 \/ s0 # "opening"
      BY <2>3a, LeaseSets DEF Counted, CountersExact
    <2>5d. adm.active > 0 \/ s0 # "active"
      BY <2>3b, LeaseSets DEF Counted, CountersExact
    <2>5e. adm.draining > 0 \/ s0 # "draining"
      BY <2>3c, LeaseSets DEF Counted, CountersExact
    <2>6. ASSUME NEW p \in Peers
          PROVE  /\ adm'.perPeer[p] = Cardinality(HoldingOf(p)')
                 /\ adm'.perPeer[p] <= adm.perPeer[p]
      <3>1. HoldingOf(p) \in SUBSET Leases
        BY DEF HoldingOf, Holding
      <3>2. CASE PeerOf[l] = p
        <4>1. HoldingOf(p)' = HoldingOf(p) \ {l} /\ l \in HoldingOf(p)
          BY <2>4, <3>2 DEF HoldingOf
        <4>2. /\ Cardinality(HoldingOf(p)') = Cardinality(HoldingOf(p)) - 1
              /\ Cardinality(HoldingOf(p)) > 0
          BY <3>1, <4>1, LeaseSets
        <4>3. adm'.perPeer[p] = Less(adm.perPeer[p])
          BY <1>8, <3>2 DEF ReleaseCounters, Released, RemoveFromPeer, TypeOK, Controller
        <4>. QED
          BY <4>2, <4>3 DEF CountersExact, TypeOK, Controller, Less
      <3>3. CASE PeerOf[l] # p
        <4>1. HoldingOf(p)' = HoldingOf(p)
          BY <2>4, <3>3 DEF HoldingOf
        <4>2. adm'.perPeer[p] = adm.perPeer[p]
          BY <1>8, <3>3 DEF ReleaseCounters, Released, RemoveFromPeer, TypeOK, Controller
        <4>. QED
          BY <4>1, <4>2 DEF CountersExact, TypeOK, Controller
      <3>. QED
        BY <3>2, <3>3
    <2>7. /\ adm'.opening = Cardinality(Counted("opening")')
          /\ adm'.active = Cardinality(Counted("active")')
          /\ adm'.draining = Cardinality(Counted("draining")')
          /\ Connections(adm') = Connections(adm) - 1
      <3>1. /\ adm'.opening = IF s0 = "opening" THEN Less(adm.opening) ELSE adm.opening
            /\ adm'.active = IF s0 = "active" THEN Less(adm.active) ELSE adm.active
            /\ adm'.draining = IF s0 = "draining" THEN Less(adm.draining) ELSE adm.draining
        BY <1>8, <2>1 DEF ReleaseCounters, Released, TypeOK, Controller
      <3>. QED
        BY <2>1, <2>5, <2>5a, <2>5b, <2>5c, <2>5d, <2>5e, <3>1
        DEF Connections, TypeOK, Controller, Less, Live
    <2>8. CountersExact'
      BY <2>6, <2>7 DEF CountersExact
    <2>9. ListenerSlotsExact'
      <3>1. \A q \in Listeners : SlotsOf(q)' = SlotsOf(q)
        BY <1>8, <2>1 DEF ReleaseCounters, SlotsOf, TypeOK
      <3>. QED
        BY <1>8, <3>1 DEF ReleaseCounters, ListenerSlotsExact
    <2>10. WithinLimits'
      <3>1. UNCHANGED used
        BY <1>8 DEF ReleaseCounters
      <3>2. MaxConnections > 0 => Connections(adm') <= MaxConnections
        <4>1. Connections(adm) \in Nat
          BY DEF TypeOK, Controller, Connections
        <4>2. MaxConnections > 0 => Connections(adm) <= MaxConnections
          BY DEF WithinLimits
        <4>. QED
          BY <2>7, <4>1, <4>2, LimitsAssumption
      <3>3. ASSUME MaxConnectionsPerPeer > 0, NEW p \in Peers
            PROVE  adm'.perPeer[p] <= MaxConnectionsPerPeer
        <4>1. adm.perPeer[p] \in Nat /\ adm'.perPeer[p] \in Nat
          BY <2>2 DEF TypeOK, Controller
        <4>2. adm.perPeer[p] <= MaxConnectionsPerPeer
          BY <3>3 DEF WithinLimits
        <4>. QED
          BY <2>6, <4>1, <4>2, LimitsAssumption
      <3>. QED
        BY <3>1, <3>2, <3>3 DEF WithinLimits
    <2>. QED
      BY <2>2, <2>8, <2>9, <2>10
  <1>9. CASE UNCHANGED vars
    <2>1. TypeOK' /\ Shape'
      BY <1>9 DEF vars, TypeOK, Shape
    <2>2. CountersExact'
      BY <1>9 DEF vars, CountersExact, Counted, Holding, HoldingOf
    <2>3. ListenerSlotsExact'
      BY <1>9 DEF vars, ListenerSlotsExact, SlotsOf
    <2>4. WithinLimits'
      BY <1>9 DEF vars, WithinLimits
    <2>. QED
      BY <2>1, <2>2, <2>3, <2>4
  <1>. QED
    BY <1>1, <1>2, <1>3, <1>4, <1>5, <1>6, <1>7, <1>8, <1>9 DEF Next

\* Exact accounting and limits for every number of leases: in all interleavings
\* of acquire, activate, beginDrain and release (limits.go) each counter of the
\* controller is the number of leases it stands for, and the configured limits
\* are never exceeded, whatever their values: draining connections and
\* connections whose release is half done are still counted.
THEOREM LeasesAreAccounted == Spec => []LeasesAccounted
  <1>1. IInv => LeasesAccounted
    BY LimitsFromCounters DEF IInv, LeasesAccounted
  <1>. QED
    BY <1>1, InitIInv, NextIInv, PTL DEF Spec

\* Type correctness of the lease model.
THEOREM TypeCorrect == Spec => []TypeOK
  <1>1. IInv => TypeOK
    BY DEF IInv
  <1>. QED
    BY <1>1, InitIInv, NextIInv, PTL DEF Spec

----------------------------------------------------------------------------
(* Frame slots and byte quotas.                                            *)

\* The types of what the quotas work on.
QuotaTyped ==
    /\ bytes \in [Quotas -> Nat]
    /\ attached \in [Quotas -> SUBSET Sends]
    /\ woken \in SUBSET Sends
    /\ pc \in [Sends -> Labels]

\* The inductive invariant: the budgets and the wake-ups.
QuotaInv == QuotaTyped /\ BudgetHeld /\ NoLostWakeup

\* Only s moves.
Moves(s) ==
    /\ pc' \in [Sends -> Labels]
    /\ \A t \in Sends \ {s} : pc'[t] = pc[t]

\* The quota a waiting Send waits on.
WaitsOn(s, label) == IF label = "localWait" THEN SessionOf[s] ELSE Engine

LEMMA SizesTyped ==
    ASSUME NEW q \in Quotas, NEW s \in Sends
    PROVE  /\ Size[s] \in Nat /\ Charge(q, s) \in Nat /\ Limit(q) \in Nat
           /\ SessionOf[s] \in Quotas /\ SessionOf[s] # Engine /\ Engine \in Quotas
           /\ q # Engine => Limit(q) = LocalLimit
  BY SendAssumption DEF Charge, Limit, Quotas

LEMMA WaiterTyped ==
    ASSUME NEW s \in Sends, NEW label
    PROVE  WaitsOn(s, label) \in Quotas
  BY SizesTyped, SendAssumption DEF WaitsOn, Quotas

LEMMA Lost ==
    NoLostWakeup <=> \A s \in Sends : (pc[s] \in Waiting /\ s \notin woken)
        => s \in attached[WaitsOn(s, pc[s])] /\ ~ Fits(WaitsOn(s, pc[s]), s)
  BY DEF NoLostWakeup, WaitsOn

LEMMA Budgets ==
    BudgetHeld <=> \A q \in Quotas : bytes[q] <= Limit(q)
  BY SendAssumption DEF BudgetHeld, Limit, Quotas

\* A step that touches no quota and lets nobody wait preserves the invariant.
LEMMA QuietStep ==
    ASSUME QuotaInv, UNCHANGED <<bytes, attached>>, woken' = woken,
           NEW s \in Sends, Moves(s), pc'[s] \notin Waiting
    PROVE  QuotaInv'
  <1>1. QuotaTyped' /\ BudgetHeld'
    BY DEF QuotaInv, QuotaTyped, BudgetHeld, Moves
  <1>2. NoLostWakeup'
    BY DEF QuotaInv, NoLostWakeup, Moves, Fits
  <1> QED BY <1>1, <1>2 DEF QuotaInv

\* What did not fit into a budget does not fit when more of it is taken.
LEMMA StillTooMuch ==
    ASSUME NEW m \in Nat, NEW n \in Nat, n >= m, NEW c \in Nat, NEW l \in Nat, ~ (m + c <= l)
    PROVE  ~ (n + c <= l)
  OBVIOUS

\* Taking from one budget.
LEMMA Added ==
    ASSUME NEW Q, NEW f \in [Q -> Nat], NEW q \in Q, NEW c \in Nat, NEW g,
           g = [f EXCEPT ![q] = @ + c]
    PROVE  g \in [Q -> Nat] /\ \A r \in Q : g[r] >= f[r]
  OBVIOUS

LEMMA TakenStep ==
    ASSUME QuotaInv, NEW q \in Quotas, NEW s \in Sends, Moves(s), pc'[s] \notin Waiting,
           Fits(q, s), bytes' = [bytes EXCEPT ![q] = @ + Charge(q, s)],
           UNCHANGED <<attached, woken>>
    PROVE  QuotaInv'
  <1>0. /\ bytes \in [Quotas -> Nat] /\ Charge(q, s) \in Nat
        /\ bytes' \in [Quotas -> Nat] /\ \A r \in Quotas : bytes'[r] >= bytes[r]
    <2>1. bytes \in [Quotas -> Nat] /\ Charge(q, s) \in Nat
      BY SizesTyped DEF QuotaInv, QuotaTyped
    <2> QED BY <2>1, Added
  <1>1. QuotaTyped'
    BY <1>0 DEF QuotaInv, QuotaTyped, Moves
  <1>2. BudgetHeld'
    <2> SUFFICES ASSUME NEW r \in Quotas PROVE bytes'[r] <= Limit(r)
      BY SendAssumption DEF BudgetHeld, Limit, Quotas
    <2>1. bytes[r] <= Limit(r)
      BY Budgets DEF QuotaInv
    <2> QED BY <2>1, SizesTyped DEF QuotaInv, QuotaTyped, Fits
  <1>3. NoLostWakeup'
    <2> SUFFICES ASSUME NEW t \in Sends, pc'[t] \in Waiting, t \notin woken'
                 PROVE  /\ t \in attached'[WaitsOn(t, pc'[t])]
                        /\ ~ (bytes'[WaitsOn(t, pc'[t])] + Charge(WaitsOn(t, pc'[t]), t)
                                <= Limit(WaitsOn(t, pc'[t])))
      BY DEF NoLostWakeup, WaitsOn, Fits
    <2>1. t # s /\ pc'[t] = pc[t] /\ t \notin woken
      BY DEF Moves
    <2> DEFINE r == WaitsOn(t, pc[t])
    <2>2. r \in Quotas
      BY WaiterTyped
    <2>3. t \in attached[r] /\ ~ (bytes[r] + Charge(r, t) <= Limit(r))
      BY <2>1, Lost DEF QuotaInv, Fits
    <2> HIDE DEF r
    <2>4. bytes[r] \in Nat /\ bytes'[r] \in Nat /\ bytes'[r] >= bytes[r]
      BY <1>0, <2>2
    <2>5. Charge(r, t) \in Nat /\ Limit(r) \in Nat
      BY <2>2, SizesTyped
    <2>6. ~ (bytes'[r] + Charge(r, t) <= Limit(r))
      BY <2>3, <2>4, <2>5, StillTooMuch
    <2> QED BY <2>1, <2>3, <2>6 DEF r
  <1> QED BY <1>1, <1>2, <1>3 DEF QuotaInv

LEMMA WaitStep ==
    ASSUME QuotaInv, NEW q \in Quotas, NEW s \in Sends, Moves(s), pc'[s] \in Waiting,
           q = WaitsOn(s, pc'[s]), ~ Fits(q, s), UNCHANGED bytes,
           attached' = [attached EXCEPT ![q] = @ \cup {s}], woken' = woken \ {s}
    PROVE  QuotaInv'
  <1>1. QuotaTyped' /\ BudgetHeld'
    BY DEF QuotaInv, QuotaTyped, BudgetHeld, Moves
  <1>2. NoLostWakeup'
    <2> SUFFICES ASSUME NEW t \in Sends, pc'[t] \in Waiting, t \notin woken'
                 PROVE  /\ t \in attached'[WaitsOn(t, pc'[t])]
                        /\ ~ Fits(WaitsOn(t, pc'[t]), t)
      BY DEF NoLostWakeup, WaitsOn, Fits
    <2>1. WaitsOn(t, pc'[t]) \in Quotas
      BY WaiterTyped
    <2>2. CASE t = s
      BY <2>1, <2>2 DEF QuotaInv, QuotaTyped
    <2>3. CASE t # s
      <3>1. pc'[t] = pc[t] /\ t \notin woken
        BY <2>3 DEF Moves
      <3>2. t \in attached[WaitsOn(t, pc[t])] /\ ~ Fits(WaitsOn(t, pc[t]), t)
        BY <3>1, Lost DEF QuotaInv
      <3> QED BY <2>1, <3>1, <3>2 DEF QuotaInv, QuotaTyped
    <2> QED BY <2>2, <2>3
  <1> QED BY <1>1, <1>2 DEF QuotaInv

LEMMA GiveBackStep ==
    ASSUME QuotaInv, NEW q \in Quotas, NEW s \in Sends, GiveBack(q, s),
           Moves(s), pc'[s] \notin Waiting
    PROVE  QuotaInv'
  <1>1. CASE Charge(q, s) > 0
    <2>1. QuotaTyped'
      <3>1. QuotaTyped /\ Size[s] \in Nat
        BY SizesTyped DEF QuotaInv
      <3>2. bytes' \in [Quotas -> Nat]
        BY <1>1, <3>1 DEF QuotaTyped, GiveBack
      <3>3. attached' \in [Quotas -> SUBSET Sends] /\ woken' \in SUBSET Sends
        BY <1>1, <3>1 DEF QuotaTyped, GiveBack, Notify
      <3> QED BY <3>2, <3>3 DEF QuotaTyped, Moves
    <2>2. BudgetHeld'
      <3> SUFFICES ASSUME NEW r \in Quotas PROVE bytes'[r] <= Limit(r)
        BY SendAssumption DEF BudgetHeld, Limit, Quotas
      <3>1. bytes[r] <= Limit(r)
        BY Budgets DEF QuotaInv
      <3>2. bytes' = [bytes EXCEPT ![q] = IF @ < Size[s] THEN 0 ELSE @ - Size[s]]
        BY <1>1 DEF GiveBack
      <3>3. bytes \in [Quotas -> Nat] /\ Size[s] \in Nat /\ Limit(r) \in Nat
        BY SizesTyped DEF QuotaInv, QuotaTyped
      <3>4. bytes'[r] <= bytes[r]
        <4>1. CASE r # q
          BY <3>2, <3>3, <4>1
        <4>2. CASE r = q
          BY <3>2, <3>3, <4>2
        <4> QED BY <4>1, <4>2
      <3>5. bytes'[r] \in Nat
        BY <2>1 DEF QuotaTyped
      <3> QED BY <3>1, <3>3, <3>4, <3>5
    <2>3. NoLostWakeup'
      <3> SUFFICES ASSUME NEW t \in Sends, pc'[t] \in Waiting, t \notin woken'
                   PROVE  /\ t \in attached'[WaitsOn(t, pc'[t])]
                          /\ ~ (bytes'[WaitsOn(t, pc'[t])] + Charge(WaitsOn(t, pc'[t]), t)
                                  <= Limit(WaitsOn(t, pc'[t])))
        BY DEF NoLostWakeup, WaitsOn, Fits
      <3> DEFINE r == WaitsOn(t, pc[t])
      <3>1. t # s /\ pc'[t] = pc[t] /\ t \notin woken /\ t \notin attached[q]
        BY <1>1 DEF Moves, GiveBack, Notify
      <3>2. r \in Quotas
        BY WaiterTyped
      <3>3. t \in attached[r] /\ ~ (bytes[r] + Charge(r, t) <= Limit(r))
        BY <3>1, Lost DEF QuotaInv, Fits
      <3> HIDE DEF r
      <3>4. r # q
        BY <3>1, <3>3
      <3>5. bytes'[r] = bytes[r] /\ attached'[r] = attached[r]
        BY <1>1, <3>2, <3>4 DEF GiveBack, Notify, QuotaInv, QuotaTyped
      <3> QED BY <3>1, <3>3, <3>5 DEF r
    <2> QED BY <2>1, <2>2, <2>3 DEF QuotaInv
  <1>2. CASE ~ (Charge(q, s) > 0)
    BY <1>2, QuietStep DEF GiveBack
  <1> QED BY <1>1, <1>2

LEMMA InitQuotaInv == SendInit => QuotaInv
  <1> SUFFICES ASSUME SendInit PROVE QuotaInv OBVIOUS
  <1>1. QuotaTyped
    BY DEF SendInit, QuotaTyped, Labels
  <1>2. BudgetHeld
    BY SendAssumption DEF SendInit, BudgetHeld, Quotas
  <1>3. NoLostWakeup
    BY DEF SendInit, NoLostWakeup, Waiting
  <1> QED BY <1>1, <1>2, <1>3 DEF QuotaInv

LEMMA TakeStep ==
    ASSUME QuotaInv, NEW q \in Quotas, NEW s \in Sends, NEW got, NEW wait, NEW fail,
           Take(q, s, got, wait, fail), wait \in Waiting, q = WaitsOn(s, wait),
           got \in Labels \ Waiting, fail \in Labels \ Waiting
    PROVE  QuotaInv'
  <1> wait \in Labels
    BY DEF Waiting, Labels
  <1>1. CASE Fits(q, s)
    <2>1. Moves(s) /\ pc'[s] \notin Waiting
      BY <1>1 DEF Take, Goto, Moves, QuotaInv, QuotaTyped
    <2> QED BY <1>1, <2>1, TakenStep DEF Take
  <1>2. CASE ~ Fits(q, s) /\ (s \in TrySends \/ Size[s] > Limit(q))
    <2>1. Moves(s) /\ pc'[s] \notin Waiting
      BY <1>2 DEF Take, Goto, Moves, QuotaInv, QuotaTyped
    <2> QED BY <1>2, <2>1, QuietStep DEF Take
  <1>3. CASE ~ Fits(q, s) /\ ~ (s \in TrySends \/ Size[s] > Limit(q))
    <2>1. Moves(s) /\ pc'[s] = wait
      BY <1>3 DEF Take, Goto, Moves, QuotaInv, QuotaTyped
    <2> QED BY <1>3, <2>1, WaitStep DEF Take
  <1> QED BY <1>1, <1>2, <1>3

LEMMA StepQuotaInv ==
    ASSUME QuotaInv, NEW s \in Sends, Step(s) \/ Expire(s)
    PROVE  QuotaInv'
  <1>0. /\ SessionOf[s] \in Quotas /\ Engine \in Quotas
        /\ SessionOf[s] = WaitsOn(s, "localWait")
        /\ Engine = WaitsOn(s, "globalWait")
    BY SendAssumption DEF Quotas, WaitsOn
  <1>1. CASE AcquireFrameSlot(s) \/ AcquireEncoder(s) \/ Encode(s) \/ Wake(s)
               \/ UndoEncoder(s) \/ UndoSlot(s) \/ ReleaseFrameSlot(s)
    <2>1. Moves(s) /\ pc'[s] \notin Waiting
      BY <1>1 DEF AcquireFrameSlot, AcquireEncoder, Encode, Wake, UndoEncoder, UndoSlot,
                  ReleaseFrameSlot, Goto, Moves, QuotaInv, QuotaTyped, Waiting, Labels
    <2>2. UNCHANGED <<bytes, attached, woken>>
      BY <1>1 DEF AcquireFrameSlot, AcquireEncoder, Encode, Wake, UndoEncoder, UndoSlot,
                  ReleaseFrameSlot
    <2> QED BY <2>1, <2>2, QuietStep
  <1>2. CASE Expire(s)
    <2>1. Moves(s) /\ pc'[s] \notin Waiting
      BY <1>2 DEF Expire, Goto, Moves, QuotaInv, QuotaTyped, Waiting, Labels
    <2> QED BY <1>2, <2>1, QuietStep DEF Expire
  <1>3. CASE AcquireLocal(s)
    <2>1. Take(SessionOf[s], s, "global", "localWait", "undo")
      BY <1>3 DEF AcquireLocal
    <2>2. /\ "global" \in Labels \ Waiting /\ "undo" \in Labels \ Waiting
          /\ "localWait" \in Waiting
      BY DEF Waiting, Labels
    <2> QED BY <1>0, <2>1, <2>2, TakeStep
  <1>4. CASE AcquireGlobal(s)
    <2>1. Take(Engine, s, "ready", "globalWait", "dropLocal")
      BY <1>4 DEF AcquireGlobal
    <2>2. /\ "ready" \in Labels \ Waiting /\ "dropLocal" \in Labels \ Waiting
          /\ "globalWait" \in Waiting
      BY DEF Waiting, Labels
    <2> QED BY <1>0, <2>1, <2>2, TakeStep
  <1>5. CASE DropLocal(s) \/ ReleaseLocal(s) \/ ReleaseGlobal(s)
    <2>1. Moves(s) /\ pc'[s] \notin Waiting
      BY <1>5 DEF DropLocal, ReleaseLocal, ReleaseGlobal, Goto, Moves, QuotaInv, QuotaTyped,
                  Waiting, Labels
    <2>2. GiveBack(SessionOf[s], s) \/ GiveBack(Engine, s)
      BY <1>5 DEF DropLocal, ReleaseLocal, ReleaseGlobal
    <2> QED BY <1>0, <2>1, <2>2, GiveBackStep
  <1> QED BY <1>1, <1>2, <1>3, <1>4, <1>5 DEF Step

LEMMA NextQuotaInv == QuotaInv /\ [SendNext]_sendVars => QuotaInv'
  <1> SUFFICES ASSUME QuotaInv, [SendNext]_sendVars PROVE QuotaInv' OBVIOUS
  <1>1. CASE \E s \in Sends : Step(s) \/ Expire(s)
    BY <1>1, StepQuotaInv
  <1>2. CASE \E c \in Sessions : CloseSession(c)
    BY <1>2 DEF CloseSession, QuotaInv, QuotaTyped, BudgetHeld, NoLostWakeup, Fits
  <1>3. CASE UNCHANGED sendVars
    BY <1>3 DEF sendVars, QuotaInv, QuotaTyped, BudgetHeld, NoLostWakeup, Fits
  <1> QED BY <1>1, <1>2, <1>3 DEF SendNext

\* byteQuota and globalByteQuota never lose a wake-up and never exceed their
\* limits, for frames of any size and any number of contending Sends.
THEOREM QuotasAreSafe == SendSpec => []QuotasSafe
  <1>1. QuotaInv => QuotasSafe
    BY DEF QuotaInv, QuotasSafe
  <1> QED BY <1>1, InitQuotaInv, NextQuotaInv, PTL DEF SendSpec
============================================================================
