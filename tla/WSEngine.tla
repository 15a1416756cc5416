------------------------------ MODULE WSEngine ------------------------------
(***************************************************************************)
(* One Engine with a WS or WSS listener and WS and WSS dials: WSServer and *)
(* WSDial with the state, the operations, the admission controller and the *)
(* sessions they share, and the Close of the Engine.                       *)
(***************************************************************************)
EXTENDS WSCore

CONSTANTS
    Conns,     \* connections the listener may get
    Dials,     \* calls of Engine.Dial
    WSSDials,  \* the ones that dial WSS
    Casts      \* the sets of connections and dials that may happen in one behaviour

ASSUME WSEngineAssumption ==
    /\ IsFiniteSet(Conns) /\ IsFiniteSet(Dials) /\ Conns \cap Dials = {}
    /\ WSSDials \subseteq Dials
    /\ Casts \subseteq SUBSET (Conns \cup Dials)

VARIABLES secure, holder, by, pc, units, lpc, todo,  \* of WSServer
          box, caller, dialer, cancelled             \* of WSDial

serverVars == <<secure, holder, by, pc, units, lpc, todo>>
dialVars == <<box, caller, dialer, cancelled>>
vars == <<coreVars, serverVars, dialVars>>

Server == INSTANCE WSServer
Dialing == INSTANCE WSDial

TypeOK ==
    /\ state \in {"Running", "Closing", "Done"}
    /\ activeOps \in 0..Cardinality(Conns \cup Dials)
    /\ adm \in Controller
    /\ lease \in [Conns \cup Dials -> {"none", "opening", "active", "released"}]
    /\ sessions \subseteq Conns \cup Dials
    /\ Server!TypeOK /\ Dialing!TypeOK

Init ==
    /\ state = "Running" /\ activeOps = 0 /\ adm = NewController
    /\ lease = [k \in Conns \cup Dials |-> "none"]
    /\ sessions = {}
    /\ \E cast \in Casts : Server!Init(cast \cap Conns) /\ Dialing!Init(cast \cap Dials)

\* Close of the Engine: beginAbort.  It goes on to close the listener and the
\* sessions, which are steps of their own.
EngineCloses ==
    /\ state = "Running"
    /\ state' = MaybeDone("Closing", activeOps, Listening, sessions, adm)
    /\ UNCHANGED <<activeOps, adm, lease, sessions, serve, serverVars, dialVars>>

ServerStep == Server!Next /\ UNCHANGED dialVars
DialStep == Dialing!Next /\ UNCHANGED serverVars

\* Nothing is left to do.
Quiet == state # "Running" /\ Server!Quiet /\ Dialing!Quiet /\ UNCHANGED vars

Next == EngineCloses \/ ServerStep \/ DialStep \/ Quiet

Spec == Init /\ [][Next]_vars

\* As long as something can make progress, something does: no more is asked of the
\* scheduler, since no behaviour makes progress for ever.
Progress ==
    \/ Server!Progress /\ UNCHANGED dialVars
    \/ Dialing!Progress /\ UNCHANGED serverVars

FairSpec == Spec /\ WF_vars(Progress)

----------------------------------------------------------------------------
(* Properties.                                                             *)

Count(S) == Cardinality(S)

\* The admission counters are, at every step, exactly what connections, calls,
\* dial goroutines and sessions own: no path of Accept, handshake, handler,
\* closeAll, StateClosed or Dial counts a connection twice or forgets one, also
\* when a cancelled call returns before its dial does.
AdmissionExact ==
    /\ TypeOK
    /\ adm.opening = Count({k \in DOMAIN lease : lease[k] = "opening"})
    /\ adm.active = Count(sessions) /\ sessions = {k \in DOMAIN lease : lease[k] = "active"}
    /\ adm.handshakes = Count(units) + Count({d \in Dials : dialer[d] = "handshaking"})
    /\ adm.upgrades = Count({k \in Conns : pc[k] = "upgrading"})
         + Count({d \in Dials : caller[d] \in {"dialing", "upgraded", "taken", "returning",
                                               "upgradeOver"}})

\* The call and its dial goroutine are over.
Over(d) == caller[d] \in {"idle", "returned"} /\ dialer[d] \in {"none", "given", "failed"}

\* A lease that is opening has exactly one owner who will release it.  Of a
\* connection of the listener that is the tracker's holder, a release in progress,
\* or the handler that took it over; the holder's connection is still in the hands
\* of a goroutine, so that nothing depends on closeAll having seen it.  Of a dial it
\* is the call or its dial goroutine; only a call whose context ended while net/http
\* was dialing leaves a lease behind, in the wsDialAdmission it abandoned.
LeaseHasOwner ==
    /\ \A k \in Conns :
         /\ lease[k] = "opening" <=> \/ holder[k] = "held"
                                     \/ by[k] # "nobody"
                                     \/ pc[k] = "adopting"
         /\ holder[k] = "held" => pc[k] \notin {"idle", "out", "leaving", "releasing"}
    /\ \A d \in Dials : Over(d) /\ lease[d] = "opening" => d \in cancelled /\ d \in box

\* The counters count the leases, and every lease has an owner (httpConnLease,
\* wsDialAdmission).
LeasesAccounted == AdmissionExact /\ LeaseHasOwner

\* A call that is over keeps no admission: its connection belongs to a session or
\* its lease is released, whichever of dial goroutine and caller had it last.
DialReturnsLease == \A d \in Dials : Over(d) => lease[d] # "opening"

\* Once the Engine is Done, no operation, listener, session, handshake, upgrade or
\* connection of it is left, and none appears (maybeDoneLocked), except the lease
\* that a cancelled dial takes or keeps behind its back.
DoneOwnsNothing ==
    state = "Done" =>
        /\ serve = "removed" /\ sessions = {} /\ adm.handshakes = 0
        /\ \A k \in Conns :
             /\ lease[k] \in {"none", "released"} /\ by[k] = "nobody"
             /\ pc[k] \notin {"op", "registered", "notAdmitted", "handler", "upgrading",
                              "hijacked", "adopting", "refused", "leaving"}
        /\ \A d \in Dials : caller[d] \in {"idle", "returned"}
        /\ \A d \in Dials \ cancelled : lease[d] # "opening" /\ d \notin box


\* An Engine that is closing becomes Done (docs: Done still closes eventually,
\* after all internal work).
ClosingReachesDone == (state = "Closing") ~> (state = "Done")

\* There are just two ways for a closing Engine never to be Done: the context of a
\* dial ended while net/http was dialing, and httpConnLease.release, which does not
\* look whether it gave back the last thing the Engine was waiting for.
OnlyTheseKeepItOpen ==
    (state = "Closing") ~>
        (state = "Done" \/ cancelled # {} \/ \E k \in Conns : holder[k] = "released")
=============================================================================
