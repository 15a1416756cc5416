----------------------------- MODULE MCServices -----------------------------
(***************************************************************************)
(* The services that sessions and the Engine rest on, each with the        *)
(* instance it is checked on.  They share no state, so a behaviour is that *)
(* of one of them, which part names, while the others stay as they began.  *)
(*   lease: four connections of two peers and one unknown peer on one      *)
(*     listener; every limit is reached by fewer connections than there    *)
(*     are.                                                                *)
(*   quota: three calls on one session and one on another.  a1 and b1      *)
(*     together exceed the Engine's budget, a1 and a2 that of their        *)
(*     session, and a2 alone is larger than the Engine's budget.           *)
(*   clock: a reader and a writer that touch the clock of their session.   *)
(*   error: one call that fails, with every failure the code tells apart.  *)
(***************************************************************************)
EXTENDS ConnectionLease, SendAdmission, TLC

CONSTANTS l1, l2, l3, l4, p1, p2, q1, a1, a2, a3, b1, A, B, reader, writer,
          Touchers, connectionIdle, maxLifetime, MaxTime

MCLeases == {l1, l2, l3, l4}
MCPeers == {p1, p2}
MCPeerOf == (l1 :> p1) @@ (l2 :> p1) @@ (l3 :> p2) @@ (l4 :> NoPeer)
MCListeners == {q1}
MCListenerOf == (l1 :> q1) @@ (l2 :> NoListener) @@ (l3 :> q1) @@ (l4 :> q1)

FourSends == {a1, a2, a3, b1}
MCTry == {a3}
MCSessions == {A, B}
MCSessionOf == [s \in FourSends |-> IF s = b1 THEN B ELSE A]
MCSize == (a1 :> 2) @@ (a2 :> 4) @@ (a3 :> 1) @@ (b1 :> 2)

Both == {reader, writer}

VARIABLES part,
          now, last, wake, clockClosing, tpc, seen, kpc, armed, found, expired,
          latest, known, overtaken,
          call, step, caller, parent, operation, failure, late, err, result

Clock == INSTANCE ActivityClock WITH closing <- clockClosing
Errors == INSTANCE ErrorModel

clockVars == <<now, last, wake, clockClosing, tpc, seen, kpc, armed, found, expired,
               latest, known, overtaken>>
errorVars == <<call, step, caller, parent, operation, failure, late, err, result>>
servicesVars == <<part, vars, sendVars, clockVars, errorVars>>

ServicesInit ==
    /\ part \in {"lease", "quota", "clock", "error"}
    /\ Init /\ SendInit /\ Clock!Init
    /\ IF part = "error" THEN Errors!Init ELSE call = "none" /\ Errors!Begins

OfLease == part = "lease" /\ UNCHANGED <<part, sendVars, clockVars, errorVars>>
OfQuota == part = "quota" /\ UNCHANGED <<part, vars, clockVars, errorVars>>
OfClock == part = "clock" /\ UNCHANGED <<part, vars, sendVars, errorVars>>
OfErrors == part = "error" /\ UNCHANGED <<part, vars, sendVars, clockVars>>

ServicesNext ==
    \/ OfLease /\ Next
    \/ OfQuota /\ SendNext
    \/ OfClock /\ Clock!Next
    \/ OfErrors /\ Errors!Next

\* The fairness of SendAdmission and of ActivityClock.
ServicesSpec ==
    /\ ServicesInit /\ [][ServicesNext]_servicesVars
    /\ WF_servicesVars(OfQuota /\ Progress)
    /\ WF_servicesVars(OfClock /\ Clock!Tick)
    /\ WF_servicesVars(OfClock /\ Clock!Runs)
    /\ SF_servicesVars(OfClock /\ Clock!SelectTimer)

\* The clock closes a session neither early nor late.
ExpiresOnTime == Clock!ExpiresOnTime

\* Nobody waits in a service for ever: every Send obtains its resources or is
\* refused, and returns them; with a lifetime limit the clock's goroutine returns.
WaitsEnd == SendsEnd /\ (part = "clock" => Clock!ClockReturns)


=============================================================================
