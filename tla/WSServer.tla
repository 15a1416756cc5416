------------------------------ MODULE WSServer ------------------------------
(***************************************************************************)
(* A WS or WSS listener and the connections it accepts, from Accept to the *)
(* session or to the end of the HTTP connection (websocket_server.go,      *)
(* websocket_server_admission.go, websocket_tls.go), with the part of the  *)
(* Engine they share: its state, activeOps, the admission controller and   *)
(* the maybeDone check.  A connection's lease passes from Accept to the    *)
(* tracker, to the upgrade handler and to the session, while the closing   *)
(* listener and the HTTP server take it away from whoever has it.          *)
(***************************************************************************)
EXTENDS WSCore

CONSTANT Conns   \* connections that arrive

VARIABLES
    secure,     \* is it a WSS listener?  (fixed by Listen)
    holder,     \* state of each connection's httpConnLease
    by,         \* who is inside httpConnLease.release, if anybody
    pc,         \* where the goroutine that has the connection is
    units,      \* connections whose handshake goroutine has its handshake unit
    lpc,        \* the body of wsListener.closeOnce
    todo        \* holders closeAll has still to release

engineVars == <<secure, state, activeOps, adm>>
closeVars == <<lpc, todo, serve>>
serverVars == <<secure, holder, by, pc, units, lpc, todo>>
vars == <<coreVars, serverVars>>

PC == {"idle", "accepted", "op", "registered", "notAdmitted", "raw", "handshaking",
       "ready", "hsReleasing", "http", "handler", "upgrading", "hijacked", "adopting", "refused",
       "leaving", "closing", "releasing", "out"}

TypeOK ==
    /\ secure \in BOOLEAN
    /\ holder \in [Conns -> {"none", "held", "transferred", "released"}]
    /\ by \in [Conns -> {"nobody", "listener", "conn"}]
    /\ pc \in [Conns -> PC]
    /\ units \subseteq Conns
    /\ lpc \in {"open", "shut", "closeAll", "closed"}
    /\ todo \subseteq Conns
    /\ serve \in {"serving", "returned", "removed"}

\* The listener accepts the connections of an Engine, or there is no listener.
Init(accepted) ==
    /\ secure \in IF accepted = {} THEN {FALSE} ELSE BOOLEAN
    /\ holder = [k \in Conns |-> "none"]
    /\ by = [k \in Conns |-> "nobody"]
    /\ pc = [k \in Conns |-> IF k \in accepted THEN "idle" ELSE "out"]
    /\ units = {} /\ todo = {}
    /\ lpc = IF accepted = {} THEN "closed" ELSE "open"
    /\ serve = IF accepted = {} THEN "removed" ELSE "serving"

\* Connections inside Accept: one at a time, in the loop of one goroutine.
Accepting == {k \in Conns : pc[k] \in {"accepted", "op", "registered", "notAdmitted"}}

Goto(k, label) == pc' = [pc EXCEPT ![k] = label]

----------------------------------------------------------------------------
(* The listener closes.                                                    *)

\* The first part of wsListener.Close: closing, cancel, Server.Close, ln.Close.
\* It is called by the Engine, the application, the listen context or, after
\* Serve, by its goroutine.
CloseListener ==
    /\ lpc = "open"
    /\ lpc' = "shut"
    /\ UNCHANGED <<engineVars, lease, holder, by, pc, units, sessions, todo, serve>>

\* closeAll takes its snapshot of the tracker ...
Snapshot ==
    /\ lpc = "shut"
    /\ lpc' = "closeAll"
    /\ todo' = {k \in Conns : holder[k] = "held"}
    /\ UNCHANGED <<engineVars, lease, holder, by, pc, units, sessions, serve>>

\* httpConnLease.release and take go on only if the holder still has the lease.
Held(k) == holder[k] = "held"

\* ... and releases what is still held.
ReleaseNext(k) ==
    /\ lpc = "closeAll"
    /\ \A q \in Conns : by[q] # "listener"
    /\ k \in todo
    /\ todo' = todo \ {k}
    /\ IF Held(k)
       THEN holder' = [holder EXCEPT ![k] = "released"] /\ by' = [by EXCEPT ![k] = "listener"]
       ELSE UNCHANGED <<holder, by>>
    /\ UNCHANGED <<engineVars, lease, pc, units, sessions, lpc, serve>>

\* The end of httpConnLease.release: lease.release, for the listener or for the
\* connection's own goroutine.  Nobody calls maybeDone.
ReleaseLease(k) ==
    /\ by[k] # "nobody"
    /\ adm' = Released(adm, lease[k], NoPeer)
    /\ lease' = [lease EXCEPT ![k] = "released"]
    /\ by' = [by EXCEPT ![k] = "nobody"]
    /\ UNCHANGED <<secure, state, activeOps, holder, pc, units, sessions, closeVars>>

CloseAllEnds ==
    /\ lpc = "closeAll"
    /\ todo = {} /\ \A q \in Conns : by[q] # "listener"
    /\ lpc' = "closed"
    /\ UNCHANGED <<engineVars, lease, holder, by, pc, units, sessions, todo, serve>>

\* Serve returns, because the listener is closed or its Accept has failed.  A
\* WSS listener accepts in a goroutine of its own, acceptLoop.
ServeReturns ==
    /\ serve = "serving"
    /\ secure \/ Accepting = {}
    /\ serve' = "returned"
    /\ UNCHANGED <<engineVars, lease, holder, by, pc, units, sessions, lpc, todo>>

\* Its goroutine calls Close, waits for the body of closeOnce, and then
\* removeWSListener.
RemoveListener ==
    /\ serve = "returned" /\ lpc = "closed"
    /\ serve' = "removed"
    /\ state' = MaybeDone(state, activeOps, FALSE, sessions, adm)
    /\ UNCHANGED <<secure, activeOps, adm, lease, holder, by, pc, units, sessions, lpc, todo>>

----------------------------------------------------------------------------
(* admittedHTTPListener.Accept.                                            *)

Accept(k) ==
    /\ pc[k] = "idle"
    /\ lpc = "open" /\ serve = "serving" /\ Accepting = {}
    /\ Goto(k, "accepted")
    /\ UNCHANGED <<engineVars, lease, holder, by, units, sessions, closeVars>>

BeginOp(k, at, admitted, refused) ==
    /\ pc[k] = at
    /\ \/ /\ state = "Running"
          /\ activeOps' = activeOps + 1
          /\ Goto(k, admitted)
       \/ /\ state # "Running"
          /\ Goto(k, refused)
          /\ UNCHANGED activeOps
    /\ UNCHANGED <<secure, state, adm, lease, holder, by, units, sessions, closeVars>>

EndOp(k, at, next) ==
    /\ pc[k] = at
    /\ activeOps' = activeOps - 1
    /\ state' = MaybeDone(state, activeOps', Listening, sessions, adm)
    /\ Goto(k, next)
    /\ UNCHANGED <<secure, adm, lease, holder, by, units, sessions, closeVars>>

\* acquireOpeningForListener and register, which do not look at the Engine.
AcquireOpening(k) ==
    /\ pc[k] = "op"
    /\ \/ /\ MayOpen(adm, NoPeer)
          /\ adm' = Opened(adm, NoPeer)
          /\ lease' = [lease EXCEPT ![k] = "opening"]
          /\ holder' = [holder EXCEPT ![k] = "held"]
          /\ Goto(k, "registered")
       \/ /\ Goto(k, "notAdmitted")  \* also by the listener's own capacity
          /\ UNCHANGED <<adm, lease, holder>>
    /\ UNCHANGED <<secure, state, activeOps, by, units, sessions, closeVars>>

AcceptStep(k) ==
    \/ BeginOp(k, "accepted", "op", "out")
    \/ AcquireOpening(k)
    \/ EndOp(k, "registered", IF secure THEN "raw" ELSE "http")
    \/ EndOp(k, "notAdmitted", "out")

----------------------------------------------------------------------------
(* gatedTLSListener.handshake.                                             *)


\* releaseConn by the connection's goroutine: the holder, then the lease.
ReleaseConn(k, next) ==
    /\ IF Held(k)
       THEN holder' = [holder EXCEPT ![k] = "released"] /\ by' = [by EXCEPT ![k] = "conn"]
       ELSE UNCHANGED <<holder, by>>
    /\ Goto(k, next)
    /\ UNCHANGED <<engineVars, lease, units, sessions, closeVars>>

AcquireHandshake(k) ==
    /\ pc[k] = "raw"
    /\ \/ /\ state = "Running" /\ MayHandshake(adm)
          /\ adm' = HandshakeTaken(adm)
          /\ units' = units \cup {k}
          /\ Goto(k, "handshaking")
          /\ UNCHANGED <<secure, state, activeOps, lease, holder, by, sessions, closeVars>>
       \/ /\ state # "Running" \/ ~ MayHandshake(adm)
          /\ ReleaseConn(k, "releasing")

\* The handshake fails; or it succeeds and rebind finds the holder, or not.
EndHandshake(k) ==
    /\ pc[k] = "handshaking"
    /\ \/ ReleaseConn(k, "hsReleasing")
       \/ /\ Goto(k, IF Held(k) THEN "ready" ELSE "out")
          /\ UNCHANGED <<engineVars, lease, holder, by, units, sessions, closeVars>>

\* The connection is handed to Serve, or the listener's context is over.
HandOver(k) ==
    /\ pc[k] = "ready"
    /\ serve = "serving"
    /\ Goto(k, "http")
    /\ UNCHANGED <<engineVars, lease, holder, by, units, sessions, closeVars>>

NotHandedOver(k) ==
    /\ pc[k] = "ready"
    /\ lpc # "open" \/ serve # "serving"
    /\ ReleaseConn(k, "hsReleasing")

\* The deferred handshake.release, which may come long after the hand-over.
ReleaseHandshake(k) ==
    /\ k \in units
    /\ pc[k] \notin {"handshaking", "ready", "hsReleasing"}
    /\ units' = units \ {k}
    /\ adm' = HandshakeReturned(adm)
    /\ state' = MaybeDone(state, activeOps, Listening, sessions, adm')
    /\ UNCHANGED <<secure, activeOps, lease, holder, by, pc, sessions, closeVars>>

HandshakeStep(k) ==
    \/ AcquireHandshake(k) \/ EndHandshake(k) \/ HandOver(k) \/ NotHandedOver(k)

----------------------------------------------------------------------------
(* http.Server's goroutine and the upgrade handler.                        *)

\* The peer, a timeout of the server or Server.Close ends the connection before
\* a request reaches the handler.
HTTPEnds(k) ==
    /\ pc[k] = "http"
    /\ Goto(k, "closing")
    /\ UNCHANGED <<engineVars, lease, holder, by, units, sessions, closeVars>>

\* connState(StateClosed).
StateClosed(k) == pc[k] = "closing" /\ ReleaseConn(k, "releasing")

ConnReturns(k) ==
    /\ pc[k] \in {"releasing", "hsReleasing"} /\ by[k] # "conn"
    /\ Goto(k, "out")
    /\ UNCHANGED <<engineVars, lease, holder, by, units, sessions, closeVars>>

\* The holder is read from the context that ConnContext built: a holder that was
\* released since then may or may not be in it.
AcquireUpgrade(k) ==
    /\ pc[k] = "handler"
    /\ \/ /\ state = "Running" /\ MayUpgrade(adm)
          /\ adm' = UpgradeTaken(adm)
          /\ Goto(k, "upgrading")
       \/ /\ state # "Running" \/ ~ MayUpgrade(adm) \/ ~ Held(k)
          /\ Goto(k, "refused")
          /\ UNCHANGED adm
    /\ UNCHANGED <<secure, state, activeOps, lease, holder, by, units, sessions, closeVars>>

\* websocket.Accept succeeds or fails, and upgrade.release.
Upgrade(k) ==
    /\ pc[k] = "upgrading"
    /\ adm' = UpgradeReturned(adm)
    /\ state' = MaybeDone(state, activeOps, Listening, sessions, adm')
    /\ \E next \in {"hijacked", "refused"} : Goto(k, next)
    /\ UNCHANGED <<secure, activeOps, lease, holder, by, units, sessions, closeVars>>

\* holder.takeWithPhysical.
TakeWithPhysical(k) ==
    /\ pc[k] = "hijacked"
    /\ IF Held(k)
       THEN holder' = [holder EXCEPT ![k] = "transferred"] /\ Goto(k, "adopting")
       ELSE Goto(k, "leaving") /\ UNCHANGED holder
    /\ UNCHANGED <<engineVars, lease, by, units, sessions, closeVars>>

\* addWebSocketWithLease activates the lease and tracks the session.
AddWebSocket(k) ==
    /\ pc[k] = "adopting"
    /\ state = "Running"
    /\ adm' = Activated(adm)
    /\ lease' = [lease EXCEPT ![k] = "active"]
    /\ sessions' = sessions \cup {k}
    /\ Goto(k, "leaving")
    /\ UNCHANGED <<secure, state, activeOps, holder, by, units, closeVars>>

\* A mutant: the failed handler does not release the lease it took over.
AbandonLease(k) ==
    /\ pc[k] = "adopting"
    /\ Goto(k, "leaving")
    /\ UNCHANGED <<engineVars, lease, holder, by, units, sessions, closeVars>>

\* newCipher or addWebSocketWithLease fails, and the deferred release runs.
NotAdopted(k) ==
    /\ pc[k] = "adopting"
    /\ adm' = Released(adm, lease[k], NoPeer)
    /\ lease' = [lease EXCEPT ![k] = "released"]
    /\ Goto(k, "leaving")
    /\ UNCHANGED <<secure, state, activeOps, holder, by, units, sessions, closeVars>>

HTTPStep(k) ==
    \/ HTTPEnds(k) \/ StateClosed(k)
    \/ BeginOp(k, "http", "handler", "closing")
    \/ AcquireUpgrade(k) \/ Upgrade(k) \/ TakeWithPhysical(k)
    \/ AddWebSocket(k) \/ NotAdopted(k)
    \/ EndOp(k, "refused", "closing")
    \/ EndOp(k, "leaving", "out")

\* removeWebSocket, when the session is done.
SessionEnds(k) ==
    /\ k \in sessions
    /\ sessions' = sessions \ {k}
    /\ adm' = Released(adm, lease[k], NoPeer)
    /\ lease' = [lease EXCEPT ![k] = "released"]
    /\ state' = MaybeDone(state, activeOps, Listening, sessions', adm')
    /\ UNCHANGED <<secure, activeOps, holder, by, pc, units, closeVars>>

\* The goroutine that has the connection.
ConnStep(k) == AcceptStep(k) \/ HandshakeStep(k) \/ HTTPStep(k) \/ ConnReturns(k)

ListenerStep ==
    \/ Snapshot \/ CloseAllEnds \/ RemoveListener
    \/ \E k \in Conns : ReleaseNext(k)

Next ==
    \/ CloseListener \/ ServeReturns \/ ListenerStep
    \/ \E k \in Conns :
          \/ Accept(k) \/ ConnStep(k)
          \/ ReleaseHandshake(k) \/ ReleaseLease(k) \/ SessionEnds(k)

\* Nothing is left to do.
Quiet ==
    /\ serve = "removed" /\ units = {}
    /\ \A k \in Conns : k \notin sessions /\ pc[k] \in {"idle", "out"} /\ by[k] = "nobody"

\* What the program does by itself: the goroutines run; handshakes, requests and HTTP
\* connections are bounded by the handshake timeout; a closing Engine closes its
\* listener and ends its sessions, and a closed listener ends Serve.
Progress ==
    \/ ListenerStep
    \/ (state # "Running" \/ serve = "returned") /\ CloseListener
    \/ lpc # "open" /\ ServeReturns
    \/ \E k \in Conns :
          \/ ConnStep(k) \/ ReleaseLease(k) \/ ReleaseHandshake(k)
          \/ state # "Running" /\ SessionEnds(k)
=============================================================================
