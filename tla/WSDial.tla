------------------------------- MODULE WSDial -------------------------------
(***************************************************************************)
(* Dialing WS and WSS (websocket_client.go, websocket_dial_admission.go).  *)
(* The connection is made, admitted and handed over through a              *)
(* wsDialAdmission by the dial goroutine of a net/http Transport; the      *)
(* goroutine that called Dial takes the lease from there, gives it to the  *)
(* session, or releases it when it returns.  net/http does not stop a dial *)
(* whose request was cancelled: it goes on in the background.              *)
(***************************************************************************)
EXTENDS WSCore

CONSTANTS
    Dials,    \* calls of Engine.Dial
    WSSDials  \* the ones that dial WSS

VARIABLES
    box,        \* calls whose wsDialAdmission holds the lease
    caller,     \* where dialWebSocket is
    dialer,     \* where net/http's dial goroutine is
    cancelled   \* calls whose context ended while net/http was dialing

dialVars == <<box, caller, dialer, cancelled>>
vars == <<coreVars, dialVars>>

TypeOK ==
    /\ box \subseteq Dials /\ cancelled \subseteq Dials
    /\ caller \in [Dials -> {"idle", "op", "dialing", "upgraded", "taken", "returning",
                             "upgradeOver", "opOver", "returned"}]
    /\ dialer \in [Dials -> {"none", "connecting", "admitted", "handshaking", "shaken",
                             "failing", "given", "failed"}]

Init(called) ==
    /\ box = {} /\ cancelled = {}
    /\ caller = [d \in Dials |-> IF d \in called THEN "idle" ELSE "returned"]
    /\ dialer = [d \in Dials |-> "none"]

CallerTo(d, label) == caller' = [caller EXCEPT ![d] = label]

DialerTo(d, label) == dialer' = [dialer EXCEPT ![d] = label]

\* connectionLease.release by whoever has the lease.
ReleaseLease(d) ==
    /\ adm' = Released(adm, lease[d], NoPeer)
    /\ lease' = [lease EXCEPT ![d] = "released"]

----------------------------------------------------------------------------
(* net/http's dial goroutine: dialRaw, DialContext, DialTLSContext.        *)

\* The TCP connection fails, or acquireOpening refuses it.
DialFails(d) ==
    /\ dialer[d] = "connecting"
    /\ DialerTo(d, "failed")
    /\ UNCHANGED <<state, activeOps, adm, lease, box, caller, sessions, serve, cancelled>>

\* dialRaw: acquireOpening does not look at the Engine's state.
DialRaw(d) ==
    /\ dialer[d] = "connecting"
    /\ MayOpen(adm, NoPeer)
    /\ adm' = Opened(adm, NoPeer)
    /\ lease' = [lease EXCEPT ![d] = "opening"]
    /\ DialerTo(d, IF d \in WSSDials THEN "admitted" ELSE "shaken")
    /\ UNCHANGED <<state, activeOps, box, caller, sessions, serve, cancelled>>

AcquireHandshake(d) ==
    /\ dialer[d] = "admitted"
    /\ \/ /\ state = "Running" /\ MayHandshake(adm)
          /\ adm' = HandshakeTaken(adm)
          /\ DialerTo(d, "handshaking")
       \/ /\ state # "Running" \/ ~ MayHandshake(adm)
          /\ DialerTo(d, "failing")
          /\ UNCHANGED adm
    /\ UNCHANGED <<state, activeOps, lease, box, caller, sessions, serve, cancelled>>

\* handshakeClient returns, and handshake.release runs before anything else.
EndHandshake(d) ==
    /\ dialer[d] = "handshaking"
    /\ adm' = HandshakeReturned(adm)
    /\ state' = MaybeDone(state, activeOps, Listening, sessions, adm')
    /\ \E next \in {"shaken", "failing"} : DialerTo(d, next)
    /\ UNCHANGED <<activeOps, lease, box, caller, sessions, serve, cancelled>>

GiveUp(d) ==
    /\ dialer[d] = "failing"
    /\ ReleaseLease(d)
    /\ DialerTo(d, "failed")
    /\ UNCHANGED <<state, activeOps, box, caller, sessions, serve, cancelled>>

\* wsDialAdmission.set; the transport makes one connection, so it is empty.
Set(d) ==
    /\ dialer[d] = "shaken"
    /\ box' = box \cup {d}
    /\ DialerTo(d, "given")
    /\ UNCHANGED <<state, activeOps, adm, lease, caller, sessions, serve, cancelled>>

DialerStep(d) ==
    \/ DialFails(d) \/ DialRaw(d) \/ AcquireHandshake(d) \/ EndHandshake(d)
    \/ GiveUp(d) \/ Set(d)

----------------------------------------------------------------------------
(* dialWebSocket.                                                          *)

BeginOp(d) ==
    /\ caller[d] = "idle"
    /\ \/ /\ state = "Running"
          /\ activeOps' = activeOps + 1
          /\ CallerTo(d, "op")
       \/ /\ state # "Running"
          /\ CallerTo(d, "returned")
          /\ UNCHANGED activeOps
    /\ UNCHANGED <<state, adm, lease, box, dialer, sessions, serve, cancelled>>

\* websocket.Dial then starts the transport's dial.
AcquireUpgrade(d) ==
    /\ caller[d] = "op"
    /\ \/ /\ state = "Running" /\ MayUpgrade(adm)
          /\ adm' = UpgradeTaken(adm)
          /\ CallerTo(d, "dialing") /\ DialerTo(d, "connecting")
       \/ /\ state # "Running" \/ ~ MayUpgrade(adm)
          /\ CallerTo(d, "opOver")
          /\ UNCHANGED <<adm, dialer>>
    /\ UNCHANGED <<state, activeOps, lease, box, sessions, serve, cancelled>>

\* websocket.Dial succeeds; a cipher that cannot be made is a failure below.
Upgraded(d) ==
    /\ caller[d] = "dialing" /\ dialer[d] = "given"
    /\ CallerTo(d, "upgraded")
    /\ UNCHANGED <<state, activeOps, adm, lease, box, dialer, sessions, serve, cancelled>>

\* The dial has failed, or the upgrade or the cipher fails.
DialReturnsError(d) ==
    /\ caller[d] = "upgraded" \/ (caller[d] = "dialing" /\ dialer[d] \in {"given", "failed"})
    /\ CallerTo(d, "returning")
    /\ UNCHANGED <<state, activeOps, adm, lease, box, dialer, sessions, serve, cancelled>>

\* The context ends, websocket.Dial returns, and net/http dials on.
ContextEnds(d) ==
    /\ caller[d] = "dialing" /\ dialer[d] \notin {"given", "failed"}
    /\ cancelled' = cancelled \cup {d}
    /\ CallerTo(d, "returning")
    /\ UNCHANGED <<state, activeOps, adm, lease, box, dialer, sessions, serve>>

Take(d) ==
    /\ caller[d] = "upgraded"
    /\ box' = box \ {d}
    /\ CallerTo(d, "taken")
    /\ UNCHANGED <<state, activeOps, adm, lease, dialer, sessions, serve, cancelled>>

\* addWebSocketWithLease.
AddWebSocket(d) ==
    /\ caller[d] = "taken"
    /\ \/ /\ state = "Running"
          /\ adm' = Activated(adm)
          /\ lease' = [lease EXCEPT ![d] = "active"]
          /\ sessions' = sessions \cup {d}
       \/ /\ state # "Running"
          /\ ReleaseLease(d)
          /\ UNCHANGED sessions
    /\ CallerTo(d, "returning")
    /\ UNCHANGED <<state, activeOps, serve, box, dialer, cancelled>>

\* The deferred state.release: what is still in the box.
ReleaseBox(d) ==
    /\ caller[d] = "returning"
    /\ box' = box \ {d}
    /\ IF d \in box THEN ReleaseLease(d) ELSE UNCHANGED <<adm, lease>>
    /\ CallerTo(d, "upgradeOver")
    /\ UNCHANGED <<state, activeOps, dialer, sessions, serve, cancelled>>

ReleaseUpgrade(d) ==
    /\ caller[d] = "upgradeOver"
    /\ adm' = UpgradeReturned(adm)
    /\ state' = MaybeDone(state, activeOps, Listening, sessions, adm')
    /\ CallerTo(d, "opOver")
    /\ UNCHANGED <<activeOps, lease, box, dialer, sessions, serve, cancelled>>

\* A mutant: the end of the call does not look whether the Engine is done.
EndOpQuietly(d) ==
    /\ caller[d] = "opOver"
    /\ activeOps' = activeOps - 1
    /\ CallerTo(d, "returned")
    /\ UNCHANGED <<state, adm, lease, box, dialer, sessions, serve, cancelled>>

EndOp(d) ==
    /\ caller[d] = "opOver"
    /\ activeOps' = activeOps - 1
    /\ state' = MaybeDone(state, activeOps', Listening, sessions, adm)
    /\ CallerTo(d, "returned")
    /\ UNCHANGED <<adm, lease, box, dialer, sessions, serve, cancelled>>

CallerStep(d) ==
    \/ AcquireUpgrade(d) \/ Upgraded(d) \/ DialReturnsError(d) \/ Take(d)
    \/ AddWebSocket(d) \/ ReleaseBox(d) \/ ReleaseUpgrade(d) \/ EndOp(d)

\* removeWebSocket, when the session is done.
SessionEnds(d) ==
    /\ d \in sessions
    /\ sessions' = sessions \ {d}
    /\ ReleaseLease(d)
    /\ state' = MaybeDone(state, activeOps, Listening, sessions', adm')
    /\ UNCHANGED <<activeOps, serve, box, caller, dialer, cancelled>>

Next ==
    \E d \in Dials : BeginOp(d) \/ ContextEnds(d) \/ CallerStep(d) \/ DialerStep(d) \/ SessionEnds(d)

\* Every call has returned and every dial is over.
Quiet ==
    \A d \in Dials :
        d \notin sessions /\ caller[d] = "returned" /\ dialer[d] \in {"none", "given", "failed"}

\* What the program does by itself: dials, handshakes and upgrades are bounded by
\* their timeouts; a closing Engine ends its sessions.
Progress ==
    \E d \in Dials : CallerStep(d) \/ DialerStep(d) \/ (state # "Running" /\ SessionEnds(d))
=============================================================================
