--------------------------- MODULE PacketSession ---------------------------
(***************************************************************************)
(* One UDP packet connection (transport/packet.go, packet_graceful.go):    *)
(* its writer, reader and activity-clock goroutines and the finalizer, and *)
(* the calls that end it: Close (by the application, by Engine.Close or by *)
(* the watcher of the listen context) and the drain that Engine.Shutdown   *)
(* asks for.  There is no half-close: everybody who closes runs, or waits  *)
(* for, the body of one sync.Once.                                         *)
(***************************************************************************)
EXTENDS SendPath

CONSTANTS
    Enders,    \* goroutines that ask for a drain, call Close, or both
    HasClock   \* is it a dialed connection with an activity clock?

ASSUME PacketAssumption == HasClock \in BOOLEAN

VARIABLES
    drainReq,    \* is the drainReq channel closed?
    err,         \* packetConn.err
    closeBy,     \* who won closeOnce, and for what
    closeAt,     \* how far the body of closeOnce has come
    socket,      \* open, or closed by us
    epc,         \* enders
    wpc, back,   \* writer; where to resume after a write
    rpc, kpc, fpc,  \* reader, activity clock, finalizer
    closedWith   \* history: the error OnClose was called with

onceVars == <<err, closeBy, closeAt>>
endVars == <<onceVars, gateClosed, closing, socket, drainReq>>
loopVars == <<epc, wpc, back, rpc, kpc, fpc, closedWith>>
vars == <<endVars, sendVars, loopVars>>

TypeOK ==
    /\ SendTypeOK
    /\ drainReq \in BOOLEAN
    /\ err \in {"nil", "cause"}
    /\ closeBy \in {"nobody", "caller", "drained", "write", "read", "clock", "final"}
    /\ closeAt \in {"none", "gate", "closing", "socket", "end"}
    /\ socket \in {"open", "closed"}
    /\ epc \in [Enders -> {"idle", "closing", "returned"}]
    /\ wpc \in {"run", "drain", "writing", "failed", "finish", "defer", "exited"}
    /\ rpc \in {"reading", "exiting", "exited"}
    /\ kpc \in {"running", "exiting", "exited"}
    /\ fpc \in {"waiting", "closing", "onClose", "done"}
    /\ closedWith \in {"none", "nil", "cause"}

Init ==
    /\ SendInit(Senders)
    /\ drainReq = FALSE /\ err = "nil" /\ closeBy = "nobody" /\ closeAt = "none"
    /\ socket = "open"
    /\ epc = [e \in Enders |-> "idle"]
    /\ wpc = "run" /\ back = "run" /\ rpc = "reading"
    /\ kpc = (IF HasClock THEN "running" ELSE "exited")
    /\ fpc = "waiting" /\ closedWith = "none"

done == fpc = "done"

----------------------------------------------------------------------------
(* initiateClose.                                                          *)

\* The call wins closeOnce and publishes its cause, or finds it taken.
InitiateClose(by, cause) ==
    /\ IF closeAt = "none"
       THEN closeAt' = "gate" /\ closeBy' = by /\ err' = cause
       ELSE UNCHANGED onceVars
    /\ UNCHANGED <<gateClosed, closing, socket, drainReq>>

\* A mutant: a call that finds closeOnce taken does not wait for it.
CloseBegun == closeAt # "none"

\* Winner and losers alike return from closeOnce.Do when its body is over.
Closed == closeAt = "end"

CloseGate ==
    /\ closeAt = "gate"
    /\ closeAt' = "closing"
    /\ gateClosed' = TRUE
    /\ UNCHANGED <<err, closeBy, closing, socket, drainReq>>

CloseClosing ==
    /\ closeAt = "closing"
    /\ closeAt' = "socket"
    /\ closing' = TRUE
    /\ UNCHANGED <<err, closeBy, gateClosed, socket, drainReq>>

CloseSocket ==
    /\ closeAt = "socket"
    /\ closeAt' = "end"
    /\ socket' = "closed"
    /\ UNCHANGED <<err, closeBy, gateClosed, closing, drainReq>>

CloserNext == (CloseGate \/ CloseClosing \/ CloseSocket) /\ UNCHANGED <<sendVars, loopVars>>

----------------------------------------------------------------------------
(* Close and requestDrain.                                                 *)

EnderTo(e, label) ==
    /\ epc' = [epc EXCEPT ![e] = label]
    /\ UNCHANGED <<sendVars, wpc, back, rpc, kpc, fpc, closedWith>>

Close(e) ==
    /\ epc[e] = "idle"
    /\ InitiateClose("caller", "nil")
    /\ EnderTo(e, "closing")

CloseReturns(e) ==
    /\ epc[e] = "closing"
    /\ Closed
    /\ EnderTo(e, "returned")
    /\ UNCHANGED endVars

\* A mutant: the gate is left open.
DrainWithoutGate(e) ==
    /\ epc[e] = "idle"
    /\ ~ drainReq
    /\ drainReq' = TRUE
    /\ EnderTo(e, "idle")
    /\ UNCHANGED <<onceVars, gateClosed, closing, socket>>

\* Once (drainOnce).  Whoever asked may still lose patience and call Close.
RequestDrain(e) ==
    /\ epc[e] = "idle"
    /\ ~ drainReq
    /\ gateClosed' = TRUE
    /\ drainReq' = TRUE
    /\ EnderTo(e, "idle")
    /\ UNCHANGED <<onceVars, closing, socket>>

----------------------------------------------------------------------------
(* writerLoop.                                                             *)

WriterTo(label) ==
    /\ wpc' = label
    /\ UNCHANGED <<epc, rpc, kpc, fpc, closedWith>>

\* The selects of the loop.  Once the gate is drained closing is not looked at;
\* the writer that finds the queue empty ends the connection.
WriterSelect ==
    /\ \/ /\ wpc = "run" /\ closing
          /\ WriterTo("defer")
          /\ UNCHANGED <<endVars, sendVars, back>>
       \/ /\ wpc \in {"run", "drain"}
          /\ TakeFrame
          /\ back' = wpc
          /\ WriterTo("writing")
          /\ UNCHANGED endVars
       \/ /\ wpc = "run" /\ drainReq /\ gateDone
          /\ WriterTo("drain")
          /\ UNCHANGED <<endVars, sendVars, back>>
       \/ /\ wpc = "drain" /\ queue = <<>>
          /\ InitiateClose("drained", "nil")
          /\ WriterTo("finish")
          /\ UNCHANGED <<sendVars, back>>

WriteDatagram ==
    /\ wpc = "writing"
    /\ socket = "open"
    /\ FrameWritten
    /\ WriterTo(back)
    /\ UNCHANGED <<endVars, back>>

WriteFails ==
    /\ wpc = "writing"
    /\ FrameFailed
    /\ InitiateClose("write", "cause")
    /\ WriterTo("failed")
    /\ UNCHANGED back

AckFailure ==
    /\ wpc = "failed"
    /\ Closed
    /\ TellFailure
    /\ WriterTo("defer")
    /\ UNCHANGED <<endVars, back>>

WriterReturns ==
    /\ wpc = "finish"
    /\ Closed
    /\ WriterTo("defer")
    /\ UNCHANGED <<endVars, sendVars, back>>

WriterExits ==
    /\ wpc = "defer"
    /\ FailPending
    /\ WriterTo("exited")
    /\ UNCHANGED <<endVars, back>>

----------------------------------------------------------------------------
(* readerLoop, the activity clock, finalize.                               *)

\* The read fails after the socket was closed, or OnPacket returns and finds
\* closing closed; or the close that the reader itself asked for is over.
ReaderReturns ==
    /\ \/ rpc = "reading" /\ closing
       \/ rpc = "exiting" /\ Closed
    /\ rpc' = "exited"
    /\ UNCHANGED <<endVars, sendVars, epc, wpc, back, kpc, fpc, closedWith>>

\* A read error or timeout; an error that only says "closed" is no cause.
ReadFails ==
    /\ rpc = "reading"
    /\ ~ closing
    /\ \E cause \in {"nil", "cause"} : InitiateClose("read", cause)
    /\ rpc' = "exiting"
    /\ UNCHANGED <<sendVars, epc, wpc, back, kpc, fpc, closedWith>>

ClockExpires ==
    /\ kpc = "running"
    /\ InitiateClose("clock", "cause")
    /\ kpc' = "exiting"
    /\ UNCHANGED <<sendVars, epc, wpc, back, rpc, fpc, closedWith>>

ClockReturns ==
    /\ \/ kpc = "running" /\ closing
       \/ kpc = "exiting" /\ Closed
    /\ kpc' = "exited"
    /\ UNCHANGED <<endVars, sendVars, epc, wpc, back, rpc, fpc, closedWith>>

FinalTo(label) ==
    /\ fpc' = label
    /\ UNCHANGED <<sendVars, epc, wpc, back, rpc, kpc>>

\* loops.Wait returns; finalize calls initiateClose whatever happened before.
Finalize ==
    /\ fpc = "waiting"
    /\ wpc = "exited" /\ rpc = "exited" /\ kpc = "exited"
    /\ InitiateClose("final", "nil")
    /\ FinalTo("closing")
    /\ UNCHANGED closedWith

OnClose ==
    /\ fpc = "closing"
    /\ Closed
    /\ closedWith' = err
    /\ FinalTo("onClose")
    /\ UNCHANGED endVars

\* close(done) and removePacket, which releases the connection's lease.
CloseDone ==
    /\ fpc = "onClose"
    /\ FinalTo("done")
    /\ UNCHANGED <<endVars, closedWith>>

----------------------------------------------------------------------------
SendNext ==
    /\ \E s \in Senders : Enter(s) \/ SenderStep(s) \/ Reject(s) \/ SendExpires(s)
    /\ UNCHANGED <<endVars, loopVars>>

WriterStep ==
    \/ WriterSelect \/ WriteDatagram \/ WriteFails \/ AckFailure \/ WriterReturns
    \/ WriterExits

FinalStep == Finalize \/ OnClose \/ CloseDone

Next ==
    \/ SendNext
    \/ CloserNext
    \/ \E e \in Enders : Close(e) \/ CloseReturns(e) \/ RequestDrain(e)
    \/ WriterStep
    \/ ReaderReturns \/ ReadFails
    \/ ClockExpires \/ ClockReturns
    \/ FinalStep

\* Goroutines run, the write deadline ends every write and handlers return.
\* No datagram need arrive, no context expire, no clock fire.
Fairness ==
    /\ \A s \in Senders : WF_vars(SenderStep(s) /\ UNCHANGED <<endVars, loopVars>>)
    /\ \A e \in Enders : WF_vars(CloseReturns(e))
    /\ WF_vars(CloserNext)
    /\ WF_vars(WriterStep)
    /\ WF_vars(ReaderReturns)
    /\ WF_vars(ClockReturns)
    /\ WF_vars(FinalStep)

Spec == Init /\ [][Next]_vars

FairSpec == Spec /\ Fairness

----------------------------------------------------------------------------
(* Properties                                                              *)

\* A drain that completes has lost nothing: every datagram the application got
\* into the queue was written, in order, no Send was refused after that, no
\* Send is still inside the gate, and Err is nil.  A Send that returned nil was
\* written, however the connection ends.
DrainLosesNothing ==
    /\ NilSendIsWritten
    /\ closeBy = "drained"
       => /\ written = admitted
          /\ gateDone
          /\ err = "nil"
          /\ \A s \in Range(admitted) : ack[s] # "err"

\* Done means that all is over: the loops have returned, the socket is closed
\* (finalize waits for closeOnce), no datagram, slot or Send is left behind, and
\* OnClose saw the error Err still has.  On the way there the slots in use are
\* exactly the datagrams between admission and the writer's release, whichever
\* of send, handleOutbound and failPending returns them, and never more than
\* there are.
DoneReleasesAll ==
    /\ TypeOK
    /\ held = SlotsOutsideWriter + (IF wpc = "writing" THEN 1 ELSE 0)
    /\ done => /\ wpc = "exited" /\ rpc = "exited" /\ kpc = "exited"
               /\ socket = "closed"
               /\ NothingLeftBehind
               /\ closedWith = err

\* A packet connection that was asked to drain or to close reaches Done, with
\* no help from any peer, and no Send is left waiting for ever.
EndReachesDone == ((drainReq \/ closeAt # "none") ~> done) /\ SendsReturn
=============================================================================
