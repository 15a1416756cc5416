-------------------------- MODULE PacketSessionProofs --------------------------
(***************************************************************************)
(* For any number of Send, TrySend, drain and Close calls and any queue: a *)
(* drain that completes loses nothing, and Done leaves nothing behind.     *)
(***************************************************************************)
EXTENDS PacketSession, SendPathProofs

\* The winner of closeOnce decides the error; the body closes the socket last.
EndInv ==
    /\ gateClosed \in BOOLEAN /\ closing \in BOOLEAN /\ drainReq \in BOOLEAN
    /\ err \in {"nil", "cause"}
    /\ closeBy \in {"nobody", "caller", "drained", "write", "read", "clock", "final"}
    /\ closeAt \in {"none", "gate", "closing", "socket", "end"}
    /\ socket \in {"open", "closed"}
    /\ closeAt = "end" => socket = "closed"
    /\ closeBy = "drained" => closeAt # "none" /\ err = "nil"

\* Where the writer is, and what that says of the datagrams.  Only a writer that
\* has drained the queue closes for the reason "drained".
WriterInv ==
    /\ back \in {"run", "drain"}
    /\ wpc = "writing" => SendInv(1) /\ InOrder(1)
    /\ wpc # "writing" => SendInv(0)
    /\ wpc \in {"run", "drain"} => InOrder(0)
    /\ wpc \in {"run", "drain", "writing", "failed"} => NoneFailed
    /\ frame \in Senders <=> wpc \in {"writing", "failed"}
    /\ wpc \in {"drain", "exited"} \/ (wpc = "writing" /\ back = "drain") => gateDone
    /\ wpc = "exited" => queue = <<>>
    /\ closeBy = "drained" => wpc \in {"finish", "defer", "exited"} /\ Delivered

FinalInv ==
    /\ fpc # "waiting" => wpc = "exited" /\ rpc = "exited" /\ kpc = "exited"
    /\ fpc \in {"onClose", "done"} => closeAt = "end" /\ closedWith = err

LoopType ==
    /\ epc \in [Enders -> {"idle", "closing", "returned"}]
    /\ wpc \in {"run", "drain", "writing", "failed", "finish", "defer", "exited"}
    /\ rpc \in {"reading", "exiting", "exited"}
    /\ kpc \in {"running", "exiting", "exited"}
    /\ fpc \in {"waiting", "closing", "onClose", "done"}
    /\ closedWith \in {"none", "nil", "cause"}

IInv == LoopType /\ EndInv /\ WriterInv /\ FinalInv

----------------------------------------------------------------------------
(* What a step does to the end of the connection.                          *)

\* The gate stays closed and the winner of closeOnce stays the winner.  The
\* reason "drained" is only given by a step of the writer.
EndStep ==
    /\ EndInv'
    /\ gateClosed => gateClosed'
    /\ closeAt # "none" => UNCHANGED <<err, closeBy>>
    /\ closeAt = "end" => closeAt' = "end"

LEMMA StillEnds ==
  ASSUME EndInv, UNCHANGED endVars
  PROVE  EndStep /\ UNCHANGED <<gateClosed, closing, closeBy, closeAt, err>>
  BY DEF EndInv, EndStep, endVars, onceVars

LEMMA InitiateCloseEnds ==
  ASSUME EndInv, NEW by \in {"caller", "drained", "write", "read", "clock", "final"},
         NEW cause \in {"nil", "cause"}, InitiateClose(by, cause), by = "drained" => cause = "nil"
  PROVE  /\ EndStep /\ UNCHANGED <<gateClosed, closing>>
         /\ by # "drained" /\ closeBy' = "drained" => closeBy = "drained"
  <1>0. UNCHANGED <<gateClosed, closing, socket, drainReq>>
    BY DEF InitiateClose
  <1>1. CASE closeAt = "none"
    <2>1. closeAt' = "gate" /\ closeBy' = by /\ err' = cause
      BY <1>1 DEF InitiateClose
    <2>2. EndInv'
      BY <1>0, <2>1 DEF EndInv
    <2>. QED
      BY <1>0, <1>1, <2>1, <2>2 DEF EndStep
  <1>2. CASE closeAt # "none"
    <2>1. UNCHANGED <<closeAt, closeBy, err>>
      BY <1>2 DEF InitiateClose, onceVars
    <2>2. EndInv'
      BY <1>0, <2>1 DEF EndInv
    <2>. QED
      BY <1>0, <2>1, <2>2 DEF EndStep
  <1>. QED
    BY <1>1, <1>2

\* The body of closeOnce, and requestDrain.
LEMMA BodyEnds ==
  ASSUME EndInv,
         \/ CloseGate \/ CloseClosing \/ CloseSocket
         \/ gateClosed' = TRUE /\ drainReq' = TRUE /\ UNCHANGED <<onceVars, closing, socket>>
  PROVE  EndStep /\ UNCHANGED closeBy
  <1>1. CASE CloseGate
    <2>1. /\ closeAt = "gate" /\ closeAt' = "closing" /\ gateClosed' = TRUE
          /\ UNCHANGED <<err, closeBy, closing, socket, drainReq>>
      BY <1>1 DEF CloseGate
    <2>2. gateClosed' \in BOOLEAN /\ closing' \in BOOLEAN /\ drainReq' \in BOOLEAN
      BY <2>1 DEF EndInv
    <2>. QED
      BY <2>1, <2>2 DEF EndInv, EndStep
  <1>2. CASE CloseClosing
    <2>1. /\ closeAt = "closing" /\ closeAt' = "socket" /\ closing' = TRUE
          /\ UNCHANGED <<err, closeBy, gateClosed, socket, drainReq>>
      BY <1>2 DEF CloseClosing
    <2>2. gateClosed' \in BOOLEAN /\ closing' \in BOOLEAN /\ drainReq' \in BOOLEAN
      BY <2>1 DEF EndInv
    <2>. QED
      BY <2>1, <2>2 DEF EndInv, EndStep
  <1>3. CASE CloseSocket
    BY <1>3 DEF CloseSocket, EndInv, EndStep
  <1>4. CASE gateClosed' = TRUE /\ drainReq' = TRUE /\ UNCHANGED <<onceVars, closing, socket>>
    <2>1. UNCHANGED <<err, closeBy, closeAt, closing, socket>>
      BY <1>4 DEF onceVars
    <2>2. gateClosed' \in BOOLEAN /\ closing' \in BOOLEAN /\ drainReq' \in BOOLEAN
      BY <1>4, <2>1 DEF EndInv
    <2>. QED
      BY <1>4, <2>1, <2>2 DEF EndInv, EndStep
  <1>. QED
    BY <1>1, <1>2, <1>3, <1>4

----------------------------------------------------------------------------
(* One lemma per kind of step.                                             *)

LEMMA InitIInv == Init => IInv
  <1>. SUFFICES ASSUME Init PROVE IInv
    OBVIOUS
  <1>1. LoopType /\ FinalInv
    BY PacketAssumption DEF Init, LoopType, FinalInv
  <1>2. EndInv
    <2>1. gateClosed \in BOOLEAN /\ closing \in BOOLEAN /\ drainReq \in BOOLEAN
      BY DEF Init, SendInit
    <2>. QED
      BY <2>1 DEF Init, EndInv
  <1>3. SendInv(0) /\ InOrder(0) /\ NoneFailed /\ frame \notin Senders
    BY SendInitInv DEF Init
  <1>4. WriterInv
    BY <1>3 DEF Init, WriterInv
  <1>. QED
    BY <1>1, <1>2, <1>4 DEF IInv

\* The end moves on, or one of the other goroutines; the writer and the frames
\* stay.
LEMMA KeepFrames ==
  ASSUME IInv, EndStep, UNCHANGED <<sendVars, wpc, back>>, closeBy' = "drained" => closeBy = "drained",
         LoopType', FinalInv'
  PROVE  IInv'
  <1>1. gateClosed' \in BOOLEAN /\ closing' \in BOOLEAN /\ (gateClosed => gateClosed')
    BY DEF EndStep, EndInv
  <1>2. \A b \in {0, 1} : (SendInv(b) => SendInv(b)') /\ (InOrder(b) => InOrder(b)')
    BY <1>1, GateStep
  <1>3. /\ NoneFailed => NoneFailed'
        /\ gateDone => gateDone'
        /\ Delivered => Delivered'
    BY <1>1, GateStep
  <1>4. UNCHANGED <<queue, frame>>
    BY DEF sendVars
  <1>5. WriterInv'
    BY <1>2, <1>3, <1>4 DEF IInv, WriterInv
  <1>. QED
    BY <1>5 DEF IInv, EndStep

LEMMA KeepFinal ==
  ASSUME IInv, EndStep, UNCHANGED <<fpc, closedWith>>,
         wpc = "exited" => wpc' = "exited", rpc = "exited" => rpc' = "exited",
         kpc = "exited" => kpc' = "exited"
  PROVE  FinalInv'
  BY DEF IInv, FinalInv, EndStep

\* A step of the writer.
LEMMA KeepRest ==
  ASSUME IInv, EndStep, WriterInv', UNCHANGED <<epc, rpc, kpc, fpc, closedWith>>, wpc # "exited",
         wpc' \in {"run", "drain", "writing", "failed", "finish", "defer", "exited"}
  PROVE  IInv'
  <1>1. LoopType'
    BY DEF IInv, LoopType
  <1>2. FinalInv'
    BY KeepFinal
  <1>. QED
    BY <1>1, <1>2 DEF IInv, EndStep

LEMMA SendNextIInv ==
  ASSUME IInv, SendNext
  PROVE  IInv'
  <1>1. UNCHANGED endVars /\ UNCHANGED <<epc, wpc, back, rpc, kpc, fpc, closedWith>>
    BY DEF SendNext, loopVars
  <1>2. EndStep /\ UNCHANGED <<gateClosed, closing, closeBy>>
    BY <1>1, StillEnds DEF IInv
  <1>3. PICK s \in Senders : Enter(s) \/ SenderStep(s) \/ Reject(s) \/ SendExpires(s)
    BY DEF SendNext
  <1>4. ASSUME NEW b \in {0, 1}, SendInv(b)
        PROVE  SendInv(b)' /\ Calm(b)
    BY <1>2, <1>3, <1>4, SenderInv
  <1>5. PICK b \in {0, 1} : SendInv(b)
    BY DEF IInv, WriterInv
  <1>6. UNCHANGED <<ack, frame, written>> /\ (gateDone => gateDone' /\ UNCHANGED <<queue, admitted>>)
    BY <1>4, <1>5 DEF Calm
  <1>7. NoneFailed => NoneFailed'
    BY <1>6 DEF NoneFailed
  <1>8. Delivered => Delivered'
    BY <1>6, <1>7 DEF Delivered
  <1>9. \A d \in {0, 1} : SendInv(d) => SendInv(d)' /\ (InOrder(d) => InOrder(d)')
    BY <1>4 DEF Calm
  <1>10. WriterInv'
    BY <1>1, <1>2, <1>6, <1>7, <1>8, <1>9 DEF IInv, WriterInv
  <1>11. FinalInv' /\ LoopType'
    BY <1>1, <1>2, KeepFinal DEF IInv, LoopType
  <1>. QED
    BY <1>2, <1>10, <1>11 DEF IInv, EndStep

\* closeOnce, the calls, the reader and the activity clock.
LEMMA OthersIInv ==
  ASSUME IInv,
         \/ CloserNext
         \/ \E e \in Enders : Close(e) \/ CloseReturns(e) \/ RequestDrain(e)
         \/ ReaderReturns \/ ReadFails \/ ClockExpires \/ ClockReturns
  PROVE  IInv'
  <1>0. EndInv
    BY DEF IInv
  <1>1. UNCHANGED <<sendVars, wpc, back, fpc, closedWith>>
    BY DEF CloserNext, loopVars, Close, CloseReturns, RequestDrain, EnderTo, ReaderReturns, ReadFails,
           ClockExpires, ClockReturns
  <1>2. EndStep /\ (closeBy' = "drained" => closeBy = "drained")
    <2>1. CASE CloserNext \/ \E e \in Enders : RequestDrain(e)
      BY <1>0, <2>1, BodyEnds DEF CloserNext, RequestDrain
    <2>2. CASE ReaderReturns \/ ClockReturns \/ \E e \in Enders : CloseReturns(e)
      BY <1>0, <2>2, StillEnds DEF ReaderReturns, ClockReturns, CloseReturns
    <2>3. CASE ReadFails \/ ClockExpires \/ \E e \in Enders : Close(e)
      <3>1. PICK by \in {"caller", "read", "clock"}, cause \in {"nil", "cause"} :
              InitiateClose(by, cause)
        BY <2>3 DEF ReadFails, ClockExpires, Close
      <3>. QED
        BY <1>0, <3>1, InitiateCloseEnds
    <2>. QED
      BY <2>1, <2>2, <2>3
  <1>3. /\ epc' = epc \/ \E e \in Enders, label \in {"idle", "closing", "returned"} :
                            epc' = [epc EXCEPT ![e] = label]
        /\ rpc' = rpc \/ (rpc # "exited" /\ rpc' \in {"exiting", "exited"})
        /\ kpc' = kpc \/ (kpc # "exited" /\ kpc' \in {"exiting", "exited"})
    BY DEF CloserNext, loopVars, Close, CloseReturns, RequestDrain, EnderTo, ReaderReturns, ReadFails,
           ClockExpires, ClockReturns
  <1>4. LoopType'
    BY <1>1, <1>3 DEF IInv, LoopType
  <1>5. FinalInv'
    BY <1>1, <1>2, <1>3, KeepFinal
  <1>. QED
    BY <1>1, <1>2, <1>4, <1>5, KeepFrames

----------------------------------------------------------------------------
(* The writer.                                                             *)

LEMMA WriterSelectIInv ==
  ASSUME IInv, WriterSelect
  PROVE  IInv'
  <1>0. UNCHANGED <<epc, rpc, kpc, fpc, closedWith>> /\ wpc \in {"run", "drain"}
    BY DEF WriterSelect, WriterTo
  <1>1. /\ SendInv(0) /\ InOrder(0) /\ NoneFailed /\ frame \notin Senders
        /\ back \in {"run", "drain"} /\ (wpc = "drain" => gateDone)
        /\ closeBy # "drained" /\ EndInv
    BY <1>0 DEF IInv, WriterInv
  <1>2. ASSUME TakeFrame, back' = wpc, wpc' = "writing", UNCHANGED endVars PROVE IInv'
    <2>1. EndStep /\ UNCHANGED <<gateClosed, closing, closeBy>>
      BY <1>1, <1>2, StillEnds
    <2>2. SendInv(1)' /\ InOrder(1)' /\ frame' \in Senders /\ UNCHANGED <<ack, active>>
      BY <1>1, <1>2, <2>1, TakeFrameInv DEF TakeFrame
    <2>3. NoneFailed'
      BY <1>1, <2>2 DEF NoneFailed
    <2>4. gateDone => gateDone'
      BY <2>1, <2>2 DEF gateDone
    <2>5. WriterInv'
      BY <1>0, <1>1, <1>2, <2>1, <2>2, <2>3, <2>4 DEF WriterInv
    <2>. QED
      BY <1>0, <1>2, <2>1, <2>5, KeepRest
  <1>3. ASSUME UNCHANGED <<sendVars, back>>, EndStep,
               closeBy' = "drained" => wpc' = "finish" /\ Delivered,
               wpc' \in {"defer", "finish"} \/ (wpc' = "drain" /\ gateDone)
        PROVE  IInv'
    <2>1. gateClosed' \in BOOLEAN /\ closing' \in BOOLEAN /\ (gateClosed => gateClosed')
      BY <1>3 DEF EndStep, EndInv
    <2>2. /\ SendInv(0)' /\ InOrder(0)' /\ NoneFailed'
          /\ (gateDone => gateDone') /\ (Delivered => Delivered')
      BY <1>1, <1>3, <2>1, GateStep
    <2>3. UNCHANGED <<queue, frame>>
      BY <1>3 DEF sendVars
    <2>4. WriterInv'
      BY <1>1, <1>3, <2>2, <2>3 DEF WriterInv
    <2>. QED
      BY <1>0, <1>3, <2>4, KeepRest
  <1>4. ASSUME wpc' \in {"defer", "drain"}, wpc' = "drain" => gateDone,
               UNCHANGED <<endVars, sendVars, back>>
        PROVE  IInv'
    <2>1. EndStep /\ UNCHANGED closeBy
      BY <1>1, <1>4, StillEnds
    <2>. QED
      BY <1>1, <1>3, <1>4, <2>1
  <1>5. ASSUME wpc = "drain", queue = <<>>, InitiateClose("drained", "nil"), wpc' = "finish",
               UNCHANGED <<sendVars, back>>
        PROVE  IInv'
    <2>1. EndStep
      BY <1>1, <1>5, InitiateCloseEnds
    <2>2. written = admitted
      BY <1>1, <1>5, AllWritten
    <2>3. Delivered
      BY <1>1, <1>5, <2>2 DEF Delivered
    <2>. QED
      BY <1>3, <1>5, <2>1, <2>3
  <1>. QED
    BY <1>2, <1>4, <1>5 DEF WriterSelect, WriterTo

LEMMA WriteDatagramIInv ==
  ASSUME IInv, WriteDatagram
  PROVE  IInv'
  <1>0. /\ UNCHANGED endVars /\ UNCHANGED <<epc, rpc, kpc, fpc, closedWith, back>>
        /\ wpc = "writing" /\ wpc' = back /\ FrameWritten
    BY DEF WriteDatagram, WriterTo
  <1>1. EndStep /\ UNCHANGED <<gateClosed, closing, closeBy>>
    BY <1>0, StillEnds DEF IInv
  <1>2. /\ SendInv(1) /\ InOrder(1) /\ NoneFailed /\ frame \in Senders /\ closeBy # "drained"
        /\ back \in {"run", "drain"} /\ (back = "drain" => gateDone)
    BY <1>0 DEF IInv, WriterInv
  <1>3. SendInv(0)' /\ InOrder(0)' /\ frame' = NoFrame /\ NoneFailed'
    BY <1>0, <1>1, <1>2, FrameWrittenInv
  <1>4. gateDone => gateDone'
    BY <1>0, <1>1 DEF gateDone, FrameWritten
  <1>5. WriterInv'
    BY <1>0, <1>1, <1>2, <1>3, <1>4, SendPathAssumption DEF WriterInv
  <1>. QED
    BY <1>0, <1>1, <1>2, <1>5, KeepRest

\* The write fails, and the Send is told when closeOnce is over.
LEMMA WriteFailsIInv ==
  ASSUME IInv, WriteFails \/ AckFailure
  PROVE  IInv'
  <1>0. UNCHANGED <<epc, rpc, kpc, fpc, closedWith, back>>
    BY DEF WriteFails, AckFailure, WriterTo
  <1>1. ASSUME WriteFails PROVE IInv'
    <2>1. wpc = "writing" /\ wpc' = "failed" /\ FrameFailed /\ InitiateClose("write", "cause")
      BY <1>1 DEF WriteFails, WriterTo
    <2>2. SendInv(1) /\ NoneFailed /\ frame \in Senders /\ back \in {"run", "drain"} /\ closeBy # "drained"
      BY <2>1 DEF IInv, WriterInv
    <2>3. EndStep /\ UNCHANGED <<gateClosed, closing>> /\ closeBy' # "drained"
      BY <2>1, <2>2, InitiateCloseEnds DEF IInv
    <2>4. SendInv(0)' /\ UNCHANGED <<ack, frame>>
      BY <2>1, <2>2, <2>3, FrameFailedInv
    <2>5. WriterInv'
      BY <1>0, <2>1, <2>2, <2>3, <2>4 DEF WriterInv, NoneFailed
    <2>. QED
      BY <1>0, <2>1, <2>3, <2>5, KeepRest
  <1>2. ASSUME AckFailure PROVE IInv'
    <2>1. wpc = "failed" /\ wpc' = "defer" /\ TellFailure /\ UNCHANGED endVars
      BY <1>2 DEF AckFailure, WriterTo
    <2>2. EndStep /\ UNCHANGED <<gateClosed, closing, closeBy>>
      BY <2>1, StillEnds DEF IInv
    <2>3. SendInv(0) /\ frame \in Senders /\ back \in {"run", "drain"} /\ closeBy # "drained"
      BY <2>1 DEF IInv, WriterInv
    <2>4. SendInv(0)' /\ frame' = NoFrame
      BY <2>1, <2>2, <2>3, TellFailureInv
    <2>5. WriterInv'
      BY <1>0, <2>1, <2>2, <2>3, <2>4, SendPathAssumption DEF WriterInv
    <2>. QED
      BY <1>0, <2>1, <2>2, <2>5, KeepRest
  <1>. QED
    BY <1>1, <1>2

LEMMA WriterLeavesIInv ==
  ASSUME IInv, WriterReturns \/ WriterExits
  PROVE  IInv'
  <1>0. /\ UNCHANGED endVars /\ UNCHANGED <<epc, rpc, kpc, fpc, closedWith, back>>
        /\ \/ wpc = "finish" /\ wpc' = "defer" /\ UNCHANGED sendVars
           \/ wpc = "defer" /\ wpc' = "exited" /\ FailPending
    BY DEF WriterReturns, WriterExits, WriterTo
  <1>1. EndStep /\ UNCHANGED <<gateClosed, closing, closeBy>> /\ gateClosed' \in BOOLEAN
        /\ closing' \in BOOLEAN
    BY <1>0, StillEnds DEF IInv, EndStep, EndInv
  <1>2. /\ SendInv(0) /\ frame \notin Senders /\ back \in {"run", "drain"}
        /\ closeBy = "drained" => Delivered
    BY <1>0 DEF IInv, WriterInv
  <1>3. CASE wpc' = "defer" /\ UNCHANGED sendVars
    <2>1. SendInv(0)' /\ (Delivered => Delivered')
      BY <1>1, <1>2, <1>3, GateStep
    <2>2. frame' \notin Senders
      BY <1>2, <1>3 DEF sendVars
    <2>3. WriterInv'
      BY <1>0, <1>1, <1>2, <1>3, <2>1, <2>2 DEF WriterInv
    <2>. QED
      BY <1>0, <1>1, <1>3, <2>3, KeepRest
  <1>4. CASE wpc' = "exited" /\ FailPending
    <2>1. /\ SendInv(0)' /\ queue' = <<>> /\ UNCHANGED <<admitted, written, frame>> /\ gateDone'
          /\ queue = <<>> => ack' = ack
      BY <1>1, <1>2, <1>4, FailPendingInv
    <2>2. Delivered => Delivered'
      BY <2>1 DEF Delivered, NoneFailed
    <2>3. WriterInv'
      BY <1>0, <1>1, <1>2, <1>4, <2>1, <2>2 DEF WriterInv
    <2>. QED
      BY <1>0, <1>1, <1>4, <2>3, KeepRest
  <1>. QED
    BY <1>0, <1>3, <1>4

----------------------------------------------------------------------------
(* finalize, and all steps together.                                       *)

LEMMA FinalIInv ==
  ASSUME IInv, FinalStep
  PROVE  IInv'
  <1>0. UNCHANGED <<sendVars, epc, wpc, back, rpc, kpc>> /\ EndInv /\ FinalInv
    BY DEF FinalStep, Finalize, OnClose, CloseDone, FinalTo, IInv
  <1>1. ASSUME EndStep, closeBy' = "drained" => closeBy = "drained", FinalInv',
               fpc' \in {"closing", "onClose", "done"}, closedWith' \in {closedWith, err}
        PROVE  IInv'
    <2>1. LoopType'
      BY <1>0, <1>1 DEF IInv, LoopType, EndInv
    <2>. QED
      BY <1>0, <1>1, <2>1, KeepFrames
  <1>2. CASE Finalize
    <2>1. /\ wpc = "exited" /\ rpc = "exited" /\ kpc = "exited" /\ InitiateClose("final", "nil")
          /\ fpc' = "closing" /\ closedWith' = closedWith
      BY <1>2 DEF Finalize, FinalTo
    <2>2. EndStep /\ (closeBy' = "drained" => closeBy = "drained")
      BY <1>0, <2>1, InitiateCloseEnds
    <2>3. FinalInv'
      BY <1>0, <2>1 DEF FinalInv
    <2>. QED
      BY <1>1, <2>1, <2>2, <2>3
  <1>3. CASE OnClose \/ CloseDone
    <2>1. /\ UNCHANGED endVars
          /\ \/ fpc = "closing" /\ closeAt = "end" /\ fpc' = "onClose" /\ closedWith' = err
             \/ fpc = "onClose" /\ fpc' = "done" /\ closedWith' = closedWith
      BY <1>3 DEF OnClose, CloseDone, FinalTo, Closed
    <2>2. EndStep /\ UNCHANGED <<closeBy, closeAt, err>>
      BY <1>0, <2>1, StillEnds
    <2>3. FinalInv'
      BY <1>0, <2>1, <2>2 DEF FinalInv
    <2>. QED
      BY <1>1, <2>1, <2>2, <2>3
  <1>. QED
    BY <1>2, <1>3 DEF FinalStep

LEMMA NextIInv == IInv /\ [Next]_vars => IInv'
  <1>. SUFFICES ASSUME IInv, [Next]_vars PROVE IInv'
    OBVIOUS
  <1>1. CASE WriterStep
    BY <1>1, WriterSelectIInv, WriteDatagramIInv, WriteFailsIInv, WriterLeavesIInv DEF WriterStep
  <1>2. CASE UNCHANGED vars
    <2>1. UNCHANGED <<endVars, sendVars, epc, wpc, back, rpc, kpc, fpc, closedWith>>
      BY <1>2 DEF vars, loopVars
    <2>2. EndStep /\ UNCHANGED closeBy
      BY <2>1, StillEnds DEF IInv
    <2>3. LoopType' /\ FinalInv'
      BY <2>1, <2>2, KeepFinal DEF IInv, LoopType
    <2>. QED
      BY <2>1, <2>2, <2>3, KeepFrames
  <1>. QED
    BY <1>1, <1>2, SendNextIInv, OthersIInv, FinalIInv DEF Next

LEMMA Invariant == Spec => []IInv
  BY InitIInv, NextIInv, PTL DEF Spec

----------------------------------------------------------------------------
(* The theorems.                                                           *)

\* A drain that completes has written every datagram it admitted, in order, and
\* told no Send otherwise; a Send that returned nil was written in any case.
THEOREM DrainIsLossless == Spec => []DrainLosesNothing
  <1>1. IInv => DrainLosesNothing
    <2>. SUFFICES ASSUME IInv PROVE DrainLosesNothing
      OBVIOUS
    <2>1. NilSendIsWritten /\ admitted \in Seq(Senders)
      BY DEF IInv, WriterInv, SendInv, Answers
    <2>2. closeBy = "drained" => Delivered /\ err = "nil"
      BY DEF IInv, WriterInv, EndInv
    <2>3. Range(admitted) \subseteq Senders
      BY <2>1, InRange
    <2>. QED
      BY <2>1, <2>2, <2>3 DEF DrainLosesNothing, Delivered, NoneFailed
  <1>. QED
    BY <1>1, Invariant, PTL

\* Done means that the socket is closed and no loop, datagram, slot or Send is
\* left, and the slots in use are exactly the datagrams between admission and
\* release all along.
THEOREM DoneIsClean == Spec => []DoneReleasesAll
  <1>1. IInv => DoneReleasesAll
    <2>. SUFFICES ASSUME IInv PROVE DoneReleasesAll
      OBVIOUS
    <2>1. SendTypeOK
      BY DEF IInv, WriterInv, SendInv
    <2>2. TypeOK
      BY <2>1 DEF IInv, EndInv, LoopType, TypeOK
    <2>3. held = SlotsOutsideWriter + (IF wpc = "writing" THEN 1 ELSE 0)
      BY DEF IInv, WriterInv, SendInv
    <2>4. done => /\ wpc = "exited" /\ rpc = "exited" /\ kpc = "exited"
                  /\ socket = "closed" /\ closedWith = err
      BY DEF IInv, FinalInv, EndInv, done
    <2>5. wpc = "exited" => NothingLeftBehind
      BY AllReleased DEF IInv, WriterInv
    <2>. QED
      BY <2>2, <2>3, <2>4, <2>5 DEF DoneReleasesAll
  <1>. QED
    BY <1>1, Invariant, PTL
================================================================================
