--------------------------- MODULE WSSessionProofs ---------------------------
(***************************************************************************)
(* For any number of Send, TrySend, Shutdown and Close calls, any queue    *)
(* and any configuration of ping loop and activity clock: the first cause  *)
(* wins, a graceful end loses nothing, a read failure left to the writer   *)
(* is not lost, and Done leaves nothing behind.                            *)
(***************************************************************************)
EXTENDS WSSession, SendPathProofs

\* An abort or a graceful end has won.
Over == goal = Abort \/ terminal

\* How a session ends.  Only the writer ends it gracefully, and closeOnce may run
\* before the channels are closed only for an abort.
LifeInv ==
    /\ LifeTypeOK
    /\ closeBy \in Threads \cup {"nobody"}
    /\ gateClosed \in BOOLEAN /\ closing \in BOOLEAN /\ sigOwed \in BOOLEAN
    /\ Graceful <=> why = "none"
    /\ Graceful => err = "nil"
    /\ aborted \/ sigOwed => goal = Abort
    /\ terminal => Graceful /\ closeBy = "writer"
    /\ closeAt # "none" \/ closing => Over

\* Where the writer is, and what that says of the messages.  The close handshake
\* begins, and the session ends gracefully, after all of them are written.
WriterInv ==
    /\ back \in {"run", "drain"}
    /\ wpc = "writing" => SendInv(1) /\ InOrder(1)
    /\ wpc # "writing" => SendInv(0)
    /\ wpc \in {"run", "drain"} => InOrder(0)
    /\ wpc \in {"run", "drain", "writing", "failed"} => NoneFailed
    /\ frame \in Senders <=> wpc \in {"writing", "failed"}
    /\ wpc \in {"drain", "exited"} \/ (wpc = "writing" /\ back = "drain") => gateDone
    /\ wpc = "exited" => queue = <<>>
    /\ wpc \in {"close", "mark"} => Delivered
    /\ terminal => wpc \in {"once", "defer", "exited"} /\ Delivered

\* A read failure can be left only to a write in flight.
PendInv ==
    /\ pend \in {"off", "on", "nil", "cause"}
    /\ pend # "off" <=> wpc \in {"writing", "failed"}
    /\ wpc = "failed" => Over
    /\ DeferredReadIsKept

FinalInv ==
    /\ fpc # "waiting" => LoopsReturned /\ Over
    /\ fpc \in {"closed", "done"} => closedWith = err

\* What a call was told.
CallsInv ==
    \A c \in Closers :
        /\ cpc[c] = "idle" => cres[c] = "none"
        /\ cres[c] = "nil" /\ ckind[c] = "Shutdown" => done /\ Graceful

CallType ==
    /\ cpc \in [Closers -> {"idle", "signal", "wait", "leaving", "returned"}]
    /\ ckind \in [Closers -> {"none", "Shutdown", "Close"}]
    /\ cres \in [Closers -> {"none", "nil", "ctx", "closed", "err"}]

WriterLabels == {"run", "drain", "writing", "failed", "nil", "cause", "close", "mark",
                 "once", "finish", "defer", "exited"}
ReaderLabels == {"onOpen", "reading", "failed", "decide", "exiting", "deferred", "exited"}
PingLabels == {"idle", "pinging", "exiting", "exited"}
ClockLabels == {"running", "exiting", "exited"}
WatchLabels == {"off", "waiting", "timing", "exiting", "exited"}
FinalLabels == {"waiting", "onClose", "closed", "done"}
ReadErrors == {"none", "normal", "nil", "cause"}
Reports == {"none", "nil", "cause"}

LoopType ==
    /\ peerClosed \in BOOLEAN /\ drained \in BOOLEAN
    /\ rerr \in ReadErrors /\ closedWith \in Reports
    /\ wpc \in WriterLabels /\ rpc \in ReaderLabels /\ ppc \in PingLabels
    /\ kpc \in ClockLabels /\ dpc \in WatchLabels /\ fpc \in FinalLabels

IInv == CallType /\ LoopType /\ LifeInv /\ WriterInv /\ PendInv /\ FinalInv /\ CallsInv

----------------------------------------------------------------------------
(* What a step does to the end of the session.                             *)

\* Nothing is undone, the first cause stays, and only the writer that has had its
\* close handshake ends the session gracefully.
EndStep ==
    /\ LifeInv'
    /\ gateClosed => gateClosed'
    /\ Over => UNCHANGED <<goal, err, why, terminal>>
    /\ terminal' => terminal \/ wpc = "mark"

LEMMA StillEnds ==
  ASSUME LifeInv, UNCHANGED <<endVars, sigOwed>>
  PROVE  EndStep /\ UNCHANGED <<gateClosed, closing, goal, terminal, err>>
  <1>1. /\ UNCHANGED <<goal, why, terminal, err, requested, aborted, readDone, writeDone, termDone>>
        /\ UNCHANGED <<closeBy, closeAt, gateClosed, closing, socket, sigOwed>>
    BY DEF endVars, lifeVars, onceVars
  <1>2. LifeTypeOK'
    BY <1>1 DEF LifeInv, LifeTypeOK
  <1>3. LifeInv'
    BY <1>1, <1>2 DEF LifeInv, Graceful, Over
  <1>. QED
    BY <1>1, <1>3 DEF EndStep

LEMMA AbortWithEnds ==
  ASSUME LifeInv, NEW t \in Threads, NEW reason \in {"explicit", "caller", "failure"},
         NEW cause \in {"nil", "cause"}, AbortWith(t, reason, cause), UNCHANGED sigOwed
  PROVE  EndStep /\ Over' /\ UNCHANGED <<gateClosed, closing, terminal>>
  <1>1. CASE MayAbort
    <2>1. /\ goal' = Abort /\ why' = reason /\ err' = cause /\ closeBy' = t /\ closeAt' = "signals"
          /\ UNCHANGED <<terminal, requested, aborted, readDone, writeDone, termDone>>
          /\ UNCHANGED <<gateClosed, closing, socket>>
      BY <1>1 DEF AbortWith
    <2>2. LifeTypeOK'
      BY <2>1 DEF LifeInv, LifeTypeOK, Running, Abort
    <2>3. ~ terminal /\ ~ Over
      BY <1>1 DEF MayAbort, Over
    <2>4. LifeInv' /\ Over'
      BY <2>1, <2>2, <2>3 DEF LifeInv, Graceful, Over
    <2>. QED
      BY <2>1, <2>3, <2>4 DEF EndStep
  <1>2. CASE ~ MayAbort
    <2>1. UNCHANGED endVars
      BY <1>2 DEF AbortWith, endVars
    <2>2. Over
      BY <1>2 DEF MayAbort, Over
    <2>. QED
      BY <2>1, <2>2, StillEnds DEF Over
  <1>. QED
    BY <1>1, <1>2

\* finishLocalGraceful.
LEMMA MarkEnds ==
  ASSUME LifeInv, wpc = "mark", TryMarkTerminal("writer"), UNCHANGED sigOwed
  PROVE  EndStep /\ UNCHANGED <<gateClosed, closing>>
  <1>1. CASE MayAbort
    <2>1. /\ terminal' = TRUE /\ closeBy' = "writer" /\ closeAt' = "signals"
          /\ UNCHANGED <<goal, why, err, requested, aborted, readDone, writeDone, termDone>>
          /\ UNCHANGED <<gateClosed, closing, socket>>
      BY <1>1 DEF TryMarkTerminal
    <2>2. LifeTypeOK'
      BY <2>1 DEF LifeInv, LifeTypeOK
    <2>3. Graceful /\ ~ Over
      BY <1>1 DEF MayAbort, Over, Graceful
    <2>4. LifeInv'
      BY <2>1, <2>2, <2>3 DEF LifeInv, Graceful, Over, Threads
    <2>. QED
      BY <2>1, <2>3, <2>4 DEF EndStep
  <1>2. CASE ~ MayAbort
    <2>1. UNCHANGED endVars
      BY <1>2 DEF TryMarkTerminal, endVars
    <2>. QED
      BY <2>1, StillEnds
  <1>. QED
    BY <1>1, <1>2

\* closeOnce, and the channels of an abort, before it or after it.
LEMMA CloserWorkEnds ==
  ASSUME LifeInv, UNCHANGED sigOwed, CloserWork
  PROVE  EndStep /\ UNCHANGED terminal
  <1>1. UNCHANGED <<goal, why, terminal, err, closeBy>> /\ closeAt # "none" /\ Over
    BY DEF CloserWork, CloseSignals, CloseGate, CloseClosing, CloseSocket, lifeVars, LifeInv
  <1>2. /\ aborted' => goal = Abort
        /\ gateClosed' \in BOOLEAN /\ closing' \in BOOLEAN /\ (gateClosed => gateClosed')
    <2>1. CASE CloseSignals
      BY <1>1, <2>1 DEF CloseSignals, LifeInv
    <2>2. CASE CloseGate \/ CloseClosing \/ CloseSocket
      <3>1. UNCHANGED aborted
        BY <2>2 DEF CloseGate, CloseClosing, CloseSocket, lifeVars
      <3>2. /\ gateClosed' = gateClosed \/ gateClosed' = TRUE
            /\ closing' = closing \/ closing' = TRUE
        BY <2>2 DEF CloseGate, CloseClosing, CloseSocket
      <3>3. gateClosed \in BOOLEAN /\ closing \in BOOLEAN /\ (aborted => goal = Abort)
        BY DEF LifeInv
      <3>4. gateClosed' \in BOOLEAN /\ closing' \in BOOLEAN /\ (gateClosed => gateClosed')
        BY <3>2, <3>3
      <3>. QED
        BY <3>1, <3>3, <3>4
    <2>. QED
      BY <2>1, <2>2 DEF CloserWork
  <1>3. LifeTypeOK'
    <2>1. CASE CloseSignals
      BY <2>1 DEF CloseSignals, LifeInv, LifeTypeOK
    <2>2. CASE CloseGate \/ CloseClosing \/ CloseSocket
      BY <2>2 DEF CloseGate, CloseClosing, CloseSocket, LifeInv, LifeTypeOK, lifeVars
    <2>. QED
      BY <2>1, <2>2 DEF CloserWork
  <1>4. LifeInv'
    BY <1>1, <1>2, <1>3 DEF LifeInv, Graceful, Over
  <1>. QED
    BY <1>1, <1>2, <1>4 DEF EndStep

LEMMA LateEnds ==
  ASSUME LifeInv, FinishTakesOver \/ LateSignals
  PROVE  EndStep /\ UNCHANGED terminal
  <1>1. CASE FinishTakesOver
    <2>1. /\ closeBy # "writer" /\ closeAt = "signals" /\ closeAt' = "gate" /\ sigOwed' = TRUE
          /\ UNCHANGED <<goal, why, terminal, err, requested, aborted, readDone, writeDone, termDone>>
          /\ UNCHANGED <<closeBy, gateClosed, closing, socket>>
      BY <1>1 DEF FinishTakesOver, lifeVars
    <2>2. goal = Abort /\ ~ terminal
      BY <2>1 DEF LifeInv, Over
    <2>3. LifeTypeOK'
      BY <2>1 DEF LifeInv, LifeTypeOK
    <2>4. sigOwed' \in BOOLEAN
      BY <2>1
    <2>5. LifeInv'
      BY <2>1, <2>2, <2>3, <2>4 DEF LifeInv, Graceful, Over
    <2>. QED
      BY <2>1, <2>5 DEF EndStep
  <1>2. CASE LateSignals
    <2>1. /\ sigOwed /\ sigOwed' = FALSE /\ aborted' = TRUE /\ requested' = TRUE
          /\ readDone' = TRUE /\ writeDone' = TRUE
          /\ UNCHANGED <<goal, why, terminal, err, termDone>>
          /\ UNCHANGED <<closeBy, closeAt, gateClosed, closing, socket>>
      BY <1>2 DEF LateSignals, onceVars
    <2>2. goal = Abort
      BY <2>1 DEF LifeInv
    <2>3. LifeTypeOK'
      BY <2>1 DEF LifeInv, LifeTypeOK
    <2>4. sigOwed' \in BOOLEAN
      BY <2>1
    <2>5. LifeInv'
      BY <2>1, <2>2, <2>3, <2>4 DEF LifeInv, Graceful, Over
    <2>. QED
      BY <2>1, <2>5 DEF EndStep
  <1>. QED
    BY <1>1, <1>2

LEMMA RequestEnds ==
  ASSUME LifeInv, RaiseGoal(Full) \/ SignalRequest, UNCHANGED sigOwed
  PROVE  EndStep /\ UNCHANGED terminal
  <1>1. /\ UNCHANGED <<why, terminal, err, aborted, readDone, writeDone, termDone>>
        /\ UNCHANGED <<closeBy, closeAt, closing, socket>>
    BY DEF RaiseGoal, SignalRequest, onceVars
  <1>2. /\ goal' \in 0..3 /\ (goal = 3 <=> goal' = 3) /\ (Over => goal' = goal)
        /\ requested' \in BOOLEAN /\ gateClosed' \in BOOLEAN /\ (gateClosed => gateClosed')
    <2>1. goal \in 0..3 /\ requested \in BOOLEAN /\ gateClosed \in BOOLEAN
      BY DEF LifeInv, LifeTypeOK, Running, Abort
    <2>2. ASSUME RaiseGoal(2)
          PROVE  /\ goal' \in 0..3 /\ (goal = 3 <=> goal' = 3) /\ (Over => goal' = goal)
                 /\ UNCHANGED <<requested, gateClosed>>
      BY <2>1, <2>2 DEF RaiseGoal, Raises, Over, Abort
    <2>3. ASSUME SignalRequest PROVE goal' = goal /\ requested' = TRUE /\ gateClosed' = TRUE
      BY <2>3 DEF SignalRequest
    <2>. QED
      BY <2>1, <2>2, <2>3 DEF Full
  <1>3. LifeTypeOK'
    BY <1>1, <1>2 DEF LifeInv, LifeTypeOK, Running, Abort
  <1>4. LifeInv'
    BY <1>1, <1>2, <1>3 DEF LifeInv, Graceful, Over, Abort
  <1>. QED
    BY <1>1, <1>2, <1>4 DEF EndStep, Abort

\* markReadClosed.
LEMMA YieldEnds ==
  ASSUME LifeInv, UNCHANGED sigOwed, ReaderYields
  PROVE  EndStep /\ UNCHANGED <<terminal>>
  <1>1. /\ readDone' = TRUE \/ readDone' = readDone
        /\ UNCHANGED <<goal, why, terminal, err, requested, aborted, writeDone, termDone>>
        /\ UNCHANGED <<closeBy, closeAt, gateClosed, closing, socket>>
    BY DEF ReaderYields, onceVars
  <1>2. readDone' \in BOOLEAN
    BY <1>1 DEF LifeInv, LifeTypeOK
  <1>3. LifeTypeOK'
    BY <1>1, <1>2 DEF LifeInv, LifeTypeOK
  <1>4. LifeInv'
    BY <1>1, <1>3 DEF LifeInv, Graceful, Over
  <1>. QED
    BY <1>1, <1>4 DEF EndStep

----------------------------------------------------------------------------
(* What a step leaves of the other parts of the invariant.                 *)

LEMMA StaysOver ==
  ASSUME EndStep
  PROVE  Over => Over' /\ err' = err /\ (Graceful' <=> Graceful)
  BY DEF EndStep, Over, Graceful

LEMMA KeepWriter ==
  ASSUME WriterInv, EndStep, UNCHANGED <<sendVars, wpc, back>>, terminal' => terminal
  PROVE  WriterInv'
  <1>1. gateClosed' \in BOOLEAN /\ closing' \in BOOLEAN /\ (gateClosed => gateClosed')
    BY DEF EndStep, LifeInv
  <1>2. /\ SendInv(0) => SendInv(0)'
        /\ SendInv(1) => SendInv(1)'
        /\ InOrder(0) => InOrder(0)'
        /\ InOrder(1) => InOrder(1)'
        /\ NoneFailed => NoneFailed'
        /\ gateDone => gateDone'
        /\ Delivered => Delivered'
    BY <1>1, GateStep
  <1>3. UNCHANGED <<queue, frame>>
    BY DEF sendVars
  <1>. QED
    BY <1>2, <1>3 DEF WriterInv

LEMMA KeepPend ==
  ASSUME PendInv, EndStep, UNCHANGED <<pend, wpc>>, rpc' = "deferred" => rpc = "deferred"
  PROVE  PendInv'
  <1>1. Over => Over'
    BY StaysOver
  <1>. QED
    BY <1>1 DEF PendInv, DeferredReadIsKept, Over

LEMMA KeepFinal ==
  ASSUME FinalInv, EndStep, UNCHANGED <<fpc, closedWith>>, LoopsReturned => LoopsReturned'
  PROVE  FinalInv'
  BY StaysOver DEF FinalInv

LEMMA KeepCalls ==
  ASSUME CallsInv, FinalInv, EndStep, UNCHANGED <<cpc, ckind, cres>>, done => done'
  PROVE  CallsInv'
  <1>1. done /\ Graceful => Graceful'
    BY StaysOver DEF FinalInv, done
  <1>. QED
    BY <1>1 DEF CallsInv

Preserved == IInv' /\ EndStep

\* A step outside the writer that moves no message and leaves no failure to it.
LEMMA KeepAll ==
  ASSUME IInv, EndStep, UNCHANGED <<sendVars, wpc, back, pend>>, terminal' => terminal,
         rpc' = "deferred" => rpc = "deferred", CallType', LoopType', CallsInv', FinalInv'
  PROVE  Preserved
  <1>1. WriterInv'
    BY KeepWriter DEF IInv
  <1>2. PendInv'
    BY KeepPend DEF IInv
  <1>. QED
    BY <1>1, <1>2 DEF IInv, EndStep, Preserved

\* The same when the calls and the finalizer stay where they are.
LEMMA KeepOthers ==
  ASSUME IInv, EndStep, UNCHANGED <<sendVars, wpc, back, pend>>, terminal' => terminal,
         rpc' = "deferred" => rpc = "deferred", LoopType',
         UNCHANGED <<cpc, ckind, cres, fpc, closedWith>>, LoopsReturned => LoopsReturned'
  PROVE  Preserved
  <1>1. CallType'
    BY DEF IInv, CallType
  <1>2. FinalInv'
    BY KeepFinal DEF IInv
  <1>3. CallsInv'
    BY KeepCalls DEF IInv, done
  <1>. QED
    BY <1>1, <1>2, <1>3, KeepAll

\* A step of the writer.
LEMMA KeepRest ==
  ASSUME IInv, EndStep, WriterInv', PendInv', LoopType',
         UNCHANGED <<cpc, ckind, cres, rpc, ppc, kpc, fpc, closedWith>>, wpc # "exited"
  PROVE  Preserved
  <1>1. CallType'
    BY DEF IInv, CallType
  <1>2. FinalInv'
    BY KeepFinal DEF IInv, LoopsReturned
  <1>3. CallsInv'
    BY KeepCalls DEF IInv, done
  <1>. QED
    BY <1>1, <1>2, <1>3 DEF IInv, EndStep, Preserved

----------------------------------------------------------------------------
(* One lemma per kind of step.                                             *)

LEMMA InitIInv == Init => IInv
  <1>. SUFFICES ASSUME Init PROVE IInv
    OBVIOUS
  <1>0. PICK on \in Options :
          /\ SendInit(on \cap Senders)
          /\ ppc = (IF "ping" \in on THEN "idle" ELSE "exited")
          /\ kpc = (IF "clock" \in on THEN "running" ELSE "exited")
    BY DEF Init
  <1>1. CallType /\ CallsInv
    BY DEF Init, CallType, CallsInv
  <1>2. LoopType /\ FinalInv
    BY <1>0 DEF Init, LoopType, FinalInv, WriterLabels, ReaderLabels, PingLabels, ClockLabels,
              WatchLabels, FinalLabels, ReadErrors, Reports
  <1>3. LifeInv
    <2>1. /\ goal = 0 /\ why = "none" /\ terminal = FALSE /\ err = "nil" /\ requested = FALSE
          /\ aborted = FALSE /\ readDone = FALSE /\ writeDone = FALSE /\ termDone = FALSE
          /\ closeBy = "nobody" /\ closeAt = "none" /\ socket = "open"
          /\ gateClosed = FALSE /\ closing = FALSE /\ sigOwed = FALSE
      BY <1>0 DEF Init, LifeInit, SendInit, Running
    <2>2. /\ terminal \in BOOLEAN /\ requested \in BOOLEAN /\ aborted \in BOOLEAN
          /\ readDone \in BOOLEAN /\ writeDone \in BOOLEAN /\ termDone \in BOOLEAN
      BY <2>1
    <2>3. LifeTypeOK
      BY <2>1, <2>2 DEF LifeTypeOK, Running, Abort
    <2>4. gateClosed \in BOOLEAN /\ closing \in BOOLEAN /\ sigOwed \in BOOLEAN
      BY <2>1
    <2>5. ~ aborted /\ ~ terminal /\ ~ closing /\ ~ sigOwed
      BY <2>1
    <2>. QED
      BY <2>1, <2>3, <2>4, <2>5 DEF LifeInv, Graceful, Abort
  <1>4. SendInv(0) /\ InOrder(0) /\ NoneFailed /\ frame \notin Senders
    BY <1>0, SendInitInv
  <1>5. ~ terminal
    BY DEF Init, LifeInit
  <1>6. WriterInv
    BY <1>4, <1>5 DEF Init, WriterInv
  <1>7. PendInv
    BY DEF Init, PendInv, DeferredReadIsKept
  <1>. QED
    BY <1>1, <1>2, <1>3, <1>6, <1>7 DEF IInv

LEMMA SendNextIInv ==
  ASSUME IInv, SendNext
  PROVE  Preserved
  <1>1. /\ UNCHANGED endVars /\ UNCHANGED <<peerClosed, pend, rerr, drained, sigOwed>>
        /\ UNCHANGED <<cpc, ckind, cres, wpc, back, rpc, ppc, kpc, fpc, closedWith, dpc>>
    BY DEF SendNext, wsVars, callVars, loopVars
  <1>2. EndStep /\ UNCHANGED <<gateClosed, closing, terminal>>
    BY <1>1, StillEnds DEF IInv
  <1>3. PICK s \in Senders : Enter(s) \/ SenderStep(s) \/ Reject(s) \/ SendExpires(s)
    BY DEF SendNext
  <1>4. ASSUME NEW b \in {0, 1}, SendInv(b)
        PROVE  SendInv(b)' /\ Calm(b)
    BY <1>2, <1>3, <1>4, SenderInv
  <1>5. PICK b \in {0, 1} : SendInv(b)
    BY DEF IInv, WriterInv
  <1>6. UNCHANGED <<ack, frame, written>> /\ (gateDone => gateDone' /\ UNCHANGED <<queue, admitted>>)
    BY <1>4, <1>5 DEF Calm
  <1>7. NoneFailed => NoneFailed'
    BY <1>6 DEF NoneFailed
  <1>8. Delivered => Delivered'
    BY <1>6, <1>7 DEF Delivered
  <1>9. \A d \in {0, 1} : SendInv(d) => SendInv(d)' /\ (InOrder(d) => InOrder(d)')
    BY <1>4 DEF Calm
  <1>10. WriterInv'
    BY <1>1, <1>2, <1>6, <1>7, <1>8, <1>9 DEF IInv, WriterInv
  <1>11. PendInv'
    BY <1>1, <1>2, KeepPend DEF IInv
  <1>12. FinalInv'
    BY <1>1, <1>2, KeepFinal DEF IInv, LoopsReturned
  <1>13. CallsInv'
    BY <1>1, <1>2, KeepCalls DEF IInv, done
  <1>14. CallType' /\ LoopType'
    BY <1>1 DEF IInv, CallType, LoopType
  <1>. QED
    BY <1>2, <1>10, <1>11, <1>12, <1>13, <1>14 DEF IInv, EndStep, Preserved

\* closeOnce and the channels it may be early for.
LEMMA CloserIInv ==
  ASSUME IInv, CloserNext \/ LateSignals \/ FinishTakesOver
  PROVE  Preserved
  <1>1. /\ UNCHANGED <<sendVars, peerClosed, pend, rerr, drained>>
        /\ UNCHANGED <<cpc, ckind, cres, wpc, back, rpc, ppc, kpc, fpc, closedWith, dpc>>
    BY DEF CloserNext, LateSignals, FinishTakesOver, wsVars, callVars, loopVars
  <1>2. CASE CloserNext
    <2>1. CloserWork /\ UNCHANGED sigOwed
      BY <1>2 DEF CloserNext, wsVars
    <2>. QED
      BY <1>1, <2>1, CloserWorkEnds, KeepOthers DEF IInv, LoopType, LoopsReturned
  <1>3. CASE LateSignals \/ FinishTakesOver
    BY <1>1, <1>3, LateEnds, KeepOthers DEF IInv, LoopType, LoopsReturned
  <1>. QED
    BY <1>2, <1>3

\* A call takes a step: its rows change, the loops and the messages do not.
LEMMA CallIInv ==
  ASSUME IInv, EndStep, UNCHANGED <<sendVars, wsVars, loopVars>>, terminal' => terminal,
         NEW c \in Closers, CallType', dpc' \in {dpc, "waiting"},
         \A d \in Closers \ {c} : cpc'[d] = cpc[d] /\ ckind'[d] = ckind[d] /\ cres'[d] = cres[d],
         cpc'[c] # "idle",
         \/ cres'[c] = cres[c] /\ (cres[c] = "none" \/ ckind'[c] = ckind[c])
         \/ cres'[c] = "nil" /\ ckind'[c] = "Shutdown" => done /\ Graceful
  PROVE  Preserved
  <1>1. /\ UNCHANGED <<peerClosed, pend, rerr, drained, sigOwed>>
        /\ UNCHANGED <<wpc, back, rpc, ppc, kpc, fpc, closedWith>>
    BY DEF wsVars, loopVars
  <1>2. LoopType'
    <2>1. LoopType
      BY DEF IInv
    <2>2. dpc' \in WatchLabels
      BY <2>1 DEF LoopType, WatchLabels
    <2>. QED
      BY <1>1, <2>1, <2>2 DEF LoopType
  <1>3. FinalInv'
    BY <1>1, KeepFinal DEF IInv, LoopsReturned
  <1>4. done /\ Graceful => done' /\ Graceful'
    BY <1>1, StaysOver DEF IInv, FinalInv, done
  <1>5. ASSUME NEW d \in Closers
        PROVE  /\ cpc'[d] = "idle" => cres'[d] = "none"
               /\ cres'[d] = "nil" /\ ckind'[d] = "Shutdown" => done' /\ Graceful'
    <2>1. /\ cpc[d] = "idle" => cres[d] = "none"
          /\ cres[d] = "nil" /\ ckind[d] = "Shutdown" => done /\ Graceful
      BY DEF IInv, CallsInv
    <2>2. CASE d # c
      BY <1>4, <2>1, <2>2
    <2>3. CASE d = c
      BY <1>4, <2>1, <2>3
    <2>. QED
      BY <2>2, <2>3
  <1>6. CallsInv'
    BY <1>5 DEF CallsInv
  <1>. QED
    BY <1>1, <1>2, <1>3, <1>6, KeepAll

\* What the rows of one call become.
LEMMA RowStep ==
  ASSUME CallType, NEW c \in Closers, NEW s
  PROVE  /\ cpc' = [cpc EXCEPT ![c] = s] =>
              cpc'[c] = s /\ \A d \in Closers \ {c} : cpc'[d] = cpc[d]
         /\ ckind' = [ckind EXCEPT ![c] = s] =>
              ckind'[c] = s /\ \A d \in Closers \ {c} : ckind'[d] = ckind[d]
         /\ cres' = [cres EXCEPT ![c] = s] =>
              cres'[c] = s /\ \A d \in Closers \ {c} : cres'[d] = cres[d]
  <1>1. cpc' = [cpc EXCEPT ![c] = s] => cpc'[c] = s /\ \A d \in Closers \ {c} : cpc'[d] = cpc[d]
    BY DEF CallType
  <1>2. ckind' = [ckind EXCEPT ![c] = s] =>
          ckind'[c] = s /\ \A d \in Closers \ {c} : ckind'[d] = ckind[d]
    BY DEF CallType
  <1>3. cres' = [cres EXCEPT ![c] = s] => cres'[c] = s /\ \A d \in Closers \ {c} : cres'[d] = cres[d]
    BY DEF CallType
  <1>. QED
    BY <1>1, <1>2, <1>3

LEMMA ShutdownIInv ==
  ASSUME IInv, NEW c \in Closers, Shutdown(c) \/ SignalShutdown(c) \/ CallEnds(c)
  PROVE  Preserved
  <1>0. CallType /\ UNCHANGED <<sendVars, wsVars, loopVars, cres>> /\ dpc' \in {dpc, "waiting"}
    BY DEF IInv, Shutdown, SignalShutdown, CallEnds
  <1>1. UNCHANGED sigOwed
    BY <1>0 DEF wsVars
  <1>2. EndStep /\ UNCHANGED terminal
    BY <1>1, RequestEnds, StillEnds DEF IInv, Shutdown, SignalShutdown, CallEnds
  <1>3. PICK label \in {"signal", "wait", "returned"} : cpc' = [cpc EXCEPT ![c] = label]
    BY DEF Shutdown, SignalShutdown, CallEnds, CallTo
  <1>4. cpc'[c] = label /\ \A d \in Closers \ {c} : cpc'[d] = cpc[d]
    BY <1>0, <1>3, RowStep
  <1>5. \/ ckind' = ckind
        \/ ckind' = [ckind EXCEPT ![c] = "Shutdown"] /\ cpc[c] = "idle"
    BY DEF Shutdown, SignalShutdown, CallEnds
  <1>6. /\ \A d \in Closers \ {c} : ckind'[d] = ckind[d]
        /\ ckind'[c] = ckind[c] \/ cres[c] = "none"
    BY <1>0, <1>5, RowStep DEF IInv, CallsInv
  <1>7. CallType'
    BY <1>0, <1>3, <1>5 DEF CallType
  <1>. QED
    BY <1>0, <1>2, <1>4, <1>6, <1>7, CallIInv

\* A call returns.
LEMMA ReturnIInv ==
  ASSUME IInv, NEW c \in Closers, WaitDone(c) \/ CallExpires(c) \/ Close(c)
  PROVE  Preserved
  <1>0. CallType /\ UNCHANGED <<sendVars, wsVars, loopVars, dpc>> /\ c \in Threads
    BY DEF IInv, WaitDone, CallExpires, Close, Threads
  <1>1. UNCHANGED sigOwed
    BY <1>0 DEF wsVars
  <1>2. EndStep /\ UNCHANGED terminal
    <2>1. \/ UNCHANGED endVars
          \/ \E reason \in {"explicit", "caller", "failure"} : AbortWith(c, reason, "nil")
      BY DEF WaitDone, CallExpires, Close
    <2>. QED
      BY <1>0, <1>1, <2>1, AbortWithEnds, StillEnds DEF IInv
  <1>3. PICK r \in {"nil", "ctx", "closed", "err"} :
          cpc' = [cpc EXCEPT ![c] = "leaving"] /\ cres' = [cres EXCEPT ![c] = r]
    BY DEF WaitDone, CallExpires, Close, CallReturns, CallTo, LifecycleResult
  <1>4. cpc'[c] = "leaving" /\ \A d \in Closers \ {c} : cpc'[d] = cpc[d]
    BY <1>0, <1>3, RowStep
  <1>5. cres'[c] = r /\ \A d \in Closers \ {c} : cres'[d] = cres[d]
    BY <1>0, <1>3, RowStep
  <1>6. ckind' = ckind \/ ckind' = [ckind EXCEPT ![c] = "Close"]
    BY DEF WaitDone, CallExpires, Close
  <1>7. \A d \in Closers \ {c} : ckind'[d] = ckind[d]
    BY <1>0, <1>6, RowStep
  <1>8. CallType'
    BY <1>0, <1>3, <1>6 DEF CallType
  <1>9. cres'[c] = "nil" /\ ckind'[c] = "Shutdown" => done /\ Graceful
    <2>1. CASE WaitDone(c)
      <3>1. (done \/ aborted) /\ cres' = [cres EXCEPT ![c] = LifecycleResult]
        BY <2>1 DEF WaitDone, CallReturns
      <3>2. cres'[c] = LifecycleResult
        BY <1>0, <3>1, RowStep
      <3>3. LifecycleResult = "nil" => Graceful
        BY DEF LifecycleResult, IInv, LifeInv
      <3>4. Graceful => ~ aborted
        BY DEF IInv, LifeInv, Graceful
      <3>. QED
        BY <3>1, <3>2, <3>3, <3>4
    <2>2. CASE CallExpires(c)
      <3>1. cres' = [cres EXCEPT ![c] = "ctx"]
        BY <2>2 DEF CallExpires, CallReturns
      <3>. QED
        BY <1>0, <3>1, RowStep
    <2>3. CASE Close(c)
      <3>1. ckind' = [ckind EXCEPT ![c] = "Close"]
        BY <2>3 DEF Close
      <3>. QED
        BY <1>0, <3>1, RowStep
    <2>. QED
      BY <2>1, <2>2, <2>3
  <1>. QED
    BY <1>0, <1>2, <1>4, <1>5, <1>7, <1>8, <1>9, CallIInv

LEMMA WatchIInv ==
  ASSUME IInv, WatchStep
  PROVE  Preserved
  <1>1. /\ UNCHANGED <<sendVars, peerClosed, pend, rerr, drained, sigOwed>>
        /\ UNCHANGED <<cpc, ckind, cres, wpc, back, rpc, ppc, kpc, fpc, closedWith>>
        /\ dpc' \in WatchLabels
    BY DEF WatchStep, wsVars, callVars, loopVars, WatchLabels
  <1>2. EndStep /\ UNCHANGED terminal
    <2>1. UNCHANGED endVars \/ AbortWith("watchdog", "failure", "cause")
      BY DEF WatchStep
    <2>. QED
      BY <1>1, <2>1, AbortWithEnds, StillEnds DEF IInv, Threads
  <1>. QED
    BY <1>1, <1>2, KeepOthers DEF IInv, LoopType, LoopsReturned

----------------------------------------------------------------------------
(* The writer.                                                             *)

LEMMA WriterSelectIInv ==
  ASSUME IInv, WriterSelect
  PROVE  Preserved
  <1>0. /\ UNCHANGED endVars /\ UNCHANGED <<peerClosed, rerr, sigOwed>>
        /\ UNCHANGED <<cpc, ckind, cres, rpc, ppc, kpc, fpc, closedWith, dpc>>
        /\ wpc \in {"run", "drain"} /\ drained' \in {TRUE, drained}
    BY DEF WriterSelect, WriterTo, callVars
  <1>1. EndStep /\ UNCHANGED <<gateClosed, closing, goal, terminal>>
    BY <1>0, StillEnds DEF IInv
  <1>2. /\ SendInv(0) /\ InOrder(0) /\ NoneFailed /\ frame \notin Senders /\ ~ terminal
        /\ back \in {"run", "drain"} /\ (wpc = "drain" => gateDone)
    BY <1>0 DEF IInv, WriterInv
  <1>3. pend = "off" /\ (rpc = "deferred" => Over)
    BY <1>0 DEF IInv, PendInv, DeferredReadIsKept, Over
  <1>4. ASSUME TakeFrame, back' = wpc, wpc' = "writing", pend' = "on"
        PROVE  WriterInv' /\ PendInv'
    <2>1. SendInv(1)' /\ InOrder(1)' /\ frame' \in Senders /\ UNCHANGED <<ack, active>>
      BY <1>1, <1>2, <1>4, TakeFrameInv DEF TakeFrame
    <2>2. NoneFailed'
      BY <1>2, <2>1 DEF NoneFailed
    <2>3. gateDone => gateDone'
      BY <1>1, <2>1 DEF gateDone
    <2>4. WriterInv'
      BY <1>0, <1>1, <1>2, <1>4, <2>1, <2>2, <2>3 DEF WriterInv
    <2>5. PendInv'
      BY <1>0, <1>1, <1>3, <1>4 DEF PendInv, DeferredReadIsKept, Over
    <2>. QED
      BY <2>4, <2>5
  <1>5. ASSUME UNCHANGED <<sendVars, back, pend>>,
               \/ wpc' = "defer"
               \/ wpc' = "drain" /\ gateDone
               \/ wpc' = "close" /\ gateDone /\ queue = <<>>
        PROVE  WriterInv' /\ PendInv'
    <2>1. gateClosed \in BOOLEAN /\ closing \in BOOLEAN
      BY DEF IInv, LifeInv
    <2>2. /\ SendInv(0)' /\ InOrder(0)' /\ NoneFailed'
          /\ (gateDone => gateDone') /\ (Delivered => Delivered')
      BY <1>1, <1>2, <1>5, <2>1, GateStep
    <2>3. UNCHANGED <<queue, frame>>
      BY <1>5 DEF sendVars
    <2>4. gateDone /\ queue = <<>> => Delivered
      BY <1>2, AllWritten DEF Delivered
    <2>5. WriterInv'
      BY <1>1, <1>2, <1>5, <2>2, <2>3, <2>4 DEF WriterInv
    <2>6. PendInv'
      BY <1>0, <1>1, <1>3, <1>5 DEF PendInv, DeferredReadIsKept, Over
    <2>. QED
      BY <2>5, <2>6
  <1>6. WriterInv' /\ PendInv' /\ wpc' \in {"defer", "writing", "drain", "close"}
    <2>1. \/ TakeFrame /\ back' = wpc /\ wpc' = "writing" /\ pend' = "on"
          \/ /\ UNCHANGED <<sendVars, back, pend>>
             /\ \/ wpc' = "defer"
                \/ wpc' = "drain" /\ gateDone
                \/ wpc' = "close" /\ wpc = "drain" /\ queue = <<>>
      BY DEF WriterSelect, WriterTo
    <2>. QED
      BY <1>2, <1>4, <1>5, <2>1
  <1>7. LoopType'
    <2>1. LoopType
      BY DEF IInv
    <2>2. drained' \in BOOLEAN
      BY <1>0, <2>1 DEF LoopType
    <2>3. wpc' \in WriterLabels
      BY <1>6 DEF WriterLabels
    <2>. QED
      BY <1>0, <2>1, <2>2, <2>3 DEF LoopType
  <1>. QED
    BY <1>0, <1>1, <1>6, <1>7, KeepRest

LEMMA WriteFrameIInv ==
  ASSUME IInv, WriteFrame
  PROVE  Preserved
  <1>0. /\ UNCHANGED endVars /\ UNCHANGED <<peerClosed, rerr, drained, sigOwed>>
        /\ UNCHANGED <<cpc, ckind, cres, rpc, ppc, kpc, fpc, closedWith, dpc, back>>
        /\ wpc = "writing" /\ wpc' = AfterWrite /\ pend' = "off" /\ FrameWritten
    BY DEF WriteFrame, WriterTo, callVars
  <1>1. EndStep /\ UNCHANGED <<gateClosed, closing, goal, terminal>>
    BY <1>0, StillEnds DEF IInv
  <1>2. /\ SendInv(1) /\ InOrder(1) /\ NoneFailed /\ frame \in Senders /\ ~ terminal
        /\ back \in {"run", "drain"} /\ (back = "drain" => gateDone)
    BY <1>0 DEF IInv, WriterInv
  <1>3. /\ pend \in {"on", "nil", "cause"}
        /\ rpc = "deferred" => pend \in {"nil", "cause"} \/ Over
    BY <1>0 DEF IInv, PendInv, DeferredReadIsKept, Over
  <1>4. /\ pend = "on" => wpc' = back
        /\ pend # "on" => wpc' = pend
    BY <1>0 DEF AfterWrite
  <1>5. SendInv(0)' /\ InOrder(0)' /\ frame' \notin Senders /\ NoneFailed'
    BY <1>0, <1>1, <1>2, FrameWrittenInv, SendPathAssumption
  <1>6. gateDone => gateDone'
    BY <1>0, <1>1 DEF gateDone, FrameWritten
  <1>7. WriterInv'
    BY <1>0, <1>1, <1>2, <1>3, <1>4, <1>5, <1>6 DEF WriterInv
  <1>8. PendInv'
    BY <1>0, <1>1, <1>2, <1>3, <1>4 DEF PendInv, DeferredReadIsKept, Over
  <1>9. wpc' \in WriterLabels
    BY <1>2, <1>3, <1>4 DEF WriterLabels
  <1>10. LoopType'
    BY <1>0, <1>9 DEF IInv, LoopType
  <1>. QED
    BY <1>0, <1>1, <1>7, <1>8, <1>10, KeepRest

\* The write fails, and the Send is told when the session is closed.
LEMMA WriteFailsIInv ==
  ASSUME IInv, WriteFails
  PROVE  Preserved
  <1>0. /\ UNCHANGED <<peerClosed, pend, rerr, drained, sigOwed>>
        /\ UNCHANGED <<cpc, ckind, cres, rpc, ppc, kpc, fpc, closedWith, dpc, back>>
        /\ wpc = "writing" /\ wpc' = "failed" /\ FrameFailed
    BY DEF WriteFails, WriterTo, callVars, wsVars
  <1>1. pend \in {"on", "nil", "cause"}
    BY <1>0 DEF IInv, PendInv
  <1>2. \E cause \in {"nil", "cause"} : AbortWith("writer", "failure", cause)
    BY <1>1 DEF WriteFails
  <1>3. EndStep /\ Over' /\ UNCHANGED <<gateClosed, closing, terminal>>
    BY <1>0, <1>2, AbortWithEnds DEF IInv, Threads
  <1>4. SendInv(1) /\ NoneFailed /\ frame \in Senders /\ ~ terminal /\ back \in {"run", "drain"}
    BY <1>0 DEF IInv, WriterInv
  <1>5. SendInv(0)' /\ UNCHANGED <<ack, frame>>
    BY <1>0, <1>3, <1>4, FrameFailedInv
  <1>6. WriterInv'
    BY <1>0, <1>3, <1>4, <1>5 DEF WriterInv, NoneFailed
  <1>7. PendInv'
    BY <1>0, <1>1, <1>3 DEF PendInv, DeferredReadIsKept, Over
  <1>8. LoopType'
    BY <1>0 DEF IInv, LoopType, WriterLabels
  <1>. QED
    BY <1>0, <1>3, <1>6, <1>7, <1>8, KeepRest

LEMMA AckFailureIInv ==
  ASSUME IInv, AckFailure
  PROVE  Preserved
  <1>0. /\ UNCHANGED endVars /\ UNCHANGED <<peerClosed, rerr, drained, sigOwed>>
        /\ UNCHANGED <<cpc, ckind, cres, rpc, ppc, kpc, fpc, closedWith, dpc, back>>
        /\ wpc = "failed" /\ wpc' = "defer" /\ pend' = "off" /\ TellFailure
    BY DEF AckFailure, WriterTo, callVars
  <1>1. EndStep /\ UNCHANGED <<gateClosed, closing, goal, terminal>>
    BY <1>0, StillEnds DEF IInv
  <1>2. SendInv(0) /\ frame \in Senders /\ ~ terminal /\ back \in {"run", "drain"}
    BY <1>0 DEF IInv, WriterInv
  <1>3. SendInv(0)' /\ frame' \notin Senders
    BY <1>0, <1>1, <1>2, TellFailureInv, SendPathAssumption
  <1>4. WriterInv'
    BY <1>0, <1>1, <1>2, <1>3 DEF WriterInv
  <1>5. Over
    BY <1>0 DEF IInv, PendInv
  <1>6. PendInv'
    BY <1>0, <1>1, <1>5 DEF PendInv, DeferredReadIsKept, Over
  <1>7. LoopType'
    BY <1>0 DEF IInv, LoopType, WriterLabels
  <1>. QED
    BY <1>0, <1>1, <1>4, <1>6, <1>7, KeepRest

\* The writer ends the session: for the reader, after its close handshake, or
\* because that failed.
LEMMA WriterEndsIInv ==
  ASSUME IInv, CloseForReader \/ CloseHandshake \/ FinishLocalGraceful \/ WriterReturns
  PROVE  Preserved
  <1>0. /\ UNCHANGED <<sendVars, peerClosed, pend, rerr, drained, sigOwed>>
        /\ UNCHANGED <<cpc, ckind, cres, rpc, ppc, kpc, fpc, closedWith, dpc, back>>
    BY DEF CloseForReader, CloseHandshake, FinishLocalGraceful, WriterReturns, WriterTo, callVars,
           wsVars
  <1>1. wpc \in {"nil", "cause", "close", "mark", "once", "finish"}
    BY DEF CloseForReader, CloseHandshake, FinishLocalGraceful, WriterReturns
  <1>2. /\ SendInv(0) /\ frame \notin Senders /\ back \in {"run", "drain"}
        /\ wpc \in {"close", "mark"} => Delivered
        /\ terminal => wpc = "once" /\ Delivered
    BY <1>1 DEF IInv, WriterInv
  <1>3. pend = "off" /\ (rpc = "deferred" => Over \/ wpc \in {"nil", "cause"})
    BY <1>1 DEF IInv, PendInv, DeferredReadIsKept, Over
  <1>4. ASSUME EndStep, wpc' \in {"finish", "mark", "once", "defer"},
               wpc' = "mark" => Delivered,
               terminal' => Delivered /\ wpc' \in {"once", "defer"},
               wpc \in {"nil", "cause"} => Over'
        PROVE  Preserved
    <2>1. gateClosed' \in BOOLEAN /\ closing' \in BOOLEAN /\ (gateClosed => gateClosed')
      BY <1>4 DEF EndStep, LifeInv
    <2>2. SendInv(0)' /\ (Delivered => Delivered')
      BY <1>0, <1>2, <2>1, GateStep
    <2>3. frame' \notin Senders
      BY <1>0, <1>2 DEF sendVars
    <2>4. WriterInv'
      BY <1>0, <1>2, <1>4, <2>2, <2>3 DEF WriterInv
    <2>5. Over => Over'
      BY <1>4, StaysOver
    <2>6. PendInv'
      BY <1>0, <1>3, <1>4, <2>5 DEF PendInv, DeferredReadIsKept, Over
    <2>7. LoopType'
      BY <1>0, <1>4 DEF IInv, LoopType, WriterLabels
    <2>. QED
      BY <1>0, <1>1, <1>4, <2>4, <2>6, <2>7, KeepRest
  <1>5. CASE CloseForReader
    <2>1. wpc \in {"nil", "cause"} /\ AbortWith("writer", "failure", wpc) /\ wpc' = "finish"
      BY <1>5 DEF CloseForReader, WriterTo
    <2>2. EndStep /\ Over' /\ UNCHANGED terminal
      BY <1>0, <2>1, AbortWithEnds DEF IInv, Threads
    <2>. QED
      BY <1>2, <1>4, <2>1, <2>2
  <1>6. CASE CloseHandshake
    <2>1. /\ wpc = "close"
          /\ \/ wpc' = "mark" /\ UNCHANGED endVars
             \/ wpc' = "finish" /\ AbortWith("writer", "failure", "cause")
      BY <1>6 DEF CloseHandshake, WriterTo
    <2>2. EndStep /\ UNCHANGED terminal
      BY <1>0, <2>1, AbortWithEnds, StillEnds DEF IInv, Threads
    <2>. QED
      BY <1>2, <1>4, <2>1, <2>2
  <1>7. CASE FinishLocalGraceful
    <2>1. wpc = "mark" /\ wpc' = "once" /\ TryMarkTerminal("writer")
      BY <1>7 DEF FinishLocalGraceful, WriterTo
    <2>2. EndStep
      BY <1>0, <2>1, MarkEnds DEF IInv
    <2>. QED
      BY <1>2, <1>4, <2>1, <2>2
  <1>8. CASE WriterReturns
    <2>1. wpc \in {"finish", "once"} /\ wpc' = "defer" /\ UNCHANGED endVars
      BY <1>8 DEF WriterReturns, WriterTo
    <2>2. EndStep /\ UNCHANGED terminal
      BY <1>0, <2>1, StillEnds DEF IInv
    <2>. QED
      BY <1>2, <1>4, <2>1, <2>2
  <1>. QED
    BY <1>5, <1>6, <1>7, <1>8

LEMMA WriterExitsIInv ==
  ASSUME IInv, WriterExits
  PROVE  Preserved
  <1>0. /\ UNCHANGED endVars /\ UNCHANGED <<peerClosed, pend, rerr, sigOwed>>
        /\ UNCHANGED <<cpc, ckind, cres, rpc, ppc, kpc, fpc, closedWith, dpc, back>>
        /\ wpc = "defer" /\ wpc' = "exited" /\ drained' = TRUE /\ FailPending
    BY DEF WriterExits, WriterTo, callVars
  <1>1. EndStep /\ UNCHANGED <<gateClosed, closing, goal, terminal>>
    BY <1>0, StillEnds DEF IInv
  <1>2. SendInv(0) /\ frame \notin Senders /\ back \in {"run", "drain"} /\ (terminal => Delivered)
    BY <1>0 DEF IInv, WriterInv
  <1>3. /\ SendInv(0)' /\ queue' = <<>> /\ UNCHANGED <<admitted, written, frame>> /\ gateDone'
        /\ queue = <<>> => ack' = ack
    BY <1>0, <1>1, <1>2, FailPendingInv
  <1>4. Delivered => Delivered'
    BY <1>3 DEF Delivered, NoneFailed
  <1>5. WriterInv'
    BY <1>0, <1>1, <1>2, <1>3, <1>4 DEF WriterInv
  <1>6. PendInv'
    BY <1>0, <1>1 DEF IInv, PendInv, DeferredReadIsKept, Over
  <1>7. LoopType'
    BY <1>0 DEF IInv, LoopType, WriterLabels
  <1>. QED
    BY <1>0, <1>1, <1>5, <1>6, <1>7, KeepRest

----------------------------------------------------------------------------
(* The reader, the ping loop, the activity clock and finalize.             *)

LEMMA ReaderDecidesIInv ==
  ASSUME IInv, ReaderDecides
  PROVE  Preserved
  <1>0. /\ UNCHANGED <<sendVars, peerClosed, rerr, drained, sigOwed>>
        /\ UNCHANGED <<cpc, ckind, cres, wpc, back, ppc, kpc, fpc, closedWith, dpc>>
        /\ rpc = "decide" /\ rpc' \in {"deferred", "exiting"}
    BY DEF ReaderDecides, ReaderTo, callVars
  <1>1. LoopType' /\ ~ LoopsReturned
    <2>1. rpc' \in ReaderLabels /\ LoopType
      BY <1>0 DEF IInv, ReaderLabels
    <2>. QED
      BY <1>0, <2>1 DEF LoopType, LoopsReturned
  <1>2. Normalize(rerr) \in {"nil", "cause"}
    BY DEF Normalize
  <1>3. CASE rpc' = "exiting"
    <2>1. (\E cause \in {"nil", "cause"} : AbortWith("reader", "failure", cause)) /\ pend' = pend
      BY <1>2, <1>3 DEF ReaderDecides, ReaderTo
    <2>2. EndStep /\ UNCHANGED terminal
      BY <1>0, <2>1, AbortWithEnds DEF IInv, Threads
    <2>. QED
      BY <1>0, <1>1, <1>3, <2>1, <2>2, KeepOthers
  <1>4. CASE rpc' = "deferred"
    <2>1. pend # "off" /\ pend' \in {"nil", "cause"} /\ UNCHANGED endVars
      BY <1>2, <1>4 DEF ReaderDecides, ReaderTo
    <2>2. EndStep /\ UNCHANGED <<goal, terminal>>
      BY <1>0, <2>1, StillEnds DEF IInv
    <2>3. WriterInv'
      BY <1>0, <2>2, KeepWriter DEF IInv
    <2>4. PendInv'
      BY <1>0, <2>1, <2>2 DEF IInv, PendInv, DeferredReadIsKept, Over
    <2>5. CallsInv' /\ CallType'
      BY <1>0, <2>2, KeepCalls DEF IInv, CallType, done
    <2>6. FinalInv'
      BY <1>0, <1>1, <2>2, KeepFinal DEF IInv
    <2>. QED
      BY <1>1, <2>2, <2>3, <2>4, <2>5, <2>6 DEF IInv, EndStep, Preserved
  <1>. QED
    BY <1>0, <1>3, <1>4

LEMMA ReaderIInv ==
  ASSUME IInv, ReaderStep \/ ReaderYields \/ DecodeFails \/ ReadFails \/ PeerCloses
  PROVE  Preserved
  <1>0. /\ UNCHANGED <<sendVars, pend, drained, sigOwed>>
        /\ UNCHANGED <<cpc, ckind, cres, wpc, back, ppc, kpc, fpc, closedWith, dpc>>
    BY DEF ReaderStep, ReaderYields, DecodeFails, ReadFails, PeerCloses, ReaderTo, callVars, loopVars
  <1>1. /\ peerClosed' \in {TRUE, peerClosed} /\ rerr' \in {rerr, "normal", "nil", "cause"}
        /\ \/ rpc' = rpc
           \/ /\ rpc \notin {"deferred", "exited"}
              /\ rpc' \in {"reading", "failed", "decide", "exiting", "exited"}
    BY DEF ReaderStep, ReaderYields, DecodeFails, ReadFails, PeerCloses, ReaderTo, loopVars
  <1>2. LoopType' /\ (LoopsReturned => LoopsReturned') /\ (rpc' = "deferred" => rpc = "deferred")
    <2>1. LoopType
      BY DEF IInv
    <2>2. /\ peerClosed' \in BOOLEAN /\ rerr' \in ReadErrors /\ rpc' \in ReaderLabels
      <3>1. peerClosed' \in BOOLEAN
        BY <1>1, <2>1 DEF LoopType
      <3>2. rerr' \in ReadErrors
        BY <1>1, <2>1 DEF LoopType, ReadErrors
      <3>3. rpc' \in ReaderLabels
        BY <1>1, <2>1 DEF LoopType, ReaderLabels
      <3>. QED
        BY <3>1, <3>2, <3>3
    <2>3. LoopType'
      BY <1>0, <2>1, <2>2 DEF LoopType
    <2>. QED
      BY <1>0, <1>1, <2>3 DEF LoopsReturned
  <1>3. EndStep /\ UNCHANGED terminal
    <2>1. \/ UNCHANGED endVars \/ AbortWith("reader", "failure", "cause")
          \/ ReaderYields
      BY DEF ReaderStep, DecodeFails, ReadFails, PeerCloses
    <2>. QED
      BY <1>0, <2>1, StillEnds, AbortWithEnds, YieldEnds DEF IInv, Threads
  <1>. QED
    BY <1>0, <1>2, <1>3, KeepOthers

LEMMA PingClockIInv ==
  ASSUME IInv, PingBegins \/ PingEnds \/ PingReturns \/ ClockExpires \/ ClockReturns
  PROVE  Preserved
  <1>0. /\ UNCHANGED <<sendVars, peerClosed, pend, rerr, drained, sigOwed>>
        /\ UNCHANGED <<cpc, ckind, cres, wpc, back, rpc, fpc, closedWith, dpc>>
    BY DEF PingBegins, PingEnds, PingReturns, PingTo, ClockExpires, ClockReturns, ClockTo, wsVars,
           callVars
  <1>1. /\ ppc' = ppc \/ (ppc # "exited" /\ ppc' \in {"idle", "pinging", "exiting", "exited"})
        /\ kpc' = kpc \/ (kpc # "exited" /\ kpc' \in {"exiting", "exited"})
    BY DEF PingBegins, PingEnds, PingReturns, PingTo, ClockExpires, ClockReturns, ClockTo
  <1>2. LoopType' /\ (LoopsReturned => LoopsReturned')
    <2>1. LoopType
      BY DEF IInv
    <2>2. ppc' \in PingLabels /\ kpc' \in ClockLabels
      BY <1>1, <2>1 DEF LoopType, PingLabels, ClockLabels
    <2>3. LoopType'
      BY <1>0, <2>1, <2>2 DEF LoopType
    <2>. QED
      BY <1>0, <1>1, <2>3 DEF LoopsReturned
  <1>3. EndStep /\ UNCHANGED terminal
    <2>1. \/ UNCHANGED endVars
          \/ \E t \in {"ping", "clock"} : AbortWith(t, "failure", "cause")
      BY DEF PingBegins, PingEnds, PingReturns, ClockExpires, ClockReturns
    <2>. QED
      BY <1>0, <2>1, StillEnds, AbortWithEnds DEF IInv, Threads
  <1>. QED
    BY <1>0, <1>2, <1>3, KeepOthers

LEMMA FinalIInv ==
  ASSUME IInv, FinalStep
  PROVE  Preserved
  <1>0. /\ UNCHANGED <<sendVars, peerClosed, pend, rerr, drained, sigOwed>>
        /\ UNCHANGED <<cpc, ckind, cres, wpc, back, rpc, ppc, kpc, dpc>>
    BY DEF FinalStep, Finalize, OnClose, CloseDone, FinalTo, wsVars, callVars
  <1>1. LifeInv /\ FinalInv /\ (LoopsReturned => LoopsReturned')
    BY <1>0 DEF IInv, LoopsReturned
  <1>2. ASSUME EndStep, UNCHANGED terminal, FinalInv', ~ done,
               fpc' \in {"onClose", "closed", "done"}, closedWith' \in {closedWith, err}
        PROVE  Preserved
    <2>1. CallsInv' /\ CallType'
      BY <1>0, <1>2, KeepCalls DEF IInv, CallType
    <2>2. err \in {"nil", "cause"}
      BY <1>1 DEF LifeInv, LifeTypeOK
    <2>3. LoopType'
      <3>1. LoopType
        BY DEF IInv
      <3>2. fpc' \in FinalLabels
        BY <1>2 DEF FinalLabels
      <3>3. closedWith' \in Reports
        BY <1>2, <2>2, <3>1 DEF LoopType, Reports
      <3>. QED
        BY <1>0, <3>1, <3>2, <3>3 DEF LoopType
    <2>. QED
      BY <1>0, <1>2, <2>1, <2>3, KeepAll
  <1>3. CASE Finalize
    <2>1. /\ fpc = "waiting" /\ LoopsReturned /\ fpc' = "onClose" /\ closedWith' = closedWith
          /\ (closing /\ UNCHANGED endVars) \/ AbortWith("finalizer", "failure", "nil")
      BY <1>3 DEF Finalize, FinalTo
    <2>2. EndStep /\ UNCHANGED terminal /\ Over'
      <3>1. CASE closing /\ UNCHANGED endVars
        <4>1. Over
          BY <1>1, <3>1 DEF LifeInv
        <4>. QED
          BY <1>0, <1>1, <3>1, <4>1, StillEnds, StaysOver
      <3>2. CASE AbortWith("finalizer", "failure", "nil")
        BY <1>0, <1>1, <3>2, AbortWithEnds DEF Threads
      <3>. QED
        BY <2>1, <3>1, <3>2
    <2>3. FinalInv'
      BY <1>1, <2>1, <2>2 DEF FinalInv
    <2>. QED
      BY <1>2, <2>1, <2>2, <2>3 DEF done
  <1>4. CASE OnClose \/ CloseDone
    <2>1. /\ UNCHANGED endVars
          /\ \/ fpc = "onClose" /\ fpc' = "closed" /\ closedWith' = err
             \/ fpc = "closed" /\ fpc' = "done" /\ closedWith' = closedWith
      BY <1>4 DEF OnClose, CloseDone, FinalTo
    <2>2. EndStep /\ UNCHANGED <<terminal, err>>
      BY <1>0, <1>1, <2>1, StillEnds
    <2>3. FinalInv'
      BY <1>1, <2>1, <2>2, StaysOver DEF FinalInv
    <2>. QED
      BY <1>2, <2>1, <2>2, <2>3 DEF done
  <1>. QED
    BY <1>3, <1>4 DEF FinalStep

LEMMA NextIInv == IInv /\ [Next]_vars => Preserved
  <1>. SUFFICES ASSUME IInv, [Next]_vars PROVE Preserved
    OBVIOUS
  <1>1. CASE SendNext \/ CloserNext \/ LateSignals \/ WatchStep
    BY <1>1, SendNextIInv, CloserIInv, WatchIInv
  <1>2. ASSUME NEW c \in Closers, Shutdown(c) \/ Close(c) \/ CallerStep(c) \/ CallExpires(c)
        PROVE  Preserved
    BY <1>2, ShutdownIInv, ReturnIInv DEF CallerStep
  <1>3. CASE WriterStep \/ CloseHandshake
    BY <1>3, WriterSelectIInv, WriteFrameIInv, WriteFailsIInv, AckFailureIInv, WriterEndsIInv,
       WriterExitsIInv, CloserIInv DEF WriterStep
  <1>4. CASE ReaderProgress \/ DecodeFails \/ ReadFails \/ PeerCloses
    BY <1>4, ReaderIInv, ReaderDecidesIInv DEF ReaderProgress
  <1>5. CASE PingBegins \/ PingEnds \/ PingReturns \/ ClockExpires \/ ClockReturns
    BY <1>5, PingClockIInv
  <1>6. CASE FinalStep
    BY <1>6, FinalIInv
  <1>7. CASE UNCHANGED vars
    <2>1. /\ UNCHANGED endVars /\ UNCHANGED <<sendVars, peerClosed, pend, rerr, drained, sigOwed>>
          /\ UNCHANGED <<cpc, ckind, cres, wpc, back, rpc, ppc, kpc, fpc, closedWith, dpc>>
      BY <1>7 DEF vars, wsVars, callVars, loopVars
    <2>2. EndStep /\ UNCHANGED terminal
      BY <2>1, StillEnds DEF IInv
    <2>3. LoopType' /\ (LoopsReturned => LoopsReturned')
      BY <2>1 DEF IInv, LoopType, LoopsReturned
    <2>. QED
      BY <2>1, <2>2, <2>3, KeepOthers
  <1>. QED
    BY <1>1, <1>2, <1>3, <1>4, <1>5, <1>6, <1>7 DEF Next

LEMMA Invariant == Spec => []IInv
  <1>1. IInv /\ [Next]_vars => IInv'
    BY NextIInv DEF Preserved
  <1>. QED
    BY <1>1, InitIInv, PTL DEF Spec

----------------------------------------------------------------------------
(* The theorems.                                                           *)

\* A graceful end has written every message in order, and nobody is told nil
\* falsely.
THEOREM GracefulIsLossless == Spec => []GracefulLosesNothing
  <1>1. IInv => GracefulLosesNothing
    <2>. SUFFICES ASSUME IInv PROVE GracefulLosesNothing
      OBVIOUS
    <2>1. NilSendIsWritten /\ admitted \in Seq(Senders)
      BY DEF IInv, WriterInv, SendInv, Answers
    <2>2. terminal => Delivered /\ Graceful /\ err = "nil"
      BY DEF IInv, WriterInv, LifeInv
    <2>3. done /\ Graceful => terminal
      BY DEF IInv, FinalInv, Over, Graceful, done
    <2>4. Range(admitted) \subseteq Senders
      BY <2>1, InRange
    <2>5. \A c \in Closers : cres[c] = "nil" /\ ckind[c] = "Shutdown" => done /\ Graceful
      BY DEF IInv, CallsInv
    <2>. QED
      BY <2>1, <2>2, <2>3, <2>4, <2>5 DEF GracefulLosesNothing, Delivered, NoneFailed
  <1>. QED
    BY <1>1, Invariant, PTL

\* Done leaves no loop, message, slot, Send or read failure behind.
THEOREM DoneIsClean == Spec => []DoneReleasesAll
  <1>1. IInv => DoneReleasesAll
    <2>. SUFFICES ASSUME IInv PROVE DoneReleasesAll
      OBVIOUS
    <2>1. SendTypeOK /\ LifeTypeOK
      BY DEF IInv, WriterInv, SendInv, LifeInv
    <2>2. /\ peerClosed \in BOOLEAN /\ drained \in BOOLEAN /\ sigOwed \in BOOLEAN
          /\ closeBy \in Threads \cup {"nobody"} /\ pend \in {"off", "on", "nil", "cause"}
      BY DEF IInv, LoopType, LifeInv, PendInv
    <2>3. TypeOK
      BY <2>1, <2>2
      DEF IInv, CallType, LoopType, TypeOK, WriterLabels, ReaderLabels, PingLabels, ClockLabels,
          WatchLabels, FinalLabels, ReadErrors, Reports
    <2>4. done => LoopsReturned /\ closedWith = err
      BY DEF IInv, FinalInv, done
    <2>5. wpc = "exited" => NothingLeftBehind
      BY AllReleased DEF IInv, WriterInv
    <2>6. wpc = "exited" => pend = "off"
      BY DEF IInv, PendInv
    <2>. QED
      BY <2>3, <2>4, <2>5, <2>6 DEF DoneReleasesAll, LoopsReturned
  <1>. QED
    BY <1>1, Invariant, PTL

\* A read failure that was left to the write in flight reaches the session or
\* finds it ended.
THEOREM DeferredIsKept == Spec => []DeferredReadIsKept
  <1>1. IInv => DeferredReadIsKept
    BY DEF IInv, PendInv
  <1>. QED
    BY <1>1, Invariant, PTL

\* The first terminal cause wins, whoever else tries to end the session.
THEOREM FirstCause == Spec => FirstCauseWins
  <1>1. IInv /\ [Next]_vars =>
          ((goal = Abort \/ terminal) => err' = err /\ why' = why /\ goal' = goal)
    BY NextIInv DEF Preserved, EndStep, Over
  <1>. QED
    BY <1>1, Invariant, PTL DEF Spec, FirstCauseWins
==============================================================================
