-------------------------- MODULE StreamSessionProofs --------------------------
(***************************************************************************)
(* For any number of Send, TrySend, CloseWrite, Shutdown and Close calls   *)
(* and any queue: the first cause wins, nil is only said of what was       *)
(* delivered, a graceful end loses nothing, and Done leaves nothing behind.*)
(***************************************************************************)
EXTENDS StreamSession, SendPathProofs

\* An abort or a graceful end has won.
Over == goal = Abort \/ terminal

\* How a session ends: the first cause runs closeOnce and leaves its traces.
LifeInv ==
    /\ LifeTypeOK
    /\ closeBy \in Threads \cup {"nobody"}
    /\ gateClosed \in BOOLEAN /\ closing \in BOOLEAN
    /\ Graceful <=> why = "none"
    /\ Graceful => err = "nil"
    /\ aborted => goal = Abort
    /\ termDone => terminal
    /\ closeAt # "none" \/ closing => Over

\* Where the writer is, and what that says of the frames.
WriterInv ==
    /\ back \in {"run", "drain"}
    /\ wpc = "writing" => SendInv(1) /\ InOrder(1)
    /\ wpc # "writing" => SendInv(0)
    /\ wpc \in {"run", "drain", "fin"} => InOrder(0)
    /\ wpc \in {"run", "drain", "writing", "failed", "fin"} => NoneFailed
    /\ frame \in Senders <=> wpc \in {"writing", "failed"}
    /\ wpc \in {"drain", "fin", "exited"} \/ (wpc = "writing" /\ back = "drain") => gateDone
    /\ wpc \in {"fin", "exited"} => queue = <<>>
    /\ wpc \in {"mark", "check"} => fin
    /\ fin => wpc \in {"mark", "check", "finish", "defer", "exited"} /\ Delivered

\* A half is closed before the end only by its own loop.
HalvesInv ==
    /\ writeDone => fin \/ Over
    /\ readDone => peerFin \/ Over
    /\ terminal /\ Graceful => fin /\ peerFin

FinalInv ==
    /\ fpc # "waiting" => wpc = "exited" /\ rpc = "exited" /\ kpc = "exited"
    /\ fpc = "terminal" => Over
    /\ fpc \in {"onClose", "closed", "done"} => terminal
    /\ fpc \in {"closed", "done"} => closedWith = err

\* What a call was told.
CallsInv ==
    \A c \in Closers :
        /\ cpc[c] = "idle" => cres[c] = "none"
        /\ cres[c] = "nil" /\ ckind[c] # "Close" => fin
        /\ cres[c] = "nil" /\ ckind[c] = "Shutdown" => done /\ Graceful

CallType ==
    /\ cpc \in [Closers -> {"idle", "signal", "waitWrite", "waitDone", "leaving", "returned"}]
    /\ ckind \in [Closers -> {"none", "CloseWrite", "Shutdown", "Close"}]
    /\ cres \in [Closers -> {"none", "nil", "ctx", "closed", "err"}]

LoopType ==
    /\ fin \in BOOLEAN /\ peerFin \in BOOLEAN
    /\ wpc \in {"run", "drain", "writing", "failed", "fin", "mark", "check", "finish",
               "defer", "exited"}
    /\ rpc \in {"onOpen", "reading", "check", "exiting", "exited"}
    /\ kpc \in {"running", "exiting", "exited"}
    /\ fpc \in {"waiting", "terminal", "onClose", "closed", "done"}
    /\ closedWith \in {"none", "nil", "cause"}

IInv == CallType /\ LoopType /\ LifeInv /\ WriterInv /\ HalvesInv /\ FinalInv /\ CallsInv

----------------------------------------------------------------------------
(* What a step does to the end of the session.                             *)

\* Nothing is undone; the first cause stays; a graceful end needs both halves,
\* and a half is closed by its loop or by the end.
EndStep ==
    /\ LifeInv'
    /\ gateClosed => gateClosed'
    /\ Over => UNCHANGED <<goal, err, why>>
    /\ terminal => terminal'
    /\ terminal' /\ Graceful' => terminal \/ (readDone /\ writeDone /\ ~ Over)
    /\ writeDone' => writeDone \/ fin' \/ Over'
    /\ readDone' => readDone \/ peerFin' \/ Over'

LEMMA StillEnds ==
  ASSUME LifeInv, UNCHANGED endVars
  PROVE  EndStep
  <1>1. /\ UNCHANGED <<goal, why, terminal, err, requested, aborted, readDone, writeDone, termDone>>
        /\ UNCHANGED <<closeBy, closeAt, gateClosed, closing, socket>>
    BY DEF endVars, lifeVars, onceVars
  <1>2. LifeInv'
    BY <1>1 DEF LifeInv, LifeTypeOK, Graceful, Over
  <1>. QED
    BY <1>1, <1>2 DEF EndStep, Graceful

LEMMA AbortWithEnds ==
  ASSUME LifeInv, NEW t \in Threads, NEW reason \in {"explicit", "caller", "failure"},
         NEW cause \in {"nil", "cause"}, AbortWith(t, reason, cause)
  PROVE  EndStep /\ Over' /\ UNCHANGED <<gateClosed, closing>>
  <1>1. CASE MayAbort
    <2>1. /\ goal' = Abort /\ why' = reason /\ err' = cause /\ closeBy' = t /\ closeAt' = "signals"
          /\ UNCHANGED <<terminal, requested, aborted, readDone, writeDone, termDone>>
          /\ UNCHANGED <<gateClosed, closing, socket>>
      BY <1>1 DEF AbortWith
    <2>2. LifeTypeOK'
      BY <2>1 DEF LifeInv, LifeTypeOK, Running, Abort
    <2>3. LifeInv' /\ Over'
      BY <2>1, <2>2 DEF LifeInv, Graceful, Over
    <2>. QED
      BY <1>1, <2>1, <2>3 DEF EndStep, Graceful, Over, MayAbort
  <1>2. CASE ~ MayAbort
    <2>1. UNCHANGED endVars
      BY <1>2 DEF AbortWith, endVars
    <2>2. Over' /\ UNCHANGED <<gateClosed, closing>>
      BY <1>2, <2>1 DEF endVars, lifeVars, MayAbort, Over
    <2>. QED
      BY <2>1, <2>2, StillEnds
  <1>. QED
    BY <1>1, <1>2

LEMMA MaybeFinishEnds ==
  ASSUME LifeInv, NEW t \in Threads, MaybeFinishGraceful(t)
  PROVE  EndStep
  <1>1. CASE HalvesClosed /\ MayAbort
    <2>1. /\ terminal' = TRUE /\ closeBy' = t /\ closeAt' = "signals"
          /\ UNCHANGED <<goal, why, err, requested, aborted, readDone, writeDone, termDone>>
          /\ UNCHANGED <<gateClosed, closing, socket>>
      BY <1>1 DEF MaybeFinishGraceful, TryMarkTerminal
    <2>2. LifeTypeOK'
      BY <2>1 DEF LifeInv, LifeTypeOK
    <2>3. LifeInv'
      BY <2>1, <2>2 DEF LifeInv, Graceful, Over
    <2>. QED
      BY <1>1, <2>1, <2>3 DEF EndStep, Graceful, Over, MayAbort, HalvesClosed
  <1>2. CASE ~ (HalvesClosed /\ MayAbort)
    <2>1. UNCHANGED endVars
      BY <1>2 DEF MaybeFinishGraceful, TryMarkTerminal, endVars
    <2>. QED
      BY <2>1, StillEnds
  <1>. QED
    BY <1>1, <1>2

LEMMA CloserWorkEnds ==
  ASSUME LifeInv, CloserWork
  PROVE  EndStep
  <1>1. UNCHANGED <<goal, why, terminal, err, closeBy>> /\ closeAt # "none" /\ Over
    BY DEF CloserWork, CloseSignals, CloseGate, CloseClosing, CloseSocket, lifeVars, LifeInv
  <1>2. /\ aborted' => goal = Abort
        /\ termDone' => terminal
        /\ gateClosed' \in BOOLEAN /\ closing' \in BOOLEAN /\ (gateClosed => gateClosed')
    <2>1. CASE CloseSignals
      BY <1>1, <2>1 DEF CloseSignals, LifeInv, Over
    <2>2. CASE CloseGate \/ CloseClosing \/ CloseSocket
      <3>1. UNCHANGED <<aborted, termDone>>
        BY <2>2 DEF CloseGate, CloseClosing, CloseSocket, lifeVars
      <3>2. /\ gateClosed' = gateClosed \/ gateClosed' = TRUE
            /\ closing' = closing \/ closing' = TRUE
        BY <2>2 DEF CloseGate, CloseClosing, CloseSocket
      <3>3. /\ gateClosed \in BOOLEAN /\ closing \in BOOLEAN
            /\ aborted => goal = Abort
            /\ termDone => terminal
        BY DEF LifeInv
      <3>4. gateClosed' \in BOOLEAN /\ closing' \in BOOLEAN /\ (gateClosed => gateClosed')
        BY <3>2, <3>3
      <3>. QED
        BY <3>1, <3>3, <3>4
    <2>. QED
      BY <2>1, <2>2 DEF CloserWork
  <1>3. LifeTypeOK'
    <2>1. CASE CloseSignals
      BY <2>1 DEF CloseSignals, LifeInv, LifeTypeOK
    <2>2. CASE CloseGate \/ CloseClosing \/ CloseSocket
      BY <2>2 DEF CloseGate, CloseClosing, CloseSocket, LifeInv, LifeTypeOK, lifeVars
    <2>. QED
      BY <2>1, <2>2 DEF CloserWork
  <1>4. LifeInv' /\ Over'
    BY <1>1, <1>2, <1>3 DEF LifeInv, Graceful, Over
  <1>. QED
    BY <1>1, <1>2, <1>4 DEF EndStep, Graceful

LEMMA RequestEnds ==
  ASSUME LifeInv, (\E wanted \in {Write, Full} : RaiseGoal(wanted)) \/ SignalRequest
  PROVE  EndStep
  <1>1. /\ UNCHANGED <<why, terminal, err, aborted, readDone, writeDone, termDone>>
        /\ UNCHANGED <<closeBy, closeAt, closing, socket>>
    BY DEF RaiseGoal, SignalRequest, onceVars
  <1>2. /\ goal' \in 0..3 /\ (goal = 3 <=> goal' = 3) /\ (Over => goal' = goal)
        /\ requested' \in BOOLEAN /\ gateClosed' \in BOOLEAN /\ (gateClosed => gateClosed')
    <2>1. goal \in 0..3 /\ requested \in BOOLEAN /\ gateClosed \in BOOLEAN
      BY DEF LifeInv, LifeTypeOK, Running, Abort
    <2>2. ASSUME NEW wanted \in {1, 2}, RaiseGoal(wanted)
          PROVE  /\ goal' \in 0..3 /\ (goal = 3 <=> goal' = 3) /\ (Over => goal' = goal)
                 /\ UNCHANGED <<requested, gateClosed>>
      BY <2>1, <2>2 DEF RaiseGoal, Raises, Over, Abort
    <2>3. ASSUME SignalRequest PROVE goal' = goal /\ requested' = TRUE /\ gateClosed' = TRUE
      BY <2>3 DEF SignalRequest
    <2>. QED
      BY <2>1, <2>2, <2>3 DEF Write, Full
  <1>3. LifeTypeOK'
    BY <1>1, <1>2 DEF LifeInv, LifeTypeOK, Running, Abort
  <1>4. LifeInv'
    BY <1>1, <1>2, <1>3 DEF LifeInv, Graceful, Over, Abort
  <1>. QED
    BY <1>1, <1>2, <1>4 DEF EndStep, Graceful, Abort

\* markWriteClosed and markReadClosed.
LEMMA HalfEnds ==
  ASSUME LifeInv, writeDone' \in BOOLEAN, readDone' \in BOOLEAN,
         UNCHANGED <<goal, why, terminal, err, requested, aborted, termDone>>,
         UNCHANGED <<closeBy, closeAt, gateClosed, closing, socket>>,
         writeDone' => writeDone \/ fin', readDone' => readDone \/ peerFin'
  PROVE  EndStep
  <1>1. LifeTypeOK'
    BY DEF LifeInv, LifeTypeOK
  <1>2. LifeInv'
    BY <1>1 DEF LifeInv, Graceful, Over
  <1>. QED
    BY <1>2 DEF EndStep, Graceful

LEMMA MarkTerminalEnds ==
  ASSUME LifeInv, FinalInv, MarkTerminal
  PROVE  EndStep /\ terminal' /\ err' = err
  <1>1. /\ terminal' = TRUE /\ readDone' = TRUE /\ writeDone' = TRUE /\ termDone' = TRUE
        /\ UNCHANGED <<goal, why, err, requested, aborted>>
        /\ UNCHANGED <<closeBy, closeAt, gateClosed, closing, socket>>
    BY DEF MarkTerminal, onceVars
  <1>2. Over
    BY DEF MarkTerminal, FinalInv
  <1>3. LifeTypeOK'
    BY <1>1 DEF LifeInv, LifeTypeOK
  <1>4. LifeInv' /\ Over'
    BY <1>1, <1>3 DEF LifeInv, Graceful, Over
  <1>. QED
    BY <1>1, <1>2, <1>4 DEF EndStep, Graceful, Over

----------------------------------------------------------------------------
(* What a step leaves of the other parts of the invariant.                 *)

LEMMA KeepHalves ==
  ASSUME HalvesInv, EndStep, fin => fin', peerFin => peerFin'
  PROVE  HalvesInv'
  <1>1. Over => Over'
    BY DEF EndStep, Over
  <1>2. Graceful' /\ terminal => Graceful
    BY DEF EndStep, Over, Graceful
  <1>. QED
    BY <1>1, <1>2 DEF EndStep, HalvesInv

LEMMA KeepFinal ==
  ASSUME FinalInv, EndStep, UNCHANGED <<fpc, closedWith>>,
         wpc = "exited" => wpc' = "exited", rpc = "exited" => rpc' = "exited",
         kpc = "exited" => kpc' = "exited"
  PROVE  FinalInv'
  <1>1. Over => Over'
    BY DEF EndStep, Over
  <1>2. terminal => terminal' /\ err' = err
    BY DEF EndStep, Over
  <1>. QED
    BY <1>1, <1>2 DEF FinalInv

LEMMA KeepCalls ==
  ASSUME CallsInv, FinalInv, EndStep, UNCHANGED callVars, fin => fin', done => done'
  PROVE  CallsInv'
  <1>1. UNCHANGED <<cpc, ckind, cres>>
    BY DEF callVars
  <1>2. done /\ Graceful => Graceful'
    BY DEF FinalInv, EndStep, Over, Graceful, done
  <1>. QED
    BY <1>1, <1>2 DEF CallsInv

LEMMA KeepWriter ==
  ASSUME WriterInv, EndStep, UNCHANGED <<sendVars, wpc, back, fin>>
  PROVE  WriterInv'
  <1>1. gateClosed' \in BOOLEAN /\ closing' \in BOOLEAN /\ (gateClosed => gateClosed')
    BY DEF EndStep, LifeInv
  <1>2. /\ SendInv(0) => SendInv(0)'
        /\ SendInv(1) => SendInv(1)'
        /\ InOrder(0) => InOrder(0)'
        /\ InOrder(1) => InOrder(1)'
        /\ NoneFailed => NoneFailed'
        /\ gateDone => gateDone'
        /\ Delivered => Delivered'
    BY <1>1, GateStep
  <1>3. UNCHANGED <<queue, frame>>
    BY DEF sendVars
  <1>. QED
    BY <1>2, <1>3 DEF WriterInv

Preserved == IInv' /\ EndStep

\* The parts put together: a step outside the writer that moves no frame.
LEMMA KeepAll ==
  ASSUME IInv, EndStep, UNCHANGED <<sendVars, fin, wpc, back>>, peerFin => peerFin',
         CallType', LoopType', CallsInv', FinalInv'
  PROVE  Preserved
  <1>1. WriterInv' /\ HalvesInv'
    BY KeepWriter, KeepHalves DEF IInv
  <1>. QED
    BY <1>1 DEF IInv, EndStep, Preserved

LEMMA SameCallType ==
  ASSUME CallType, UNCHANGED callVars
  PROVE  CallType'
  BY DEF CallType, callVars

\* A step of the writer.
LEMMA KeepRest ==
  ASSUME IInv, EndStep, WriterInv', LoopType', UNCHANGED <<callVars, peerFin, rpc, kpc, fpc, closedWith>>,
         wpc # "exited", fin => fin'
  PROVE  Preserved
  <1>1. HalvesInv' /\ FinalInv'
    BY KeepHalves, KeepFinal DEF IInv
  <1>2. CallsInv' /\ CallType'
    BY KeepCalls, SameCallType DEF IInv, done
  <1>. QED
    BY <1>1, <1>2 DEF IInv, EndStep, Preserved

----------------------------------------------------------------------------
(* One lemma per kind of step.                                             *)

LEMMA InitIInv == Init => IInv
  <1>. SUFFICES ASSUME Init PROVE IInv
    OBVIOUS
  <1>1. CallType /\ LoopType /\ CallsInv /\ HalvesInv /\ FinalInv
    BY StreamAssumption DEF Init, LifeInit, CallType, LoopType, CallsInv, HalvesInv, FinalInv
  <1>2. LifeInv
    <2>1. /\ goal = 0 /\ why = "none" /\ terminal = FALSE /\ err = "nil" /\ requested = FALSE
          /\ aborted = FALSE /\ readDone = FALSE /\ writeDone = FALSE /\ termDone = FALSE
          /\ closeBy = "nobody" /\ closeAt = "none" /\ socket = "open"
          /\ gateClosed = FALSE /\ closing = FALSE
      BY DEF Init, LifeInit, SendInit, Running
    <2>2. LifeTypeOK
      <3>1. /\ terminal \in BOOLEAN /\ requested \in BOOLEAN /\ aborted \in BOOLEAN
            /\ readDone \in BOOLEAN /\ writeDone \in BOOLEAN /\ termDone \in BOOLEAN
        BY <2>1
      <3>. QED
        BY <2>1, <3>1 DEF LifeTypeOK, Running, Abort
    <2>3. gateClosed \in BOOLEAN /\ closing \in BOOLEAN
      BY <2>1
    <2>4. ~ aborted /\ ~ termDone /\ ~ closing
      BY <2>1
    <2>. QED
      BY <2>1, <2>2, <2>3, <2>4 DEF LifeInv, Graceful, Abort
  <1>3. SendInv(0) /\ InOrder(0) /\ NoneFailed /\ frame \notin Senders
    BY SendInitInv DEF Init
  <1>4. WriterInv
    BY <1>3 DEF Init, WriterInv
  <1>. QED
    BY <1>1, <1>2, <1>4 DEF IInv

LEMMA SendNextIInv ==
  ASSUME IInv, SendNext
  PROVE  Preserved
  <1>1. UNCHANGED endVars /\ UNCHANGED <<fin, peerFin, wpc, back, rpc, kpc, fpc, closedWith, callVars>>
    BY DEF SendNext, finVars, loopVars
  <1>2. UNCHANGED <<gateClosed, closing>>
    BY <1>1 DEF endVars
  <1>3. PICK s \in Senders : Enter(s) \/ SenderStep(s) \/ Reject(s) \/ SendExpires(s)
    BY DEF SendNext
  <1>4. ASSUME NEW b \in {0, 1}, SendInv(b)
        PROVE  SendInv(b)' /\ Calm(b)
    BY <1>2, <1>3, <1>4, SenderInv
  <1>5. EndStep
    BY <1>1, StillEnds DEF IInv
  <1>6. PICK b \in {0, 1} : SendInv(b)
    BY DEF IInv, WriterInv
  <1>7. UNCHANGED <<ack, frame, written>> /\ (gateDone => gateDone' /\ UNCHANGED <<queue, admitted>>)
    BY <1>4, <1>6 DEF Calm
  <1>8. NoneFailed => NoneFailed'
    BY <1>7 DEF NoneFailed
  <1>9. Delivered => Delivered'
    BY <1>7, <1>8 DEF Delivered
  <1>10. \A d \in {0, 1} : SendInv(d) => SendInv(d)' /\ (InOrder(d) => InOrder(d)')
    BY <1>4 DEF Calm
  <1>11. WriterInv'
    BY <1>1, <1>7, <1>8, <1>9, <1>10 DEF IInv, WriterInv
  <1>12. HalvesInv' /\ FinalInv' /\ CallsInv' /\ CallType'
    BY <1>1, <1>5, KeepHalves, KeepFinal, KeepCalls, SameCallType DEF IInv, done
  <1>13. LoopType'
    BY <1>1 DEF IInv, LoopType
  <1>. QED
    BY <1>5, <1>11, <1>12, <1>13 DEF IInv, EndStep, Preserved

LEMMA CloserNextIInv ==
  ASSUME IInv, CloserNext
  PROVE  Preserved
  <1>1. UNCHANGED <<sendVars, fin, peerFin, wpc, back, rpc, kpc, fpc, closedWith, callVars>>
    BY DEF CloserNext, finVars, loopVars
  <1>2. EndStep
    BY CloserWorkEnds DEF CloserNext, IInv
  <1>3. CallType' /\ LoopType'
    BY <1>1, SameCallType DEF IInv, LoopType
  <1>4. CallsInv' /\ FinalInv'
    BY <1>1, <1>2, KeepCalls, KeepFinal DEF IInv, done
  <1>. QED
    BY <1>1, <1>2, <1>3, <1>4, KeepAll

\* A call takes a step: its rows change, the loops and the frames do not.
LEMMA CallIInv ==
  ASSUME IInv, EndStep, UNCHANGED <<sendVars, finVars, loopVars>>, NEW c \in Closers, CallType',
         \A d \in Closers \ {c} : cpc'[d] = cpc[d] /\ ckind'[d] = ckind[d] /\ cres'[d] = cres[d],
         cpc'[c] # "idle",
         \/ cres'[c] = cres[c] /\ (cres[c] = "none" \/ ckind'[c] = ckind[c])
         \/ cres'[c] = "nil" => /\ ckind'[c] # "Close" => fin
                                /\ ckind'[c] = "Shutdown" => done /\ Graceful /\ Graceful'
  PROVE  Preserved
  <1>1. UNCHANGED <<fin, peerFin, wpc, back, rpc, kpc, fpc, closedWith>>
    BY DEF finVars, loopVars
  <1>2. LoopType' /\ FinalInv'
    BY <1>1, KeepFinal DEF IInv, LoopType
  <1>3. done /\ Graceful => Graceful'
    BY DEF IInv, FinalInv, EndStep, Over, Graceful, done
  <1>4. done' <=> done
    BY <1>1 DEF done
  <1>5. ASSUME NEW d \in Closers
        PROVE  /\ cpc'[d] = "idle" => cres'[d] = "none"
               /\ cres'[d] = "nil" /\ ckind'[d] # "Close" => fin'
               /\ cres'[d] = "nil" /\ ckind'[d] = "Shutdown" => done' /\ Graceful'
    <2>1. /\ cpc[d] = "idle" => cres[d] = "none"
          /\ cres[d] = "nil" /\ ckind[d] # "Close" => fin
          /\ cres[d] = "nil" /\ ckind[d] = "Shutdown" => done /\ Graceful
      BY DEF IInv, CallsInv
    <2>2. CASE d # c
      BY <1>1, <1>3, <1>4, <2>1, <2>2
    <2>3. CASE d = c
      BY <1>1, <1>3, <1>4, <2>1, <2>3
    <2>. QED
      BY <2>2, <2>3
  <1>6. CallsInv'
    BY <1>5 DEF CallsInv
  <1>. QED
    BY <1>1, <1>2, <1>6, KeepAll

\* What the rows of one call become.
LEMMA RowStep ==
  ASSUME CallType, NEW c \in Closers
  PROVE  /\ \A s : cpc' = [cpc EXCEPT ![c] = s] =>
              cpc'[c] = s /\ \A d \in Closers \ {c} : cpc'[d] = cpc[d]
         /\ \A s : ckind' = [ckind EXCEPT ![c] = s] =>
              ckind'[c] = s /\ \A d \in Closers \ {c} : ckind'[d] = ckind[d]
         /\ \A s : cres' = [cres EXCEPT ![c] = s] =>
              cres'[c] = s /\ \A d \in Closers \ {c} : cres'[d] = cres[d]
  <1>1. \A s : cpc' = [cpc EXCEPT ![c] = s] =>
          cpc'[c] = s /\ \A d \in Closers \ {c} : cpc'[d] = cpc[d]
    BY DEF CallType
  <1>2. \A s : ckind' = [ckind EXCEPT ![c] = s] =>
          ckind'[c] = s /\ \A d \in Closers \ {c} : ckind'[d] = ckind[d]
    BY DEF CallType
  <1>3. \A s : cres' = [cres EXCEPT ![c] = s] =>
          cres'[c] = s /\ \A d \in Closers \ {c} : cres'[d] = cres[d]
    BY DEF CallType
  <1>. QED
    BY <1>1, <1>2, <1>3

\* Whoever sees a nil result sees a session that nobody aborted, and one whose
\* write side is half-closed if writeDone is closed.
LEMMA NilResult ==
  ASSUME IInv
  PROVE  /\ LifecycleResult \in {"err", "closed", "nil"}
         /\ LifecycleResult = "nil" => Graceful
         /\ Graceful => ~ aborted
         /\ Graceful /\ writeDone => fin
         /\ Graceful /\ done => fin
  <1>1. LifecycleResult \in {"err", "closed", "nil"} /\ (LifecycleResult = "nil" => why = "none")
    BY DEF LifecycleResult
  <1>2. (why = "none" => Graceful) /\ (Graceful => ~ aborted)
    BY DEF IInv, LifeInv, Graceful
  <1>3. Graceful /\ writeDone => fin
    BY DEF IInv, HalvesInv, Over, Graceful
  <1>4. Graceful /\ done => fin
    BY DEF IInv, HalvesInv, FinalInv, done
  <1>. QED
    BY <1>1, <1>2, <1>3, <1>4

LEMMA CallerIInv ==
  ASSUME IInv, NEW c \in Closers,
         SignalWriteClose(c) \/ WaitWrite(c) \/ WaitDone(c) \/ CallEnds(c)
  PROVE  Preserved
  <1>0. CallType /\ UNCHANGED <<sendVars, finVars, loopVars, ckind>>
    BY DEF IInv, SignalWriteClose, WaitWrite, WaitDone, CallEnds
  <1>1. EndStep
    BY RequestEnds, StillEnds DEF IInv, SignalWriteClose, WaitWrite, WaitDone, CallEnds
  <1>2. ASSUME NEW label \in {"waitWrite", "waitDone", "returned"}, CallTo(c, label), cres' = cres
        PROVE  Preserved
    <2>1. CallType' /\ cpc'[c] = label /\ \A d \in Closers \ {c} : cpc'[d] = cpc[d]
      BY <1>0, <1>2, RowStep DEF CallType, CallTo
    <2>. QED
      BY <1>0, <1>1, <1>2, <2>1, CallIInv
  <1>3. ASSUME CallReturns(c, LifecycleResult),
               LifecycleResult = "nil" => /\ ckind[c] # "Close" => fin
                                          /\ ckind[c] = "Shutdown" => done /\ Graceful,
               UNCHANGED endVars
        PROVE  Preserved
    <2>1. cpc' = [cpc EXCEPT ![c] = "leaving"] /\ cres' = [cres EXCEPT ![c] = LifecycleResult]
      BY <1>3 DEF CallReturns, CallTo
    <2>2. /\ cpc'[c] = "leaving" /\ \A d \in Closers \ {c} : cpc'[d] = cpc[d]
          /\ cres'[c] = LifecycleResult /\ \A d \in Closers \ {c} : cres'[d] = cres[d]
      BY <1>0, <2>1, RowStep
    <2>3. CallType'
      BY <1>0, <2>1, NilResult DEF CallType
    <2>4. Graceful' <=> Graceful
      BY <1>3 DEF endVars, lifeVars, Graceful
    <2>. QED
      BY <1>0, <1>1, <1>3, <2>2, <2>3, <2>4, CallIInv
  <1>4. ASSUME WaitWrite(c) PROVE Preserved
    <2>1. CASE CallTo(c, "waitDone") /\ cres' = cres
      BY <1>2, <2>1
    <2>2. CASE (aborted \/ (writeDone /\ ckind[c] = "CloseWrite")) /\ CallReturns(c, LifecycleResult)
      <3>1. UNCHANGED endVars
        BY <1>4 DEF WaitWrite
      <3>. QED
        BY <1>3, <2>2, <3>1, NilResult
    <2>. QED
      BY <1>4, <2>1, <2>2 DEF WaitWrite
  <1>5. ASSUME WaitDone(c) PROVE Preserved
    <2>1. (done \/ aborted) /\ CallReturns(c, LifecycleResult) /\ UNCHANGED endVars
      BY <1>5 DEF WaitDone
    <2>. QED
      BY <1>3, <2>1, NilResult
  <1>6. ASSUME SignalWriteClose(c) \/ CallEnds(c) PROVE Preserved
    BY <1>2, <1>6 DEF SignalWriteClose, CallEnds
  <1>. QED
    BY <1>4, <1>5, <1>6

LEMMA RequestIInv ==
  ASSUME IInv, NEW c \in Closers, NEW kind \in {"CloseWrite", "Shutdown"}, Request(c, kind)
  PROVE  Preserved
  <1>1. /\ cpc[c] = "idle" /\ ckind' = [ckind EXCEPT ![c] = kind]
        /\ UNCHANGED <<sendVars, finVars, cres, loopVars>>
        /\ \E wanted \in {Write, Full} : RaiseGoal(wanted)
        /\ \E label \in {"signal", "waitWrite"} : cpc' = [cpc EXCEPT ![c] = label]
    BY DEF Request, CallTo
  <1>2. PICK label \in {"signal", "waitWrite"} : cpc' = [cpc EXCEPT ![c] = label]
    BY <1>1
  <1>3. EndStep
    BY <1>1, RequestEnds DEF IInv
  <1>4. CallType' /\ cres[c] = "none"
    BY <1>1, <1>2 DEF IInv, CallType, CallsInv
  <1>5. /\ cpc'[c] = label /\ \A d \in Closers \ {c} : cpc'[d] = cpc[d]
        /\ ckind'[c] = kind /\ \A d \in Closers \ {c} : ckind'[d] = ckind[d]
    BY <1>1, <1>2, RowStep DEF IInv
  <1>. QED
    BY <1>1, <1>3, <1>4, <1>5, CallIInv

LEMMA EndsCallIInv ==
  ASSUME IInv, NEW c \in Closers, CallExpires(c) \/ Close(c)
  PROVE  Preserved
  <1>0. c \in Threads /\ UNCHANGED <<sendVars, finVars, loopVars>> /\ CallType
    BY DEF Threads, CallExpires, Close, IInv
  <1>1. EndStep
    <2>1. \/ UNCHANGED endVars
          \/ \E reason \in {"explicit", "caller", "failure"} : AbortWith(c, reason, "nil")
      BY DEF CallExpires, Close
    <2>. QED
      BY <1>0, <2>1, AbortWithEnds, StillEnds DEF IInv
  <1>2. ASSUME CallExpires(c) PROVE Preserved
    <2>1. /\ cpc' = [cpc EXCEPT ![c] = "leaving"] /\ cres' = [cres EXCEPT ![c] = "ctx"]
          /\ ckind' = ckind
      BY <1>2 DEF CallExpires, CallReturns, CallTo
    <2>2. /\ cpc'[c] = "leaving" /\ \A d \in Closers \ {c} : cpc'[d] = cpc[d]
          /\ cres'[c] = "ctx" /\ \A d \in Closers \ {c} : cres'[d] = cres[d]
      BY <1>0, <2>1, RowStep
    <2>3. CallType'
      BY <1>0, <2>1 DEF CallType
    <2>. QED
      BY <1>0, <1>1, <2>1, <2>2, <2>3, CallIInv
  <1>3. ASSUME Close(c) PROVE Preserved
    <2>1. /\ cpc' = [cpc EXCEPT ![c] = "leaving"] /\ cres' = [cres EXCEPT ![c] = "nil"]
          /\ ckind' = [ckind EXCEPT ![c] = "Close"]
      BY <1>3 DEF Close, CallReturns, CallTo
    <2>2. cpc'[c] = "leaving" /\ \A d \in Closers \ {c} : cpc'[d] = cpc[d]
      BY <1>0, <2>1, RowStep
    <2>3. cres'[c] = "nil" /\ \A d \in Closers \ {c} : cres'[d] = cres[d]
      BY <1>0, <2>1, RowStep
    <2>4. ckind'[c] = "Close" /\ \A d \in Closers \ {c} : ckind'[d] = ckind[d]
      BY <1>0, <2>1, RowStep
    <2>5. CallType'
      BY <1>0, <2>1 DEF CallType
    <2>. QED
      BY <1>0, <1>1, <2>2, <2>3, <2>4, <2>5, CallIInv
  <1>. QED
    BY <1>2, <1>3

----------------------------------------------------------------------------
(* The writer.                                                             *)

LEMMA WriterSelectIInv ==
  ASSUME IInv, WriterSelect
  PROVE  Preserved
  <1>0. /\ UNCHANGED endVars /\ UNCHANGED <<fin, peerFin, callVars, rpc, kpc, fpc, closedWith>>
        /\ wpc \in {"run", "drain"}
    BY DEF WriterSelect, WriterTo, finVars
  <1>1. UNCHANGED <<gateClosed, closing>> /\ EndStep
    BY <1>0, StillEnds DEF endVars, IInv
  <1>2. /\ SendInv(0) /\ InOrder(0) /\ NoneFailed /\ frame \notin Senders /\ ~ fin
        /\ back \in {"run", "drain"} /\ (wpc = "drain" => gateDone)
    BY <1>0 DEF IInv, WriterInv
  <1>3. ASSUME TakeFrame, back' = wpc, wpc' = "writing" PROVE WriterInv'
    <2>1. SendInv(1)' /\ InOrder(1)' /\ frame' \in Senders /\ UNCHANGED <<ack, active>>
      BY <1>1, <1>2, <1>3, TakeFrameInv DEF TakeFrame
    <2>2. NoneFailed'
      BY <1>2, <2>1 DEF NoneFailed
    <2>3. gateDone => gateDone'
      BY <1>1, <2>1 DEF gateDone
    <2>. QED
      BY <1>0, <1>2, <1>3, <2>1, <2>2, <2>3 DEF WriterInv
  <1>4. ASSUME UNCHANGED <<sendVars, back>>,
               \/ wpc' = "defer"
               \/ wpc' = "drain" /\ gateDone
               \/ wpc' = "fin" /\ gateDone /\ queue = <<>>
        PROVE  WriterInv'
    <2>1. gateClosed \in BOOLEAN /\ closing \in BOOLEAN
      BY DEF IInv, LifeInv
    <2>2. SendInv(0)' /\ InOrder(0)' /\ NoneFailed' /\ (gateDone => gateDone')
      BY <1>1, <1>2, <1>4, <2>1, GateStep
    <2>3. UNCHANGED <<queue, frame>>
      BY <1>4 DEF sendVars
    <2>. QED
      BY <1>0, <1>2, <1>4, <2>2, <2>3 DEF WriterInv
  <1>5. WriterInv' /\ wpc' \in {"defer", "writing", "drain", "fin"}
    BY <1>2, <1>3, <1>4 DEF WriterSelect, WriterTo
  <1>6. LoopType'
    BY <1>0, <1>5 DEF IInv, LoopType
  <1>. QED
    BY <1>0, <1>1, <1>5, <1>6, KeepRest

LEMMA WriteFrameIInv ==
  ASSUME IInv, WriteFrame
  PROVE  Preserved
  <1>0. /\ UNCHANGED endVars
        /\ UNCHANGED <<fin, peerFin, callVars, rpc, kpc, fpc, closedWith, back>>
        /\ wpc = "writing" /\ wpc' = back /\ FrameWritten
    BY DEF WriteFrame, WriterTo, finVars
  <1>1. UNCHANGED <<gateClosed, closing>> /\ EndStep
    BY <1>0, StillEnds DEF endVars, IInv
  <1>2. /\ SendInv(1) /\ InOrder(1) /\ NoneFailed /\ frame \in Senders /\ ~ fin
        /\ back \in {"run", "drain"} /\ (back = "drain" => gateDone)
    BY <1>0 DEF IInv, WriterInv
  <1>3. SendInv(0)' /\ InOrder(0)' /\ frame' = NoFrame /\ NoneFailed'
    BY <1>0, <1>1, <1>2, FrameWrittenInv
  <1>4. gateDone => gateDone'
    BY <1>0, <1>1 DEF gateDone, FrameWritten
  <1>5. WriterInv'
    BY <1>0, <1>2, <1>3, <1>4, SendPathAssumption DEF WriterInv
  <1>6. LoopType'
    BY <1>0, <1>2 DEF IInv, LoopType
  <1>. QED
    BY <1>0, <1>1, <1>5, <1>6, KeepRest

\* The write fails, and the Send is told once the session is closing.
LEMMA WriteFailsIInv ==
  ASSUME IInv, WriteFails \/ AckFailure
  PROVE  Preserved
  <1>0. UNCHANGED <<fin, peerFin, callVars, rpc, kpc, fpc, closedWith, back>>
    BY DEF WriteFails, AckFailure, WriterTo, finVars
  <1>1. ASSUME WriteFails PROVE Preserved
    <2>1. /\ wpc = "writing" /\ wpc' = "failed" /\ FrameFailed
          /\ AbortWith("writer", "failure", "cause")
      BY <1>1 DEF WriteFails, WriterTo
    <2>2. UNCHANGED <<gateClosed, closing>> /\ EndStep
      BY <2>1, AbortWithEnds DEF IInv, Threads
    <2>3. SendInv(1) /\ NoneFailed /\ frame \in Senders /\ ~ fin /\ back \in {"run", "drain"}
      BY <2>1 DEF IInv, WriterInv
    <2>4. SendInv(0)' /\ UNCHANGED <<ack, frame>>
      BY <2>1, <2>2, <2>3, FrameFailedInv
    <2>5. WriterInv'
      BY <1>0, <2>1, <2>3, <2>4 DEF WriterInv, NoneFailed
    <2>6. LoopType'
      BY <1>0, <2>1 DEF IInv, LoopType
    <2>. QED
      BY <1>0, <2>1, <2>2, <2>5, <2>6, KeepRest
  <1>2. ASSUME AckFailure PROVE Preserved
    <2>1. wpc = "failed" /\ wpc' = "defer" /\ TellFailure /\ UNCHANGED endVars
      BY <1>2 DEF AckFailure, WriterTo
    <2>2. UNCHANGED <<gateClosed, closing>> /\ EndStep
      BY <2>1, StillEnds DEF IInv, endVars
    <2>3. SendInv(0) /\ frame \in Senders /\ ~ fin /\ back \in {"run", "drain"}
      BY <2>1 DEF IInv, WriterInv
    <2>4. SendInv(0)' /\ frame' = NoFrame
      BY <2>1, <2>2, <2>3, TellFailureInv
    <2>5. WriterInv'
      BY <1>0, <2>1, <2>3, <2>4, SendPathAssumption DEF WriterInv
    <2>6. LoopType'
      BY <1>0, <2>1 DEF IInv, LoopType
    <2>. QED
      BY <1>0, <2>1, <2>2, <2>5, <2>6, KeepRest
  <1>. QED
    BY <1>1, <1>2

\* The queue is empty and the gate drained: closeProtocolWrite, markWriteClosed,
\* maybeFinishGraceful, and the way out.
LEMMA WriterEndsIInv ==
  ASSUME IInv, CloseProtocolWrite \/ MarkWriteClosed \/ WriterMayFinish \/ WriterReturns
  PROVE  Preserved
  <1>0. UNCHANGED <<sendVars, peerFin, callVars, rpc, kpc, fpc, closedWith, back>>
    BY DEF CloseProtocolWrite, MarkWriteClosed, WriterMayFinish, WriterReturns, WriterTo, finVars
  <1>1. wpc \in {"fin", "mark", "check", "finish"}
    BY DEF CloseProtocolWrite, MarkWriteClosed, WriterMayFinish, WriterReturns
  <1>2. SendInv(0) /\ frame \notin Senders /\ back \in {"run", "drain"}
    BY <1>1 DEF IInv, WriterInv
  <1>3. ASSUME wpc = "fin" PROVE Delivered /\ ~ fin
    <2>1. InOrder(0) /\ NoneFailed /\ gateDone /\ queue = <<>> /\ ~ fin
      BY <1>3 DEF IInv, WriterInv
    <2>2. written = admitted
      BY <1>2, <2>1, AllWritten
    <2>. QED
      BY <2>1, <2>2 DEF Delivered
  <1>4. ASSUME EndStep, wpc' \in {"mark", "check", "finish", "defer"}, fin' \in BOOLEAN, fin => fin',
               wpc' \in {"mark", "check"} => fin', fin' => Delivered
        PROVE  Preserved
    <2>1. gateClosed' \in BOOLEAN /\ closing' \in BOOLEAN /\ (gateClosed => gateClosed')
      BY <1>4 DEF EndStep, LifeInv
    <2>2. SendInv(0)' /\ (Delivered => Delivered')
      BY <1>0, <1>2, <2>1, GateStep
    <2>3. frame' \notin Senders
      BY <1>0, <1>2 DEF sendVars
    <2>4. WriterInv'
      BY <1>0, <1>2, <1>4, <2>2, <2>3 DEF WriterInv
    <2>5. LoopType'
      BY <1>0, <1>4 DEF IInv, LoopType
    <2>. QED
      BY <1>0, <1>1, <1>4, <2>4, <2>5, KeepRest
  <1>5. fin \in BOOLEAN /\ (fin => Delivered) /\ (wpc \in {"mark", "check"} => fin)
    BY DEF IInv, LoopType, WriterInv
  <1>6. ASSUME CloseProtocolWrite PROVE Preserved
    <2>1. CASE UNCHANGED endVars /\ fin' = TRUE /\ wpc = "fin" /\ wpc' = "mark"
      BY <1>3, <1>4, <2>1, StillEnds DEF IInv
    <2>2. CASE AbortWith("writer", "failure", "cause") /\ fin' = fin /\ wpc' = "finish"
      <3>1. EndStep
        BY <2>2, AbortWithEnds DEF IInv, Threads
      <3>. QED
        BY <1>4, <1>5, <2>2, <3>1
    <2>. QED
      BY <1>6, <2>1, <2>2 DEF CloseProtocolWrite, WriterTo
  <1>7. ASSUME MarkWriteClosed PROVE Preserved
    <2>1. /\ wpc = "mark" /\ wpc' = "check" /\ writeDone' = TRUE /\ UNCHANGED <<fin, peerFin>>
          /\ UNCHANGED <<goal, why, terminal, err, requested, aborted, readDone, termDone>>
          /\ UNCHANGED <<closeBy, closeAt, gateClosed, closing, socket>>
      BY <1>7 DEF MarkWriteClosed, WriterTo, finVars, onceVars
    <2>2. writeDone' \in BOOLEAN /\ readDone' \in BOOLEAN
      BY <2>1 DEF IInv, LifeInv, LifeTypeOK
    <2>3. fin /\ fin'
      BY <1>5, <2>1
    <2>4. EndStep
      BY <2>1, <2>2, <2>3, HalfEnds DEF IInv
    <2>. QED
      BY <1>4, <1>5, <2>1, <2>3, <2>4
  <1>8. ASSUME WriterMayFinish PROVE Preserved
    <2>1. MaybeFinishGraceful("writer") /\ wpc' = "finish" /\ fin' = fin
      BY <1>8 DEF WriterMayFinish, WriterTo, finVars
    <2>2. EndStep
      BY <2>1, MaybeFinishEnds DEF IInv, Threads
    <2>. QED
      BY <1>4, <1>5, <2>1, <2>2
  <1>9. ASSUME WriterReturns PROVE Preserved
    <2>1. UNCHANGED endVars /\ wpc' = "defer" /\ fin' = fin
      BY <1>9 DEF WriterReturns, WriterTo, finVars
    <2>2. EndStep
      BY <2>1, StillEnds DEF IInv
    <2>. QED
      BY <1>4, <1>5, <2>1, <2>2
  <1>. QED
    BY <1>6, <1>7, <1>8, <1>9

LEMMA WriterExitsIInv ==
  ASSUME IInv, WriterExits
  PROVE  Preserved
  <1>0. /\ UNCHANGED endVars
        /\ UNCHANGED <<fin, peerFin, callVars, rpc, kpc, fpc, closedWith, back>>
        /\ wpc = "defer" /\ wpc' = "exited" /\ FailPending
    BY DEF WriterExits, WriterTo, finVars
  <1>1. UNCHANGED <<gateClosed, closing>> /\ EndStep
    BY <1>0, StillEnds DEF endVars, IInv
  <1>2. SendInv(0) /\ frame \notin Senders /\ back \in {"run", "drain"} /\ (fin => Delivered)
    BY <1>0 DEF IInv, WriterInv
  <1>3. /\ SendInv(0)' /\ queue' = <<>> /\ UNCHANGED <<admitted, written, frame>> /\ gateDone'
        /\ queue = <<>> => ack' = ack
    BY <1>0, <1>1, <1>2, FailPendingInv
  <1>4. Delivered => Delivered'
    BY <1>3 DEF Delivered, NoneFailed
  <1>5. WriterInv'
    BY <1>0, <1>2, <1>3, <1>4 DEF WriterInv
  <1>6. LoopType'
    BY <1>0 DEF IInv, LoopType
  <1>. QED
    BY <1>0, <1>1, <1>5, <1>6, KeepRest

----------------------------------------------------------------------------
(* The reader, the activity clock and finalize.                            *)

LEMMA ReaderIInv ==
  ASSUME IInv, ReaderProgress \/ ReadFails \/ PeerCloses \/ ClockExpires \/ ClockReturns
  PROVE  Preserved
  <1>0. UNCHANGED <<sendVars, fin, callVars, wpc, back, fpc, closedWith>>
    BY DEF ReaderProgress, ReaderStep, ReadEOF, ReaderMayFinish, ReaderReturns, ReadFails, ReaderTo,
           PeerCloses, ClockExpires, ClockReturns, finVars, loopVars
  <1>1. ASSUME EndStep, peerFin => peerFin', peerFin' \in BOOLEAN,
               rpc' \in {rpc, "reading", "check", "exiting", "exited"},
               kpc' \in {kpc, "exiting", "exited"},
               rpc = "exited" => rpc' = "exited", kpc = "exited" => kpc' = "exited"
        PROVE  Preserved
    <2>1. CallsInv' /\ FinalInv' /\ CallType'
      BY <1>0, <1>1, KeepCalls, KeepFinal, SameCallType DEF IInv, done
    <2>2. LoopType'
      BY <1>0, <1>1 DEF IInv, LoopType
    <2>. QED
      BY <1>0, <1>1, <2>1, <2>2, KeepAll
  <1>2. peerFin \in BOOLEAN /\ LifeInv
    BY DEF IInv, LoopType
  <1>3. ASSUME ReaderStep \/ ReaderReturns \/ ClockReturns PROVE Preserved
    <2>1. /\ UNCHANGED endVars /\ peerFin' = peerFin
          /\ \/ kpc' = kpc /\ rpc # "exited" /\ rpc' \in {"reading", "exited"}
             \/ rpc' = rpc /\ kpc' = "exited"
      BY <1>3 DEF ReaderStep, ReaderReturns, ReaderTo, ClockReturns, finVars
    <2>. QED
      BY <1>1, <1>2, <2>1, StillEnds
  <1>4. ASSUME ReadFails \/ ClockExpires PROVE Preserved
    <2>1. /\ \E t \in {"reader", "clock"} : AbortWith(t, "failure", "cause")
          /\ peerFin' = peerFin
          /\ \/ kpc' = kpc /\ rpc = "reading" /\ rpc' = "exiting"
             \/ rpc' = rpc /\ kpc = "running" /\ kpc' = "exiting"
      BY <1>4 DEF ReadFails, ReaderTo, ClockExpires, finVars
    <2>2. EndStep
      BY <1>2, <2>1, AbortWithEnds DEF Threads
    <2>. QED
      BY <1>1, <1>2, <2>1, <2>2
  <1>5. ASSUME PeerCloses PROVE Preserved
    <2>1. UNCHANGED endVars /\ peerFin' = TRUE /\ UNCHANGED <<rpc, kpc>>
      BY <1>5 DEF PeerCloses, loopVars
    <2>. QED
      BY <1>1, <1>2, <2>1, StillEnds
  <1>6. ASSUME ReadEOF PROVE Preserved
    <2>1. /\ rpc = "reading" /\ rpc' = "check" /\ peerFin /\ readDone' = TRUE
          /\ UNCHANGED <<fin, peerFin, kpc>>
          /\ UNCHANGED <<goal, why, terminal, err, requested, aborted, writeDone, termDone>>
          /\ UNCHANGED <<closeBy, closeAt, gateClosed, closing, socket>>
      BY <1>6 DEF ReadEOF, ReaderTo, finVars, onceVars
    <2>2. writeDone' \in BOOLEAN /\ readDone' \in BOOLEAN
      BY <1>2, <2>1 DEF LifeInv, LifeTypeOK
    <2>3. EndStep
      BY <1>2, <2>1, <2>2, HalfEnds
    <2>. QED
      BY <1>1, <1>2, <2>1, <2>3
  <1>7. ASSUME ReaderMayFinish PROVE Preserved
    <2>1. /\ MaybeFinishGraceful("reader") /\ rpc = "check" /\ rpc' = "exiting"
          /\ UNCHANGED <<peerFin, kpc>>
      BY <1>7 DEF ReaderMayFinish, ReaderTo, finVars
    <2>2. EndStep
      BY <1>2, <2>1, MaybeFinishEnds DEF Threads
    <2>. QED
      BY <1>1, <1>2, <2>1, <2>2
  <1>. QED
    BY <1>3, <1>4, <1>5, <1>6, <1>7 DEF ReaderProgress

LEMMA FinalIInv ==
  ASSUME IInv, FinalStep
  PROVE  Preserved
  <1>0. UNCHANGED <<sendVars, fin, peerFin, callVars, wpc, back, rpc, kpc>>
    BY DEF FinalStep, Finalize, MarkTerminal, OnClose, CloseDone, FinalTo, finVars
  <1>1. LifeInv /\ FinalInv
    BY DEF IInv
  <1>2. ASSUME EndStep, FinalInv', ~ done,
               fpc' \in {"terminal", "onClose", "closed", "done"}, closedWith' \in {closedWith, err}
        PROVE  Preserved
    <2>1. CallsInv' /\ CallType'
      BY <1>0, <1>2, KeepCalls, SameCallType DEF IInv
    <2>2. err \in {"nil", "cause"}
      BY <1>1 DEF LifeInv, LifeTypeOK
    <2>3. LoopType'
      BY <1>0, <1>2, <2>2 DEF IInv, LoopType
    <2>. QED
      BY <1>0, <1>2, <2>1, <2>3, KeepAll
  <1>3. ASSUME Finalize PROVE Preserved
    <2>1. /\ fpc = "waiting" /\ wpc = "exited" /\ rpc = "exited" /\ kpc = "exited"
          /\ closedWith' = closedWith
          /\ termDone => fpc' = "onClose"
          /\ ~ termDone => fpc' = "terminal"
          /\ \/ (termDone \/ closing) /\ UNCHANGED endVars
             \/ AbortWith("finalizer", "failure", "nil")
      BY <1>3 DEF Finalize, FinalTo
    <2>2. EndStep /\ Over'
      <3>1. CASE (termDone \/ closing) /\ UNCHANGED endVars
        <4>1. Over
          BY <1>1, <3>1 DEF LifeInv, Over
        <4>. QED
          BY <1>1, <3>1, <4>1, StillEnds DEF EndStep, Over
      <3>2. CASE AbortWith("finalizer", "failure", "nil")
        BY <1>1, <3>2, AbortWithEnds DEF Threads
      <3>. QED
        BY <2>1, <3>1, <3>2
    <2>3. termDone => terminal'
      BY <1>1, <2>2 DEF LifeInv, EndStep
    <2>4. FinalInv'
      BY <1>0, <2>1, <2>2, <2>3 DEF FinalInv
    <2>. QED
      BY <1>2, <2>1, <2>2, <2>4 DEF done
  <1>4. ASSUME MarkTerminal PROVE Preserved
    <2>1. fpc = "terminal" /\ fpc' = "onClose" /\ closedWith' = closedWith
      BY <1>4 DEF MarkTerminal, FinalTo
    <2>2. EndStep /\ terminal'
      BY <1>1, <1>4, MarkTerminalEnds
    <2>3. FinalInv'
      BY <1>0, <1>1, <2>1, <2>2 DEF FinalInv
    <2>. QED
      BY <1>2, <2>1, <2>2, <2>3 DEF done
  <1>5. ASSUME OnClose \/ CloseDone PROVE Preserved
    <2>1. /\ UNCHANGED endVars
          /\ \/ fpc = "onClose" /\ fpc' = "closed" /\ closedWith' = err
             \/ fpc = "closed" /\ fpc' = "done" /\ closedWith' = closedWith
      BY <1>5 DEF OnClose, CloseDone, FinalTo
    <2>2. EndStep /\ UNCHANGED <<terminal, err>>
      BY <1>1, <2>1, StillEnds DEF endVars, lifeVars
    <2>3. FinalInv'
      BY <1>0, <1>1, <2>1, <2>2 DEF FinalInv
    <2>. QED
      BY <1>2, <2>1, <2>2, <2>3 DEF done
  <1>. QED
    BY <1>3, <1>4, <1>5 DEF FinalStep

LEMMA NextIInv == IInv /\ [Next]_vars => Preserved
  <1>. SUFFICES ASSUME IInv, [Next]_vars PROVE Preserved
    OBVIOUS
  <1>1. CASE SendNext \/ CloserNext
    BY <1>1, SendNextIInv, CloserNextIInv
  <1>2. ASSUME NEW c \in Closers,
               \/ \E kind \in {"CloseWrite", "Shutdown"} : Request(c, kind)
               \/ Close(c) \/ CallerStep(c) \/ CallExpires(c)
        PROVE  Preserved
    BY <1>2, RequestIInv, EndsCallIInv, CallerIInv DEF CallerStep
  <1>3. CASE WriterStep
    BY <1>3, WriterSelectIInv, WriteFrameIInv, WriteFailsIInv, WriterEndsIInv, WriterExitsIInv
       DEF WriterStep
  <1>4. CASE ReaderProgress \/ ReadFails \/ PeerCloses \/ ClockExpires \/ ClockReturns
    BY <1>4, ReaderIInv
  <1>5. CASE FinalStep
    BY <1>5, FinalIInv
  <1>6. CASE UNCHANGED vars
    <2>1. UNCHANGED <<endVars, sendVars, fin, peerFin, callVars, wpc, back, rpc, kpc, fpc, closedWith>>
      BY <1>6 DEF vars, finVars, loopVars
    <2>2. EndStep
      BY <2>1, StillEnds DEF IInv
    <2>3. CallsInv'
      BY <2>1, <2>2, KeepCalls DEF IInv, done
    <2>4. FinalInv'
      BY <2>1, <2>2, KeepFinal DEF IInv
    <2>5. CallType'
      BY <2>1, SameCallType DEF IInv
    <2>6. LoopType'
      BY <2>1 DEF IInv, LoopType
    <2>. QED
      BY <2>1, <2>2, <2>3, <2>4, <2>5, <2>6, KeepAll
  <1>. QED
    BY <1>1, <1>2, <1>3, <1>4, <1>5, <1>6 DEF Next

LEMMA Invariant == Spec => []IInv
  <1>1. IInv /\ [Next]_vars => IInv'
    BY NextIInv DEF Preserved
  <1>. QED
    BY <1>1, InitIInv, PTL DEF Spec

----------------------------------------------------------------------------
(* The theorems.                                                           *)

\* Nobody is told nil falsely: a Send's frame was written, and a CloseWrite or
\* Shutdown saw everything admitted written and the write side half-closed.
THEOREM NilIsDelivered == Spec => []NilMeansDelivered
  <1>1. IInv => NilMeansDelivered
    <2>. SUFFICES ASSUME IInv PROVE NilMeansDelivered
      OBVIOUS
    <2>1. NilSendIsWritten
      BY DEF IInv, WriterInv, SendInv, Answers
    <2>2. fin => queue = <<>> /\ written = admitted
      BY DEF IInv, WriterInv, Delivered
    <2>. QED
      BY <2>1, <2>2 DEF IInv, CallsInv, NilMeansDelivered
  <1>. QED
    BY <1>1, Invariant, PTL

\* A graceful end loses no frame and no answer.
THEOREM GracefulIsLossless == Spec => []GracefulLosesNothing
  <1>1. IInv => GracefulLosesNothing
    <2>. SUFFICES ASSUME IInv, terminal, Graceful
                  PROVE  /\ fin /\ peerFin /\ written = admitted /\ err = "nil"
                         /\ \A s \in Range(admitted) : ack[s] # "err"
      BY DEF GracefulLosesNothing
    <2>1. fin /\ peerFin /\ err = "nil"
      BY DEF IInv, HalvesInv, LifeInv
    <2>2. Delivered
      BY <2>1 DEF IInv, WriterInv
    <2>3. admitted \in Seq(Senders)
      BY DEF IInv, WriterInv, SendInv
    <2>. QED
      BY <2>1, <2>2, <2>3, InRange DEF Delivered, NoneFailed
  <1>. QED
    BY <1>1, Invariant, PTL

\* Done leaves no loop, frame, slot or Send behind, and the slots in use are
\* exactly the frames between admission and release all along.
THEOREM DoneIsClean == Spec => []DoneReleasesAll
  <1>1. IInv => DoneReleasesAll
    <2>. SUFFICES ASSUME IInv PROVE DoneReleasesAll
      OBVIOUS
    <2>1. SendTypeOK
      BY DEF IInv, WriterInv, SendInv
    <2>2. TypeOK
      BY <2>1 DEF IInv, LifeInv, CallType, LoopType, TypeOK
    <2>3. held = SlotsOutsideWriter + (IF wpc = "writing" THEN 1 ELSE 0)
      BY DEF IInv, WriterInv, SendInv
    <2>4. ASSUME done
          PROVE  /\ wpc = "exited" /\ rpc = "exited" /\ kpc = "exited"
                 /\ NothingLeftBehind
                 /\ closedWith = err
      <3>1. wpc = "exited" /\ rpc = "exited" /\ kpc = "exited" /\ closedWith = err
        BY <2>4 DEF IInv, FinalInv, done
      <3>2. SendInv(0) /\ gateDone /\ queue = <<>> /\ frame \notin Senders
        BY <3>1 DEF IInv, WriterInv
      <3>. QED
        BY <3>1, <3>2, AllReleased
    <2>. QED
      BY <2>2, <2>3, <2>4 DEF DoneReleasesAll
  <1>. QED
    BY <1>1, Invariant, PTL

\* The first terminal cause wins, whoever else tries to end the session.
THEOREM FirstCause == Spec => FirstCauseWins
  <1>1. IInv /\ [Next]_vars =>
          ((goal = Abort \/ terminal) => err' = err /\ why' = why /\ goal' = goal)
    BY NextIInv DEF Preserved, EndStep, Over
  <1>. QED
    BY <1>1, Invariant, PTL DEF Spec, FirstCauseWins
================================================================================
