--------------------------- MODULE StreamSession ---------------------------
(***************************************************************************)
(* One TCP or TLS session (transport/conn.go, stream_graceful.go): its     *)
(* writer, reader and activity-clock goroutines, the finalizer that waits  *)
(* for them, and the application's CloseWrite, Shutdown and Close calls,   *)
(* on top of SendPath and SessionLifecycle.                                *)
(***************************************************************************)
EXTENDS SessionLifecycle

CONSTANTS
    Closers,     \* calls of CloseWrite, Shutdown and Close
    HasClock     \* does the session have an activity clock?

ASSUME StreamAssumption == HasClock \in BOOLEAN

VARIABLES
    fin,         \* have we half-closed the protocol's write side?
    peerFin,     \* has the peer half-closed its side?
    cpc, ckind, owner, ownsWrite, cres,  \* closers
    wpc, back,                           \* writer; where to resume after a write
    rpc, kpc, fpc,                       \* reader, activity clock, finalizer
    closedWith   \* history: the error OnClose was called with

finVars == <<fin, peerFin>>
callVars == <<cpc, ckind, owner, ownsWrite, cres>>
loopVars == <<wpc, back, rpc, kpc, fpc, closedWith>>
vars == <<endVars, sendVars, finVars, callVars, loopVars>>

Threads == Closers \cup {"writer", "reader", "clock", "finalizer"}

TypeOK ==
    /\ SendTypeOK /\ LifeTypeOK
    /\ closeBy \in Threads \cup {"nobody"}
    /\ fin \in BOOLEAN /\ peerFin \in BOOLEAN
    /\ cpc \in [Closers -> {"idle", "signal", "waitWrite", "waitDone", "leaving", "returned"}]
    /\ ckind \in [Closers -> {"none", "CloseWrite", "Shutdown", "Close"}]
    /\ cres \in [Closers -> {"none", "nil", "ctx", "closed", "err"}]
    /\ wpc \in {"run", "drain", "writing", "failed", "fin", "mark", "check", "finish",
               "defer", "exited"}
    /\ rpc \in {"onOpen", "reading", "check", "exiting", "exited"}
    /\ kpc \in {"running", "exiting", "exited"}
    /\ fpc \in {"waiting", "terminal", "onClose", "closed", "done"}
    /\ closedWith \in {"none", "nil", "cause"}

Init ==
    /\ SendInit(Senders) /\ LifeInit
    /\ fin = FALSE /\ peerFin = FALSE
    /\ cpc = [c \in Closers |-> "idle"] /\ ckind = [c \in Closers |-> "none"]
    /\ owner = [c \in Closers |-> FALSE] /\ ownsWrite = [c \in Closers |-> FALSE]
    /\ cres = [c \in Closers |-> "none"]
    /\ wpc = "run" /\ back = "run"
    /\ rpc = "onOpen" /\ kpc = (IF HasClock THEN "running" ELSE "exited")
    /\ fpc = "waiting" /\ closedWith = "none"

done == fpc = "done"

\* A mutant: one half is enough.
EitherHalfClosed == readDone \/ writeDone

HalvesClosed == readDone /\ writeDone

\* maybeFinishGraceful by t, after t has marked its own half closed.
MaybeFinishGraceful(t) == IF HalvesClosed THEN TryMarkTerminal(t) ELSE UNCHANGED endVars

----------------------------------------------------------------------------
(* CloseWrite, Shutdown and Close.                                         *)

CallTo(c, label) == cpc' = [cpc EXCEPT ![c] = label]
CallReturns(c, r) == CallTo(c, "leaving") /\ cres' = [cres EXCEPT ![c] = r]

\* requestWriteClose, requestShutdown: only the caller that raised the goal owns
\* the phase, and its write part only if nobody had asked for anything before.
Request(c, kind) ==
    LET wanted == IF kind = "Shutdown" THEN Full ELSE Write
    IN  /\ cpc[c] = "idle"
        /\ ckind' = [ckind EXCEPT ![c] = kind]
        /\ owner' = [owner EXCEPT ![c] = Raises(wanted)]
        /\ ownsWrite' = [ownsWrite EXCEPT ![c] = goal = Running]
        /\ RaiseGoal(wanted)
        /\ CallTo(c, IF Raises(wanted) THEN "signal" ELSE "waitWrite")
        /\ UNCHANGED <<sendVars, finVars, cres, loopVars>>

\* A mutant: the gate is left open.
SignalWithoutGate(c) ==
    /\ cpc[c] = "signal"
    /\ requested' = TRUE
    /\ CallTo(c, "waitWrite")
    /\ UNCHANGED <<goal, why, terminal, err, aborted, readDone, writeDone, termDone, onceVars,
                   gateClosed, closing, socket, sendVars, finVars, ckind, owner, ownsWrite,
                   cres, loopVars>>

SignalWriteClose(c) ==
    /\ cpc[c] = "signal"
    /\ SignalRequest
    /\ CallTo(c, "waitWrite")
    /\ UNCHANGED <<sendVars, finVars, ckind, owner, ownsWrite, cres, loopVars>>

\* CloseWrite and the first select of Shutdown.
WaitWrite(c) ==
    /\ cpc[c] = "waitWrite"
    /\ \/ /\ aborted \/ (writeDone /\ ckind[c] = "CloseWrite")
          /\ CallReturns(c, LifecycleResult)
       \/ /\ writeDone /\ ckind[c] = "Shutdown"
          /\ CallTo(c, "waitDone")
          /\ UNCHANGED cres
    /\ UNCHANGED <<endVars, sendVars, finVars, ckind, owner, ownsWrite, loopVars>>

\* The second select of Shutdown.
WaitDone(c) ==
    /\ cpc[c] = "waitDone"
    /\ done \/ aborted
    /\ CallReturns(c, LifecycleResult)
    /\ UNCHANGED <<endVars, sendVars, finVars, ckind, owner, ownsWrite, loopVars>>

\* The context of a waiting call expires; the owner of the phase aborts.
CallExpires(c) ==
    /\ cpc[c] \in {"waitWrite", "waitDone"}
    /\ CallReturns(c, "ctx")
    /\ IF owner[c] /\ (ckind[c] = "Shutdown" /\ cpc[c] = "waitWrite" => ownsWrite[c])
       THEN AbortWith(c, "caller", "nil")
       ELSE UNCHANGED endVars
    /\ UNCHANGED <<sendVars, finVars, ckind, owner, ownsWrite, loopVars>>

Close(c) ==
    /\ cpc[c] = "idle"
    /\ ckind' = [ckind EXCEPT ![c] = "Close"]
    /\ CallReturns(c, "nil")
    /\ IF done THEN UNCHANGED endVars ELSE AbortWith(c, "explicit", "nil")
    /\ UNCHANGED <<sendVars, finVars, owner, ownsWrite, loopVars>>

CallEnds(c) ==
    /\ cpc[c] = "leaving"
    /\ Free(c)
    /\ CallTo(c, "returned")
    /\ UNCHANGED <<endVars, sendVars, finVars, ckind, owner, ownsWrite, cres, loopVars>>

----------------------------------------------------------------------------
(* writerLoop.                                                             *)

WriterTo(label) ==
    /\ wpc' = label
    /\ UNCHANGED <<callVars, rpc, kpc, fpc, closedWith>>

\* The selects of the loop: closing, the next frame, or the drained gate, after
\* which closing is no longer looked at.
WriterSelect ==
    /\ \/ /\ wpc = "run" /\ closing
          /\ WriterTo("defer")
          /\ UNCHANGED <<sendVars, back>>
       \/ /\ wpc \in {"run", "drain"}
          /\ TakeFrame
          /\ back' = wpc
          /\ WriterTo("writing")
       \/ /\ wpc = "run" /\ requested /\ gateDone
          /\ WriterTo("drain")
          /\ UNCHANGED <<sendVars, back>>
       \/ /\ wpc = "drain" /\ queue = <<>>
          /\ WriterTo("fin")
          /\ UNCHANGED <<sendVars, back>>
    /\ UNCHANGED <<endVars, finVars>>

WriteFrame ==
    /\ wpc = "writing"
    /\ socket = "open"
    /\ FrameWritten
    /\ WriterTo(back)
    /\ UNCHANGED <<endVars, finVars, back>>

\* The write fails, by a closed socket, the write deadline or the peer, and
\* the session is aborted.
WriteFails ==
    /\ wpc = "writing"
    /\ FrameFailed
    /\ AbortWith("writer", "failure", "cause")
    /\ WriterTo("failed")
    /\ UNCHANGED <<finVars, back>>

AckFailure ==
    /\ wpc = "failed"
    /\ Free("writer")
    /\ TellFailure
    /\ WriterTo("defer")
    /\ UNCHANGED <<endVars, finVars, back>>

\* closeProtocolWrite.
CloseProtocolWrite ==
    /\ wpc = "fin"
    /\ \/ /\ socket = "open"
          /\ fin' = TRUE
          /\ WriterTo("mark")
          /\ UNCHANGED endVars
       \/ /\ AbortWith("writer", "failure", "cause")
          /\ WriterTo("finish")
          /\ UNCHANGED fin
    /\ UNCHANGED <<peerFin, sendVars, back>>

\* markWriteClosed, then maybeFinishGraceful.
MarkWriteClosed ==
    /\ wpc = "mark"
    /\ writeDone' = TRUE
    /\ WriterTo("check")
    /\ UNCHANGED <<goal, why, terminal, err, requested, aborted, readDone, termDone, onceVars,
                   gateClosed, closing, socket, sendVars, finVars, back>>

WriterMayFinish ==
    /\ wpc = "check"
    /\ MaybeFinishGraceful("writer")
    /\ WriterTo("finish")
    /\ UNCHANGED <<sendVars, finVars, back>>

WriterReturns ==
    /\ wpc = "finish"
    /\ Free("writer")
    /\ WriterTo("defer")
    /\ UNCHANGED <<endVars, sendVars, finVars, back>>

\* The deferred part of writerLoop: it waits for the gate, then failPending
\* empties the queue.
WriterExits ==
    /\ wpc = "defer"
    /\ FailPending
    /\ WriterTo("exited")
    /\ UNCHANGED <<endVars, finVars, back>>

----------------------------------------------------------------------------
(* readerLoop, the activity clock, finalize.                               *)

ReaderTo(label) ==
    /\ rpc' = label
    /\ UNCHANGED <<sendVars, finVars, callVars, wpc, back, kpc, fpc, closedWith>>

\* OnOpen returns; after it and after every message the loop tests closing, and
\* a read that fails on a closed socket finds closing closed.
ReaderStep ==
    /\ rpc \in {"onOpen", "reading"}
    /\ \/ closing /\ ReaderTo("exited")
       \/ rpc = "onOpen" /\ ~ closing /\ ReaderTo("reading")
    /\ UNCHANGED endVars

\* A read error, a frame that does not decode, a full buffer, a read timeout.
ReadFails ==
    /\ rpc = "reading"
    /\ AbortWith("reader", "failure", "cause")
    /\ ReaderTo("exiting")

PeerCloses ==
    /\ ~ peerFin
    /\ peerFin' = TRUE
    /\ UNCHANGED <<endVars, fin, sendVars, callVars, loopVars>>

\* The read returns EOF: markReadClosed, then maybeFinishGraceful.
ReadEOF ==
    /\ rpc = "reading"
    /\ peerFin
    /\ ~ closing
    /\ readDone' = TRUE
    /\ ReaderTo("check")
    /\ UNCHANGED <<goal, why, terminal, err, requested, aborted, writeDone, termDone,
                   onceVars, gateClosed, closing, socket>>

ReaderMayFinish ==
    /\ rpc = "check"
    /\ MaybeFinishGraceful("reader")
    /\ ReaderTo("exiting")

ReaderReturns ==
    /\ rpc = "exiting"
    /\ Free("reader")
    /\ ReaderTo("exited")
    /\ UNCHANGED endVars

\* activityClock.run: the idle or lifetime limit expires, or closing ends it.
ClockExpires ==
    /\ kpc = "running"
    /\ AbortWith("clock", "failure", "cause")
    /\ kpc' = "exiting"
    /\ UNCHANGED <<sendVars, finVars, callVars, wpc, back, rpc, fpc, closedWith>>

ClockReturns ==
    /\ \/ kpc = "running" /\ closing
       \/ kpc = "exiting" /\ Free("clock")
    /\ kpc' = "exited"
    /\ UNCHANGED <<endVars, sendVars, finVars, callVars, wpc, back, rpc, fpc, closedWith>>

FinalTo(label) ==
    /\ fpc' = label
    /\ UNCHANGED <<sendVars, finVars, callVars, wpc, back, rpc, kpc>>

\* loops.Wait returns and finalize begins: a session that is neither terminal
\* nor closing is aborted now.
Finalize ==
    /\ fpc = "waiting"
    /\ wpc = "exited" /\ rpc = "exited" /\ kpc = "exited"
    /\ FinalTo(IF termDone THEN "onClose" ELSE "terminal")
    /\ IF termDone \/ closing THEN UNCHANGED endVars
       ELSE AbortWith("finalizer", "failure", "nil")
    /\ UNCHANGED closedWith

MarkTerminal ==
    /\ fpc = "terminal"
    /\ Free("finalizer")
    /\ terminal' = TRUE
    /\ readDone' = TRUE /\ writeDone' = TRUE /\ termDone' = TRUE
    /\ FinalTo("onClose")
    /\ UNCHANGED <<goal, why, err, requested, aborted, onceVars, gateClosed, closing, socket,
                   closedWith>>

OnClose ==
    /\ fpc = "onClose"
    /\ closedWith' = err
    /\ FinalTo("closed")
    /\ UNCHANGED endVars

\* close(done) and removeStream, which releases the session's lease.
CloseDone ==
    /\ fpc = "closed"
    /\ FinalTo("done")
    /\ UNCHANGED <<endVars, closedWith>>

----------------------------------------------------------------------------
SendNext ==
    /\ \E s \in Senders : Enter(s) \/ SenderStep(s) \/ Reject(s) \/ SendExpires(s)
    /\ UNCHANGED <<endVars, finVars, callVars, loopVars>>

CloserNext == CloserWork /\ UNCHANGED <<sendVars, finVars, callVars, loopVars>>

CallerStep(c) == SignalWriteClose(c) \/ WaitWrite(c) \/ WaitDone(c) \/ CallEnds(c)

WriterStep ==
    \/ WriterSelect \/ WriteFrame \/ WriteFails \/ AckFailure \/ CloseProtocolWrite
    \/ MarkWriteClosed \/ WriterMayFinish \/ WriterReturns \/ WriterExits

ReaderProgress == ReaderStep \/ ReadEOF \/ ReaderMayFinish \/ ReaderReturns

FinalStep == Finalize \/ MarkTerminal \/ OnClose \/ CloseDone

Next ==
    \/ SendNext
    \/ CloserNext
    \/ \E c \in Closers : \/ \E kind \in {"CloseWrite", "Shutdown"} : Request(c, kind)
                          \/ Close(c) \/ CallerStep(c) \/ CallExpires(c)
    \/ WriterStep
    \/ ReaderProgress \/ ReadFails \/ PeerCloses
    \/ ClockExpires \/ ClockReturns
    \/ FinalStep

\* Goroutines run: the write deadline ends every write, OnOpen and OnClose
\* return, a read returns once the peer has closed or the socket is closed.
\* The peer need not close, contexts and the clock need not expire.
Fairness ==
    /\ \A s \in Senders : WF_vars(SenderStep(s) /\ UNCHANGED <<endVars, finVars, callVars, loopVars>>)
    /\ \A c \in Closers : WF_vars(CallerStep(c))
    /\ WF_vars(CloserNext)
    /\ WF_vars(WriterStep)
    /\ WF_vars(ReaderProgress)
    /\ WF_vars(ClockReturns)
    /\ WF_vars(FinalStep)

Spec == Init /\ [][Next]_vars

FairSpec == Spec /\ Fairness

----------------------------------------------------------------------------
(* Properties                                                              *)

\* A caller is told nothing false.  A Send that returned nil had its frame
\* written; CloseWrite or Shutdown returned nil only after every frame ever
\* admitted was written, in order, and the write side was half-closed; a nil
\* Shutdown moreover means the session terminated without an abort.
NilMeansDelivered ==
    /\ NilSendIsWritten
    /\ \A c \in Closers :
         (ckind[c] # "Close" /\ cres[c] = "nil")
         => /\ fin
            /\ queue = <<>>
            /\ written = admitted
            /\ ckind[c] = "Shutdown" => done /\ Graceful

\* A session that ends gracefully (maybeFinishGraceful won, not an abort) has
\* lost nothing: both sides are half-closed, every admitted frame was written in
\* order, no Send was refused after its frame was admitted, and Err stays nil.
GracefulLosesNothing ==
    (terminal /\ Graceful)
    => /\ fin /\ peerFin
       /\ written = admitted
       /\ err = "nil"
       /\ \A s \in Range(admitted) : ack[s] # "err"

\* Nothing outlives Done but the goroutine of the call that aborted: every
\* loop has returned, no frame, slot or Send is left behind, every Send whose
\* frame was admitted got its answer, and OnClose saw the error Err still has.
\* On the way there the slots in use are exactly the frames between admission and
\* the writer's release, whichever of Send, handleOutbound and failPending
\* returns them, and never more than there are.
DoneReleasesAll ==
    /\ TypeOK
    /\ held = SlotsOutsideWriter + (IF wpc = "writing" THEN 1 ELSE 0)
    /\ done => /\ wpc = "exited" /\ rpc = "exited" /\ kpc = "exited"
               /\ NothingLeftBehind
               /\ closedWith = err

\* The first terminal cause wins: once the session is aborting or has finished
\* gracefully, neither the error, the reason nor the outcome changes.
FirstCauseWins ==
    [][(goal = Abort \/ terminal) => err' = err /\ why' = why /\ goal' = goal]_vars

\* Every way of ending ends: an aborted session, and a session that was asked
\* to close its write side and whose peer closes, reaches Done.
CloseReachesDone ==
    (goal = Abort \/ (goal # Running /\ peerFin)) ~> done
=============================================================================
