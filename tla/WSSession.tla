----------------------------- MODULE WSSession -----------------------------
(***************************************************************************)
(* One WS or WSS session (transport/websocket.go, websocket_graceful.go,   *)
(* websocket_write_state.go): its writer, reader, ping and activity-clock  *)
(* goroutines, the finalizer that waits for them, the watchdog of the      *)
(* close handshake, which nobody waits for, and the application's Shutdown *)
(* and Close calls, on top of SendPath and SessionLifecycle.  The library  *)
(* connection (coder/websocket) is seen only through what Read, Write,     *)
(* Ping and Close may return.                                              *)
(***************************************************************************)
EXTENDS SessionLifecycle

CONSTANTS
    Closers,     \* calls of Shutdown and Close
    Options      \* configurations: which of a ping loop and an activity clock
                 \* a session has, and which calls of Send it gets

ASSUME WSAssumption == Options \subseteq SUBSET ({"ping", "clock"} \cup Senders)

VARIABLES
    peerClosed,  \* has the peer sent its close frame?
    pend,        \* wsWriteState: no write in flight, one in flight, or one with
                 \* the cause of a read failure left to the writer
    rerr,        \* the error of the reader's failed Read
    drained,     \* is the writerDrained channel closed?
    sigOwed,     \* closeOnce ran before the channels of the abort were closed
    cpc, ckind, owner, cres,             \* closers
    wpc, back,                           \* writer; where to resume after a write
    rpc, ppc, kpc, dpc, fpc,             \* reader, ping, clock, watchdog, finalizer
    closedWith   \* history: the error OnClose was called with

wsVars == <<peerClosed, pend, rerr, drained, sigOwed>>
callVars == <<cpc, ckind, owner, cres>>
loopVars == <<wpc, back, rpc, ppc, kpc, fpc, closedWith>>
vars == <<endVars, sendVars, wsVars, callVars, loopVars, dpc>>

Threads == Closers \cup {"writer", "reader", "ping", "clock", "watchdog", "finalizer"}

TypeOK ==
    /\ SendTypeOK /\ LifeTypeOK
    /\ closeBy \in Threads \cup {"nobody"}
    /\ \A b \in {peerClosed, drained, sigOwed} : b \in BOOLEAN
    /\ pend \in {"off", "on", "nil", "cause"}
    /\ rerr \in {"none", "normal", "nil", "cause"}
    /\ cpc \in [Closers -> {"idle", "signal", "wait", "leaving", "returned"}]
    /\ ckind \in [Closers -> {"none", "Shutdown", "Close"}]
    /\ cres \in [Closers -> {"none", "nil", "ctx", "closed", "err"}]
    /\ wpc \in {"run", "drain", "writing", "failed", "nil", "cause", "close", "mark",
               "once", "finish", "defer", "exited"}
    /\ rpc \in {"onOpen", "reading", "failed", "decide", "exiting", "deferred", "exited"}
    /\ ppc \in {"idle", "pinging", "exiting", "exited"}
    /\ kpc \in {"running", "exiting", "exited"}
    /\ dpc \in {"off", "waiting", "timing", "exiting", "exited"}
    /\ fpc \in {"waiting", "onClose", "closed", "done"}
    /\ closedWith \in {"none", "nil", "cause"}

Init ==
    /\ LifeInit
    /\ peerClosed = FALSE /\ drained = FALSE /\ sigOwed = FALSE
    /\ pend = "off" /\ rerr = "none"
    /\ cpc = [c \in Closers |-> "idle"] /\ ckind = [c \in Closers |-> "none"]
    /\ owner = [c \in Closers |-> FALSE] /\ cres = [c \in Closers |-> "none"]
    /\ wpc = "run" /\ back = "run" /\ rpc = "onOpen" /\ dpc = "off"
    /\ \E on \in Options :
         /\ SendInit(on \cap Senders)
         /\ ppc = (IF "ping" \in on THEN "idle" ELSE "exited")
         /\ kpc = (IF "clock" \in on THEN "running" ELSE "exited")
    /\ fpc = "waiting" /\ closedWith = "none"

done == fpc = "done"

\* The winner of abortWith also still has its channels to close.
Returns(t) == Free(t) /\ ~ (sigOwed /\ closeBy = t)

\* normalizeWSError: EOF, a closed connection and a normal close are no cause.
Normalize(e) == IF e = "cause" THEN "cause" ELSE "nil"

----------------------------------------------------------------------------
(* Shutdown and Close.                                                     *)

CallTo(c, label) == cpc' = [cpc EXCEPT ![c] = label]
CallReturns(c, r) == CallTo(c, "leaving") /\ cres' = [cres EXCEPT ![c] = r]

Shutdown(c) ==
    /\ cpc[c] = "idle"
    /\ ckind' = [ckind EXCEPT ![c] = "Shutdown"]
    /\ owner' = [owner EXCEPT ![c] = Raises(Full)]
    /\ RaiseGoal(Full)
    /\ CallTo(c, IF Raises(Full) THEN "signal" ELSE "wait")
    /\ UNCHANGED <<sendVars, wsVars, cres, loopVars, dpc>>

\* A mutant: the owner starts no watchdog.
SignalWithoutWatchdog(c) ==
    /\ cpc[c] = "signal"
    /\ SignalRequest
    /\ CallTo(c, "wait")
    /\ UNCHANGED <<sendVars, wsVars, ckind, owner, cres, loopVars, dpc>>

\* The rest of requestShutdown for the owner; go watchCloseTimeout.
SignalShutdown(c) ==
    /\ cpc[c] = "signal"
    /\ SignalRequest
    /\ dpc' = "waiting"
    /\ CallTo(c, "wait")
    /\ UNCHANGED <<sendVars, wsVars, ckind, owner, cres, loopVars>>

WaitDone(c) ==
    /\ cpc[c] = "wait"
    /\ done \/ aborted
    /\ CallReturns(c, LifecycleResult)
    /\ UNCHANGED <<endVars, sendVars, wsVars, ckind, owner, loopVars, dpc>>

\* The context of a waiting Shutdown expires; the owner aborts.
CallExpires(c) ==
    /\ cpc[c] = "wait"
    /\ CallReturns(c, "ctx")
    /\ IF owner[c] THEN AbortWith(c, "caller", "nil") ELSE UNCHANGED endVars
    /\ UNCHANGED <<sendVars, wsVars, ckind, owner, loopVars, dpc>>

Close(c) ==
    /\ cpc[c] = "idle"
    /\ ckind' = [ckind EXCEPT ![c] = "Close"]
    /\ CallReturns(c, "nil")
    /\ IF done THEN UNCHANGED endVars ELSE AbortWith(c, "explicit", "nil")
    /\ UNCHANGED <<sendVars, wsVars, owner, loopVars, dpc>>

CallEnds(c) ==
    /\ cpc[c] = "leaving"
    /\ Returns(c)
    /\ CallTo(c, "returned")
    /\ UNCHANGED <<endVars, sendVars, wsVars, ckind, owner, cres, loopVars, dpc>>

\* watchCloseTimeout: its time begins when the writer has drained the queue.
WatchStep ==
    /\ \/ dpc = "waiting" /\ drained /\ dpc' = "timing" /\ UNCHANGED endVars
       \/ dpc \in {"waiting", "timing"} /\ (aborted \/ done) /\ dpc' = "exited"
          /\ UNCHANGED endVars
       \/ dpc = "timing" /\ AbortWith("watchdog", "failure", "cause") /\ dpc' = "exiting"
       \/ dpc = "exiting" /\ Returns("watchdog") /\ dpc' = "exited" /\ UNCHANGED endVars
    /\ UNCHANGED <<sendVars, wsVars, callVars, loopVars>>

----------------------------------------------------------------------------
(* writerLoop.                                                             *)

WriterTo(label) ==
    /\ wpc' = label
    /\ UNCHANGED <<callVars, rpc, ppc, kpc, fpc, closedWith, dpc>>

\* The selects of the loop; taking a frame begins its bounded write.  Once the
\* gate is drained closing is not looked at.
WriterSelect ==
    /\ \/ /\ wpc = "run" /\ closing
          /\ WriterTo("defer")
          /\ UNCHANGED <<sendVars, back, pend, drained>>
       \/ /\ wpc \in {"run", "drain"}
          /\ TakeFrame
          /\ pend' = "on"
          /\ back' = wpc
          /\ WriterTo("writing")
          /\ UNCHANGED drained
       \/ /\ wpc = "run" /\ requested /\ gateDone
          /\ WriterTo("drain")
          /\ UNCHANGED <<sendVars, back, pend, drained>>
       \/ /\ wpc = "drain" /\ queue = <<>>
          /\ drained' = TRUE
          /\ WriterTo("close")
          /\ UNCHANGED <<sendVars, back, pend>>
    /\ UNCHANGED <<endVars, peerClosed, rerr, sigOwed>>

\* A mutant: a write that succeeds forgets the read failure left to it.
ForgetPending == back

\* Where handleOutbound goes on after a write that succeeds.
AfterWrite == IF pend = "on" THEN back ELSE pend

WriteFrame ==
    /\ wpc = "writing"
    /\ socket = "open"
    /\ FrameWritten
    /\ pend' = "off"
    /\ WriterTo(AfterWrite)
    /\ UNCHANGED <<endVars, peerClosed, rerr, drained, sigOwed, back>>

\* ... and closes the session for the reader that left it the failure.
CloseForReader ==
    /\ wpc \in {"nil", "cause"}
    /\ AbortWith("writer", "failure", wpc)
    /\ WriterTo("finish")
    /\ UNCHANGED <<sendVars, wsVars, back>>

\* The write fails.  Its own deadline is the cause, then what the reader left,
\* then the write's error.
WriteFails ==
    /\ wpc = "writing"
    /\ FrameFailed
    /\ \E cause \in {"cause", IF pend = "on" THEN "cause" ELSE pend} :
         AbortWith("writer", "failure", cause)
    /\ WriterTo("failed")
    /\ UNCHANGED <<wsVars, back>>

AckFailure ==
    /\ wpc = "failed"
    /\ Returns("writer")
    /\ pend' = "off"
    /\ TellFailure
    /\ WriterTo("defer")
    /\ UNCHANGED <<endVars, peerClosed, rerr, drained, sigOwed, back>>

\* ws.Close returns: nil, an error that is no cause (the connection is gone),
\* or a cause.
CloseHandshake ==
    /\ wpc = "close"
    /\ \/ /\ WriterTo("mark")
          /\ UNCHANGED endVars
       \/ /\ AbortWith("writer", "failure", "cause")
          /\ WriterTo("finish")
    /\ UNCHANGED <<sendVars, peerClosed, pend, rerr, drained, sigOwed, back>>

\* It must return once the peer has answered or the connection is closed.
HandshakeEnds == CloseHandshake /\ (peerClosed \/ socket = "closed")

\* finishLocalGraceful: tryMarkTerminal, whose result is ignored.  Nobody looks
\* at the two channels it closes before.
FinishLocalGraceful ==
    /\ wpc = "mark"
    /\ TryMarkTerminal("writer")
    /\ WriterTo("once")
    /\ UNCHANGED <<sendVars, wsVars, back>>

\* Its closeOnce.Do, after a lost tryMarkTerminal, can come before the one of
\* the abort, which then still has its channels to close.
FinishTakesOver ==
    /\ wpc = "once" /\ closeBy # "writer"
    /\ closeAt = "signals"
    /\ closeAt' = "gate"
    /\ sigOwed' = TRUE
    /\ UNCHANGED <<lifeVars, closeBy, gateClosed, closing, socket, sendVars, peerClosed, pend, rerr, drained, callVars, loopVars, dpc>>

LateSignals ==
    /\ sigOwed
    /\ sigOwed' = FALSE
    /\ requested' = TRUE /\ aborted' = TRUE /\ readDone' = TRUE /\ writeDone' = TRUE
    /\ UNCHANGED <<goal, why, terminal, err, termDone, onceVars, gateClosed, closing, socket,
                   sendVars, peerClosed, pend, rerr, drained, callVars, loopVars,
                   dpc>>

WriterReturns ==
    /\ \/ wpc = "finish" /\ Returns("writer")
       \/ wpc = "once" /\ closeAt = "end"
    /\ WriterTo("defer")
    /\ UNCHANGED <<endVars, sendVars, wsVars, back>>

WriterExits ==
    /\ wpc = "defer"
    /\ FailPending
    /\ drained' = TRUE
    /\ WriterTo("exited")
    /\ UNCHANGED <<endVars, peerClosed, pend, rerr, sigOwed, back>>
----------------------------------------------------------------------------
(* readerLoop.                                                             *)

ReaderTo(label) ==
    /\ rpc' = label
    /\ UNCHANGED <<sendVars, peerClosed, drained, sigOwed, callVars, wpc, back,
                   ppc, kpc, fpc, closedWith, dpc>>

\* OnOpen returns; after it and after every message the loop tests closing.
ReaderStep ==
    /\ \/ rpc \in {"onOpen", "reading"} /\ closing /\ ReaderTo("exited")
       \/ rpc = "onOpen" /\ ~ closing /\ ReaderTo("reading")
       \/ rpc = "exiting" /\ Returns("reader") /\ ReaderTo("exited")
    /\ UNCHANGED <<endVars, pend, rerr>>

PeerCloses ==
    /\ ~ peerClosed
    /\ peerClosed' = TRUE
    /\ UNCHANGED <<endVars, sendVars, pend, rerr, drained, sigOwed, callVars,
                   loopVars, dpc>>

DecodeFails ==
    /\ rpc = "reading"
    /\ AbortWith("reader", "failure", "cause")
    /\ ReaderTo("exiting")
    /\ UNCHANGED <<pend, rerr>>

\* ws.Read fails: with the peer's normal close, a closed connection, a cause.
ReadFails ==
    /\ rpc = "reading"
    /\ \E e \in {"normal", "nil", "cause"} :
         /\ e = "normal" => peerClosed
         /\ rerr' = e
    /\ ReaderTo("failed")
    /\ UNCHANGED <<endVars, pend>>

\* It must return once the peer has closed or the connection is closed.
ReadEnds == ReadFails /\ (peerClosed \/ socket = "closed")

\* Is the failure part of the close handshake that others own?
Derivative == requested /\ ~ aborted /\ (rerr = "normal" \/ drained)

\* The first test after the error: markReadClosed and return.
ReaderYields ==
    /\ rpc = "failed"
    /\ \/ /\ Derivative
          /\ readDone' = TRUE
          /\ ReaderTo("exited")
       \/ /\ ~ Derivative
          /\ ReaderTo("decide")
          /\ UNCHANGED readDone
    /\ UNCHANGED <<goal, why, terminal, err, requested, aborted, writeDone, termDone, onceVars,
                   gateClosed, closing, socket, pend, rerr>>

\* The other tests: leave the failure to the write in flight, or close because
\* its deadline has passed, or close for the failure itself.
ReaderDecides ==
    /\ rpc = "decide"
    /\ \/ /\ pend # "off"
          /\ pend' = Normalize(rerr)
          /\ ReaderTo("deferred")
          /\ UNCHANGED endVars
       \/ /\ pend # "off"
          /\ AbortWith("reader", "failure", "cause")
          /\ ReaderTo("exiting")
          /\ UNCHANGED pend
       \/ /\ pend = "off"
          /\ AbortWith("reader", "failure", Normalize(rerr))
          /\ ReaderTo("exiting")
          /\ UNCHANGED pend
    /\ UNCHANGED rerr

----------------------------------------------------------------------------
(* pingLoop, the activity clock, finalize.                                 *)

PingTo(label) ==
    /\ ppc' = label
    /\ UNCHANGED <<sendVars, wsVars, callVars, wpc, back, rpc, kpc, fpc, closedWith, dpc>>

\* The ticker: a ping begins, also when the session is being closed.
PingBegins ==
    /\ ppc = "idle"
    /\ PingTo("pinging")
    /\ UNCHANGED endVars

\* The pong arrives, or PongTimeout or the connection ends the wait.
PingEnds ==
    /\ ppc = "pinging"
    /\ \/ socket = "open" /\ PingTo("idle") /\ UNCHANGED endVars
       \/ AbortWith("ping", "failure", "cause") /\ PingTo("exiting")

PingReturns ==
    /\ \/ ppc = "idle" /\ (closing \/ requested)
       \/ ppc = "exiting" /\ Returns("ping")
    /\ PingTo("exited")
    /\ UNCHANGED endVars

ClockTo(label) ==
    /\ kpc' = label
    /\ UNCHANGED <<sendVars, wsVars, callVars, wpc, back, rpc, ppc, fpc, closedWith, dpc>>

ClockExpires ==
    /\ kpc = "running"
    /\ AbortWith("clock", "failure", "cause")
    /\ ClockTo("exiting")

ClockReturns ==
    /\ \/ kpc = "running" /\ closing
       \/ kpc = "exiting" /\ Returns("clock")
    /\ ClockTo("exited")
    /\ UNCHANGED endVars

FinalTo(label) ==
    /\ fpc' = label
    /\ UNCHANGED <<sendVars, wsVars, callVars, wpc, back, rpc, ppc, kpc, dpc>>

LoopsReturned ==
    wpc = "exited" /\ rpc \in {"deferred", "exited"} /\ ppc = "exited" /\ kpc = "exited"

Finalize ==
    /\ fpc = "waiting"
    /\ LoopsReturned
    /\ IF closing THEN UNCHANGED endVars ELSE AbortWith("finalizer", "failure", "nil")
    /\ FinalTo("onClose")
    /\ UNCHANGED closedWith

OnClose ==
    /\ fpc = "onClose"
    /\ Returns("finalizer")
    /\ closedWith' = err
    /\ FinalTo("closed")
    /\ UNCHANGED endVars

\* close(done) and removeWebSocket, which releases the session's lease.
CloseDone ==
    /\ fpc = "closed"
    /\ FinalTo("done")
    /\ UNCHANGED <<endVars, closedWith>>

----------------------------------------------------------------------------
SendNext ==
    /\ \E s \in Senders : Enter(s) \/ SenderStep(s) \/ Reject(s) \/ SendExpires(s)
    /\ UNCHANGED <<endVars, wsVars, callVars, loopVars, dpc>>

CloserNext == CloserWork /\ UNCHANGED <<sendVars, wsVars, callVars, loopVars, dpc>>

CallerStep(c) == SignalShutdown(c) \/ WaitDone(c) \/ CallEnds(c)

WriterStep ==
    \/ WriterSelect \/ WriteFrame \/ CloseForReader \/ WriteFails \/ AckFailure
    \/ FinishLocalGraceful \/ FinishTakesOver \/ WriterReturns \/ WriterExits

ReaderProgress == ReaderStep \/ ReaderYields \/ ReaderDecides

FinalStep == Finalize \/ OnClose \/ CloseDone

Next ==
    \/ SendNext
    \/ CloserNext \/ LateSignals
    \/ \E c \in Closers : Shutdown(c) \/ Close(c) \/ CallerStep(c) \/ CallExpires(c)
    \/ WatchStep
    \/ WriterStep \/ CloseHandshake
    \/ ReaderProgress \/ DecodeFails \/ ReadFails \/ PeerCloses
    \/ PingBegins \/ PingEnds \/ PingReturns
    \/ ClockExpires \/ ClockReturns
    \/ FinalStep

Spec == Init /\ [][Next]_vars

----------------------------------------------------------------------------
(* Properties                                                              *)

\* A session that ends gracefully (finishLocalGraceful won, not an abort) has
\* lost nothing: the queue was drained before the close handshake, every message
\* admitted was written in order, no Send was refused after that, and Err stays
\* nil.  Callers are told the truth about it: a Send that returned nil had its
\* message written, and a Shutdown that returned nil has seen such an end.
GracefulLosesNothing ==
    /\ terminal => /\ Graceful /\ err = "nil"
                   /\ gateDone /\ written = admitted
                   /\ \A s \in Range(admitted) : ack[s] # "err"
    /\ NilSendIsWritten
    /\ \A c \in Closers :
         (ckind[c] = "Shutdown" /\ cres[c] = "nil")
         => done /\ Graceful /\ written = admitted

\* Done means that the loops have returned and no message, slot or Send is left
\* behind, no read failure is left with a write, and OnClose saw the error Err
\* still has.  On the way there no count leaves its range.
DoneReleasesAll ==
    /\ TypeOK
    /\ done => /\ LoopsReturned
               /\ NothingLeftBehind
               /\ pend = "off"
               /\ closedWith = err

\* A read failure that the reader left to the write in flight (deferRead) is
\* never lost: the writer still has it, is about to act on it, or the session
\* has ended some other way.
DeferredReadIsKept ==
    rpc = "deferred" => \/ pend \in {"nil", "cause"}
                        \/ wpc \in {"nil", "cause"}
                        \/ goal = Abort \/ terminal

\* The first terminal cause wins: once the session is aborting or has finished
\* gracefully, neither the error, the reason nor the outcome changes.
FirstCauseWins ==
    [][(goal = Abort \/ terminal) => err' = err /\ why' = why /\ goal' = goal]_vars

\* What the goroutines do by themselves: deadlines end every write and ping and,
\* through the watchdog, the close handshake; handlers return.  The peer need
\* not answer, and contexts and the activity clock need not expire.
GoroutineStep ==
    \/ ReaderProgress \/ WriterStep \/ CloserNext
    \/ FinalStep \/ ReadEnds \/ HandshakeEnds \/ WatchStep \/ LateSignals
    \/ PingEnds \/ PingReturns \/ ClockReturns
    \/ \E c \in Closers : CallerStep(c)
    \/ \E s \in Senders : SenderStep(s) /\ UNCHANGED <<endVars, wsVars, callVars, loopVars, dpc>>

\* No two goroutines wait for each other.  While a Send is in progress, and
\* from the moment the session begins to end (an abort, a Shutdown, a reader that
\* has left) until it is done, some goroutine can go on without the help of a
\* peer, a context or the activity clock.
NeverStuck ==
    (\/ ~ done /\ (goal # Running \/ rpc \in {"deferred", "exited"})
     \/ \E s \in Senders : spc[s] \notin {"idle", "returned"})
    => ENABLED GoroutineStep
=============================================================================
