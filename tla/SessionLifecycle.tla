-------------------------- MODULE SessionLifecycle --------------------------
(***************************************************************************)
(* How a TCP, TLS or WebSocket session ends (transport/lifecycle.go and    *)
(* abort in stream_graceful.go and websocket_graceful.go): the close goal  *)
(* that only rises, the abort that wins once, the terminal mark, and the   *)
(* closeOnce body in which the winner closes the gate, the closing channel *)
(* and the socket, one after the other, while everybody else runs on.      *)
(***************************************************************************)
EXTENDS SendPath

VARIABLES
    goal,        \* sessionLifecycle.goal
    why,         \* sessionLifecycle.why
    terminal,    \* sessionLifecycle.terminal
    err,         \* the session's err
    requested,   \* is writeReq (stream) or fullReq (WebSocket) closed?
    aborted, readDone, writeDone, termDone,  \* the other closed channels
    closeBy,     \* who runs the body of closeOnce
    closeAt,     \* how far it has come
    socket       \* open, or closed by us

lifeVars == <<goal, why, terminal, err, requested, aborted, readDone, writeDone, termDone>>
onceVars == <<closeBy, closeAt>>
endVars == <<lifeVars, onceVars, gateClosed, closing, socket>>

Running == 0
Write == 1
Full == 2
Abort == 3

LifeTypeOK ==
    /\ goal \in Running..Abort
    /\ why \in {"none", "explicit", "caller", "failure"}
    /\ err \in {"nil", "cause"}
    /\ \A b \in {terminal, requested, aborted, readDone, writeDone, termDone} : b \in BOOLEAN
    /\ closeAt \in {"none", "signals", "gate", "closing", "socket", "end"}
    /\ socket \in {"open", "closed"}

LifeInit ==
    /\ goal = Running /\ why = "none" /\ terminal = FALSE /\ err = "nil"
    /\ requested = FALSE /\ aborted = FALSE /\ readDone = FALSE
    /\ writeDone = FALSE /\ termDone = FALSE
    /\ closeBy = "nobody" /\ closeAt = "none"
    /\ socket = "open"

\* Nobody has aborted the session.
Graceful == goal # Abort

\* A mutant: a second abort overwrites the first.
MayAbortAgain == ~ terminal

\* The test abortWith and tryMarkTerminal make under the lifecycle's lock.
MayAbort == ~ terminal /\ goal # Abort

\* requestWithPrevious, under the lock: the goal only rises.
Raises(wanted) == ~ terminal /\ goal < wanted

RaiseGoal(wanted) ==
    /\ goal' = IF Raises(wanted) THEN wanted ELSE goal
    /\ UNCHANGED <<why, terminal, err, requested, aborted, readDone, writeDone, termDone,
                   onceVars, gateClosed, closing, socket>>

\* ... and then, for the owner: the request channel and the gate.  The writer
\* is the only one to look at the channel, and until the gate is drained it
\* does the same either way.
SignalRequest ==
    /\ requested' = TRUE
    /\ gateClosed' = TRUE
    /\ UNCHANGED <<goal, why, terminal, err, aborted, readDone, writeDone, termDone,
                   onceVars, closing, socket>>

\* abort by t: abortWith with the error it publishes under the lock.  A loser
\* changes nothing and goes on.
AbortWith(t, reason, cause) ==
    /\ IF MayAbort
       THEN /\ goal' = Abort
            /\ why' = reason
            /\ err' = cause
            /\ closeBy' = t
            /\ closeAt' = "signals"
            /\ UNCHANGED <<terminal, requested, aborted, readDone, writeDone, termDone>>
       ELSE UNCHANGED <<lifeVars, onceVars>>
    /\ UNCHANGED <<gateClosed, closing, socket>>

\* tryMarkTerminal by t, which goes on to the closeOnce body.
TryMarkTerminal(t) ==
    /\ IF MayAbort
       THEN /\ terminal' = TRUE
            /\ closeBy' = t
            /\ closeAt' = "signals"
            /\ UNCHANGED <<goal, why, err, requested, aborted, readDone, writeDone, termDone>>
       ELSE UNCHANGED <<lifeVars, onceVars>>
    /\ UNCHANGED <<gateClosed, closing, socket>>

\* The winner goes on when its closeOnce body is over.
Free(t) == closeBy # t \/ closeAt = "end"

\* The channels that abortWith closes, or the ones that tryMarkTerminal closes.
CloseSignals ==
    /\ closeAt = "signals"
    /\ closeAt' = "gate"
    /\ readDone' = TRUE
    /\ writeDone' = TRUE
    /\ IF goal = Abort THEN requested' = TRUE /\ aborted' = TRUE /\ UNCHANGED termDone
                       ELSE termDone' = TRUE /\ UNCHANGED <<requested, aborted>>
    /\ UNCHANGED <<goal, why, terminal, err, closeBy, gateClosed, closing, socket>>

\* The body of closeOnce: gate.close, close(closing), Close of the socket.
CloseGate ==
    /\ closeAt = "gate"
    /\ closeAt' = "closing"
    /\ gateClosed' = TRUE
    /\ UNCHANGED <<lifeVars, closeBy, closing, socket>>

CloseClosing ==
    /\ closeAt = "closing"
    /\ closeAt' = "socket"
    /\ closing' = TRUE
    /\ UNCHANGED <<lifeVars, closeBy, gateClosed, socket>>

CloseSocket ==
    /\ closeAt = "socket"
    /\ closeAt' = "end"
    /\ socket' = "closed"
    /\ UNCHANGED <<lifeVars, closeBy, gateClosed, closing>>

CloserWork == CloseSignals \/ CloseGate \/ CloseClosing \/ CloseSocket

LifecycleResult == IF err # "nil" THEN "err" ELSE IF why # "none" THEN "closed" ELSE "nil"
=============================================================================
