------------------------------ MODULE Observer ------------------------------
(***************************************************************************)
(* observerDispatcher (transport/observer.go): a bounded queue of events   *)
(* between the producers, which never wait, and one worker that calls the  *)
(* application's Observer.  Nothing bounds how long that call takes.       *)
(***************************************************************************)
EXTENDS Naturals, Sequences

CONSTANT ObserverBuffer  \* the capacity of the queue

ASSUME ObserverAssumption == ObserverBuffer \in Nat \ {0}

VARIABLES
    queue,     \* events on their way to the worker
    dropped,   \* ObserverDroppedEvents
    panics,    \* ObserverPanics
    stopped,   \* stop was called: the flag is set and stopCh is closed
    worker,    \* "select", "observing" or "exited"
    observed   \* the events passed to Observe so far, the last one perhaps still in it

observerVars == <<queue, dropped, panics, stopped, worker, observed>>

ObserverTypeOK ==
    /\ Len(queue) <= ObserverBuffer
    /\ dropped \in Nat /\ panics \in Nat
    /\ stopped \in BOOLEAN
    /\ worker \in {"select", "observing", "exited"}

ObserverInit ==
    /\ queue = <<>> /\ observed = <<>>
    /\ dropped = 0 /\ panics = 0
    /\ stopped = FALSE
    /\ worker = "select"

\* A mutant: the producer waits for a place in the queue.
emitWaits(event) ==
    /\ Len(queue) < ObserverBuffer
    /\ queue' = Append(queue, event)
    /\ UNCHANGED <<dropped, panics, stopped, worker, observed>>

\* A mutant: a full queue drops the event and does not say so.
emitSilently(event) ==
    /\ queue' = IF ~ stopped /\ Len(queue) < ObserverBuffer THEN Append(queue, event) ELSE queue
    /\ UNCHANGED <<dropped, panics, stopped, worker, observed>>

\* emit, part of a step of the producer.  Every producer is over before stop is
\* called (StatsExact), so the flag does not change inside it.
emit(event) ==
    /\ queue' = IF ~ stopped /\ Len(queue) < ObserverBuffer THEN Append(queue, event) ELSE queue
    /\ dropped' = IF ~ stopped /\ Len(queue) = ObserverBuffer THEN dropped + 1 ELSE dropped
    /\ UNCHANGED <<panics, stopped, worker, observed>>

\* stop, part of maybeDoneLocked.
stop ==
    /\ stopped' = TRUE
    /\ UNCHANGED <<queue, dropped, panics, worker, observed>>

\* run: with an event and the stop signal at hand, select takes either.
TakeEvent ==
    /\ worker = "select" /\ queue # <<>>
    /\ observed' = Append(observed, Head(queue))
    /\ queue' = Tail(queue)
    /\ worker' = "observing"
    /\ UNCHANGED <<dropped, panics, stopped>>

TakeStop ==
    /\ worker = "select" /\ stopped
    /\ worker' = "exited"
    /\ UNCHANGED <<queue, dropped, panics, stopped, observed>>

\* observe: the callback returns, or panics and is recovered.
ObserveEnds ==
    /\ worker = "observing"
    /\ worker' = "select"
    /\ panics' \in {panics, panics + 1}
    /\ UNCHANGED <<queue, dropped, stopped, observed>>

WorkerStep == TakeEvent \/ TakeStop \/ ObserveEnds
=============================================================================
