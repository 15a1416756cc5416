--------------------------- MODULE ActivityClock ---------------------------
(***************************************************************************)
(* The activity clock of a session (transport/activity_clock.go): the      *)
(* goroutines that move bytes touch it, and its own goroutine closes the   *)
(* session when it has been idle or has lived for too long.  Time is       *)
(* discrete, counted from the clock's birth, and may pass between any two  *)
(* steps.  touch is three steps: it reads the time, stores it, and wakes   *)
(* the goroutine of the clock through a channel of capacity one.           *)
(***************************************************************************)
EXTENDS Integers

CONSTANTS
    Touchers,        \* the goroutines that touch the clock: reader, writer
    connectionIdle,  \* 0: no limit
    maxLifetime,     \* 0: no limit
    MaxTime          \* bound: the time at which the model stops counting

\* newActivityClock makes a clock only if one of the limits is not 0.

VARIABLES
    now,       \* time since the clock was born
    last,      \* lastActivityNS
    wake,      \* is there a token in the wake channel?
    closing,   \* is the session closing for some other reason?
    tpc, seen, \* touchers: where they are, the time they have read
    kpc,       \* the goroutine of the clock
    armed,     \* when its timer fires
    found,     \* the deadline and kind it has found when it looked again
    expired,   \* what the session was closed for
    latest,    \* history: the latest activity that was ever stored
    known,     \* history: the latest activity when the clock looked again
    overtaken  \* history: was an older time ever stored over a newer one?

history == <<latest, known, overtaken>>
vars == <<now, last, wake, closing, tpc, seen, kpc, armed, found, expired, history>>

MaxOf(a, b) == IF a > b THEN a ELSE b

\* nextDeadline: the earlier one, the lifetime if they are equal.
nextDeadline ==
    LET idle == last + connectionIdle
    IN  IF maxLifetime > 0 /\ (connectionIdle = 0 \/ maxLifetime <= idle)
        THEN [at |-> maxLifetime, kind |-> "lifetime"]
        ELSE [at |-> idle, kind |-> "idle"]

Deadlines == [at : 0..(MaxTime + connectionIdle + maxLifetime), kind : {"idle", "lifetime"}]

TypeOK ==
    /\ now \in 0..MaxTime
    /\ last \in 0..now /\ latest \in 0..now /\ known \in 0..now
    /\ wake \in BOOLEAN /\ closing \in BOOLEAN /\ overtaken \in BOOLEAN
    /\ tpc \in [Touchers -> {"idle", "read", "stored"}]
    /\ seen \in [Touchers -> 0..now]
    /\ kpc \in {"arm", "select", "look", "decide", "returned"}
    /\ armed \in 0..(MaxTime + connectionIdle + maxLifetime)
    /\ found \in Deadlines
    /\ expired \in {"no", "idle", "lifetime"}

Init ==
    /\ now = 0 /\ last = 0 /\ latest = 0 /\ known = 0 /\ overtaken = FALSE
    /\ wake = FALSE /\ closing = FALSE
    /\ tpc = [t \in Touchers |-> "idle"] /\ seen = [t \in Touchers |-> 0]
    /\ kpc = "arm" /\ armed = 0 /\ found = nextDeadline /\ expired = "no"

Tick ==
    /\ now < MaxTime
    /\ now' = now + 1
    /\ UNCHANGED <<last, wake, closing, tpc, seen, kpc, armed, found, expired, history>>

\* The session ends for another reason.
SessionCloses ==
    /\ ~ closing
    /\ closing' = TRUE
    /\ UNCHANGED <<now, last, wake, tpc, seen, kpc, armed, found, expired, history>>

----------------------------------------------------------------------------
(* touch.                                                                  *)

ReadTime(t) ==
    /\ tpc[t] = "idle"
    /\ tpc' = [tpc EXCEPT ![t] = "read"]
    /\ seen' = [seen EXCEPT ![t] = now]
    /\ UNCHANGED <<now, last, wake, closing, kpc, armed, found, expired, history>>

StoreTime(t) ==
    /\ tpc[t] = "read"
    /\ tpc' = [tpc EXCEPT ![t] = "stored"]
    /\ last' = seen[t]
    /\ latest' = MaxOf(latest, seen[t])
    /\ overtaken' = (overtaken \/ seen[t] < last)
    /\ UNCHANGED <<now, wake, closing, seen, kpc, armed, found, expired, known>>

Wake(t) ==
    /\ tpc[t] = "stored"
    /\ tpc' = [tpc EXCEPT ![t] = "idle"]
    /\ wake' = TRUE
    /\ UNCHANGED <<now, last, closing, seen, kpc, armed, found, expired, history>>

----------------------------------------------------------------------------
(* run.                                                                    *)

\* The timer is set for the next deadline.
Arm ==
    /\ kpc = "arm"
    /\ armed' = MaxOf(nextDeadline.at, now)
    /\ kpc' = "select"
    /\ UNCHANGED <<now, last, wake, closing, tpc, seen, found, expired, history>>

SelectClosing ==
    /\ kpc = "select" /\ closing
    /\ kpc' = "returned"
    /\ UNCHANGED <<now, last, wake, closing, tpc, seen, armed, found, expired, history>>

SelectWake ==
    /\ kpc = "select" /\ wake
    /\ wake' = FALSE
    /\ kpc' = "arm"
    /\ UNCHANGED <<now, last, closing, tpc, seen, armed, found, expired, history>>

SelectTimer ==
    /\ kpc = "select" /\ now >= armed
    /\ kpc' = "look"
    /\ UNCHANGED <<now, last, wake, closing, tpc, seen, armed, found, expired, history>>

\* A mutant: the tick of the timer is taken at its word.
TrustTimer ==
    /\ kpc = "look"
    /\ found' = [nextDeadline EXCEPT !.at = armed]
    /\ known' = latest
    /\ kpc' = "decide"
    /\ UNCHANGED <<now, last, wake, closing, tpc, seen, armed, expired, latest, overtaken>>

\* The deadline is computed again ...
LookAgain ==
    /\ kpc = "look"
    /\ found' = nextDeadline
    /\ known' = latest
    /\ kpc' = "decide"
    /\ UNCHANGED <<now, last, wake, closing, tpc, seen, armed, expired, latest, overtaken>>

\* ... and compared with the time.
Decide ==
    /\ kpc = "decide"
    /\ IF found.at <= now THEN kpc' = "returned" /\ expired' = found.kind
                          ELSE kpc' = "arm" /\ UNCHANGED expired
    /\ UNCHANGED <<now, last, wake, closing, tpc, seen, armed, found, history>>

----------------------------------------------------------------------------
Next ==
    \/ Tick \/ SessionCloses
    \/ \E t \in Touchers : ReadTime(t) \/ StoreTime(t) \/ Wake(t)
    \/ Arm \/ SelectClosing \/ SelectWake \/ SelectTimer \/ LookAgain \/ Decide

Runs == Arm \/ SelectClosing \/ SelectWake \/ LookAgain \/ Decide

\* Time passes and the clock's goroutine runs.  Its select chooses at random
\* among the branches that are ready, so a timer that has fired is not passed
\* over for ever in favour of the wake channel.
Fairness ==
    /\ WF_vars(Tick)
    /\ WF_vars(Runs)
    /\ SF_vars(SelectTimer)

Spec == Init /\ [][Next]_vars

FairSpec == Spec /\ Fairness

----------------------------------------------------------------------------
(* Properties                                                              *)

\* The timeout documentation: the expiry is revalidated, so no stale tick
\* closes a session on which there has been activity.  Here: the session is
\* closed as idle only if every activity stored before the clock looked again
\* is at least connectionIdle ago, and as too old only at its full age.  The
\* one exception is a store that overtakes another: touch stores the time it
\* read without comparing, and two goroutines that touch at once may leave the
\* older time in force.  No recorded time is ever ahead of the clock.
NoEarlyExpiry ==
    /\ TypeOK
    /\ expired = "idle" /\ ~ overtaken => now >= known + connectionIdle
    /\ expired = "lifetime" => now >= maxLifetime

\* The clock never sleeps past a deadline: while it waits in its select, its
\* timer is set no later than the deadline that is now in force, or a wake-up is
\* on its way.
NeverLate ==
    kpc = "select" => \/ armed <= MaxOf(nextDeadline.at, now)
                      \/ wake
                      \/ \E t \in Touchers : tpc[t] = "stored"

\* The session expires when it should: never early, and never late.
ExpiresOnTime == NoEarlyExpiry /\ NeverLate

\* With a lifetime limit no activity keeps the clock running: its goroutine
\* returns.
ClockReturns == maxLifetime > 0 => <>(kpc = "returned")
=============================================================================
