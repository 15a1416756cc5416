------------------------------- MODULE Poller -------------------------------
(***************************************************************************)
(* The native pollers: epoll.Poller, kqueue.Poller and iocp.Port.  The     *)
(* three share one design: every call that uses the native descriptor      *)
(* holds the read side of a sync.RWMutex, also while it blocks in the      *)
(* kernel, and Close interrupts the blocked call before it takes the write *)
(* side to release the descriptor.  They differ in how the kernel is       *)
(* interrupted: an eventfd that Wait drains itself (epoll), a user event   *)
(* the kernel clears when it reports it (kqueue), and one reserved         *)
(* completion packet for every blocked Get (iocp).                         *)
(*                                                                         *)
(* A goroutine is a waiter (Wait or Get), a caller (Wake, Add, Mod, Del,   *)
(* Apply, Associate, Post) or a closer (Close).  Every one may call again  *)
(* and again.  Time is counted in units, Milli units to the millisecond.   *)
(***************************************************************************)
EXTENDS Integers, Sequences, FiniteSets

CONSTANTS Kinds, Waiters, Callers, Closers,
          Timeouts,    \* the timeouts a Wait is called with; negative is infinite
          Milli,       \* units in one millisecond
          MaxMillis,   \* math.MaxInt32 for epoll, math.MaxUint32 - 1 for iocp
          MaxElapsed,  \* bound: how late an interrupted Wait may notice the time
          MaxPackets,  \* bound: application packets waiting in a port
          Nobody

ASSUME PollerAssumption ==
    /\ Kinds \subseteq {"epoll", "kqueue", "iocp"}
    /\ Timeouts \subseteq Int
    /\ Milli \in Nat \ {0} /\ MaxMillis \in Nat \ {0}
    /\ MaxElapsed \in Nat /\ MaxPackets \in Nat
    /\ Nobody \notin Closers
    /\ Waiters \cap Callers = {} /\ Waiters \cap Closers = {}
    /\ Callers \cap Closers = {}

Procs == Waiters \cup Callers \cup Closers

VARIABLES kind,      \* which of the three packages this is
          closed,    \* closed atomic.Bool
          fd,        \* the descriptor is open
          readers,   \* goroutines holding the read side of mu
          writer,    \* the goroutine in mu.Lock: no new reader enters
          waiting,   \* waiting atomic.Bool of epoll and kqueue
          waiters,   \* waiters atomic.Int32 of iocp
          wake,      \* the eventfd is readable, the user event is triggered
          port,      \* packets of the completion port
          posted,    \* reserved packets Close has posted
          snapshot,  \* waiters as Close has read it
          pc, timeout, elapsed,
          owed       \* history: a Wake that no Wait has answered yet

mutex == <<readers, writer>>
kernel == <<wake, port>>
clock == <<timeout, elapsed>>
vars == <<kind, closed, fd, mutex, waiting, waiters, kernel, posted, snapshot, pc, clock, owed>>

Goto(p, l) == pc' = [pc EXCEPT ![p] = l]

Init ==
    /\ kind \in Kinds
    /\ closed = FALSE /\ fd = TRUE
    /\ readers = {} /\ writer = Nobody
    /\ waiting = FALSE /\ waiters = 0
    /\ wake = FALSE /\ port = <<>> /\ posted = 0 /\ snapshot = 0
    /\ pc = [p \in Procs |-> "idle"]
    /\ timeout = [w \in Waiters |-> 0]
    /\ elapsed = [w \in Waiters |-> 0]
    /\ owed = FALSE

(***************************************************************************)
(* sync.RWMutex: a goroutine waiting in Lock keeps new readers out.        *)
(***************************************************************************)
RLock(p) == writer = Nobody /\ readers' = readers \cup {p} /\ UNCHANGED writer
RUnlock(p) == readers' = readers \ {p} /\ UNCHANGED writer

(***************************************************************************)
(* The timeout given to the kernel, in its own unit.                       *)
(***************************************************************************)
Ceil(n) == (n + Milli - 1) \div Milli
Infinite == IF kind = "iocp" THEN MaxMillis + 1 ELSE -1
Remaining(w) == timeout[w] - (IF kind = "iocp" THEN 0 ELSE elapsed[w])

\* A mutant: the remaining time is rounded down.
MillisRoundedDown(w) ==
    CASE timeout[w] < 0                       -> Infinite
      [] timeout[w] >= 0 /\ Remaining(w) <= 0 -> 0
      [] OTHER -> LET ms == Remaining(w) \div Milli
                  IN  IF ms > MaxMillis THEN MaxMillis ELSE ms

timeoutMillis(w) ==
    CASE timeout[w] < 0                       -> Infinite
      [] timeout[w] >= 0 /\ Remaining(w) <= 0 -> 0
      [] OTHER -> LET ms == Ceil(Remaining(w))
                  IN  IF ms > MaxMillis THEN MaxMillis ELSE ms

\* How long the kernel waits, in units: kevent takes nanoseconds, the other two
\* milliseconds.  Meaningless when it waits for ever.
WaitsForever(w) ==
    IF kind = "kqueue" THEN timeout[w] < 0 ELSE timeoutMillis(w) = Infinite
KernelWait(w) ==
    IF kind = "kqueue" THEN IF Remaining(w) > 0 THEN Remaining(w) ELSE 0
                       ELSE timeoutMillis(w) * Milli

(***************************************************************************)
(* Wait and Get.                                                           *)
(***************************************************************************)
native == <<kind, closed, fd>>
close == <<posted, snapshot>>

WaitRefused(w) == pc[w] = "idle" /\ closed /\ UNCHANGED vars

WaitBegins(w) ==
    /\ pc[w] = "idle" /\ ~closed
    /\ \E t \in Timeouts : timeout' = [timeout EXCEPT ![w] = t]
    /\ Goto(w, "claim")
    /\ UNCHANGED <<native, mutex, waiting, waiters, kernel, close, elapsed, owed>>

\* The call returns: its locals are gone.
Returns(w) ==
    /\ Goto(w, "idle")
    /\ timeout' = [timeout EXCEPT ![w] = 0]
    /\ elapsed' = [elapsed EXCEPT ![w] = 0]

\* ErrConcurrentWait.
WaitIsSecond(w) ==
    /\ pc[w] = "claim" /\ kind # "iocp" /\ waiting
    /\ Returns(w)
    /\ UNCHANGED <<native, mutex, waiting, waiters, kernel, close, owed>>

WaitClaims(w) ==
    /\ pc[w] = "claim"
    /\ IF kind = "iocp" THEN waiters' = waiters + 1 /\ UNCHANGED waiting
                        ELSE ~waiting /\ waiting' = TRUE /\ UNCHANGED waiters
    /\ Goto(w, "rlock")
    /\ UNCHANGED <<native, mutex, kernel, close, clock, owed>>

WaitLocks(w) ==
    /\ pc[w] = "rlock" /\ RLock(w)
    /\ Goto(w, "check")
    /\ UNCHANGED <<native, waiting, waiters, kernel, close, clock, owed>>

\* Blocked for ever or for a while.
Enters(w) == Goto(w, IF WaitsForever(w) THEN "forever" ELSE "kernel")
InKernel(w) == pc[w] \in {"kernel", "forever"}

\* A mutant: the reader enters the kernel without looking at closed again.
EntersUnchecked(w) ==
    /\ pc[w] = "check"
    /\ Enters(w) /\ UNCHANGED mutex
    /\ UNCHANGED <<native, waiting, waiters, kernel, close, clock, owed>>

\* A mutant: a stale wake event is cleared before the kernel is entered.
DrainsFirst(w) ==
    /\ pc[w] = "check"
    /\ IF closed THEN RUnlock(w) /\ Goto(w, "leave") /\ UNCHANGED wake
                 ELSE Enters(w) /\ wake' = FALSE /\ UNCHANGED mutex
    /\ UNCHANGED <<native, waiting, waiters, port, close, clock, owed>>

WaitChecks(w) ==
    /\ pc[w] = "check"
    /\ IF closed THEN RUnlock(w) /\ Goto(w, "leave")
                 ELSE Enters(w) /\ UNCHANGED mutex
    /\ UNCHANGED <<native, waiting, waiters, kernel, close, clock, owed>>

\* The kernel reports events of the caller's descriptors, or fails.  epoll may
\* leave the wake event out when dst is full.
KernelReports(w) ==
    /\ InKernel(w) /\ kind # "iocp"
    /\ Goto(w, "unlock")
    /\ UNCHANGED <<native, mutex, waiting, waiters, kernel, close, clock, owed>>

\* The wake event is among the reported ones; kqueue has cleared it (EV_CLEAR).
KernelWakes(w) ==
    /\ InKernel(w) /\ wake
    /\ IF kind = "epoll" THEN Goto(w, "drain") /\ UNCHANGED wake
                         ELSE Goto(w, "unlock") /\ wake' = FALSE
    /\ UNCHANGED <<native, mutex, waiting, waiters, port, close, clock, owed>>

drainWake(w) ==
    /\ pc[w] = "drain"
    /\ wake' = FALSE
    /\ Goto(w, "unlock")
    /\ UNCHANGED <<native, mutex, waiting, waiters, port, close, clock, owed>>

\* GetQueuedCompletionStatus takes the oldest packet.
KernelDequeues(w) ==
    /\ InKernel(w) /\ port # <<>>
    /\ port' = Tail(port)
    /\ Goto(w, "unlock")
    /\ UNCHANGED <<native, mutex, waiting, waiters, wake, close, clock, owed>>

Quiet == ~wake /\ port = <<>>

KernelTimesOut(w) ==
    /\ pc[w] = "kernel" /\ Quiet
    /\ elapsed' = [elapsed EXCEPT ![w] = @ + KernelWait(w)]
    /\ Goto(w, "expired")
    /\ UNCHANGED <<native, mutex, waiting, waiters, kernel, close, timeout, owed>>

\* EINTR: some of the time is gone, for a finite timeout perhaps all of it.
KernelInterrupted(w) ==
    /\ InKernel(w) /\ Quiet /\ kind # "iocp"
    /\ \E e \in elapsed[w] .. (IF timeout[w] < 0 THEN elapsed[w] ELSE MaxElapsed) :
          elapsed' = [elapsed EXCEPT ![w] = e]
    /\ Goto(w, "interrupted")
    /\ UNCHANGED <<native, mutex, waiting, waiters, kernel, close, timeout, owed>>

WaitUnlocks(w) ==
    /\ pc[w] \in {"unlock", "expired", "interrupted"}
    /\ RUnlock(w)
    /\ Goto(w, IF pc[w] = "interrupted" THEN "again" ELSE "leave")
    /\ UNCHANGED <<native, waiting, waiters, kernel, close, clock, owed>>

WaitRetries(w) ==
    /\ pc[w] = "again"
    /\ Goto(w, IF closed \/ (timeout[w] >= 0 /\ elapsed[w] >= timeout[w])
               THEN "leave" ELSE "rlock")
    /\ UNCHANGED <<native, mutex, waiting, waiters, kernel, close, clock, owed>>

WaitLeaves(w) ==
    /\ pc[w] = "leave"
    /\ IF kind = "iocp" THEN waiters' = waiters - 1 /\ UNCHANGED waiting
                        ELSE waiting' = FALSE /\ UNCHANGED waiters
    /\ owed' = FALSE
    /\ Returns(w)
    /\ UNCHANGED <<native, mutex, kernel, close>>

WaitStep(w) ==
    \/ WaitIsSecond(w) \/ WaitClaims(w) \/ WaitLocks(w) \/ WaitChecks(w)
    \/ KernelWakes(w) \/ drainWake(w) \/ KernelDequeues(w)
    \/ WaitUnlocks(w) \/ WaitRetries(w) \/ WaitLeaves(w)

Environment(w) ==
    KernelReports(w) \/ KernelTimesOut(w) \/ KernelInterrupted(w)

(***************************************************************************)
(* Wake, Add, Mod, Del, Apply, Associate and Post.                         *)
(***************************************************************************)
CallBegins(k) ==
    /\ pc[k] = "idle"
    /\ Goto(k, "rlock")
    /\ UNCHANGED <<native, mutex, waiting, waiters, kernel, close, clock, owed>>

CallLocks(k) ==
    /\ pc[k] = "rlock" /\ RLock(k)
    /\ Goto(k, "check")
    /\ UNCHANGED <<native, waiting, waiters, kernel, close, clock, owed>>

CallChecks(k) ==
    /\ pc[k] = "check"
    /\ Goto(k, IF closed THEN "unlock" ELSE "syscall")
    /\ UNCHANGED <<native, mutex, waiting, waiters, kernel, close, clock, owed>>

Wake(k) ==
    /\ pc[k] = "syscall" /\ kind # "iocp"
    /\ wake' = TRUE /\ owed' = TRUE
    /\ Goto(k, "unlock")
    /\ UNCHANGED <<native, mutex, waiting, waiters, port, close, clock>>

Post(k) ==
    /\ pc[k] = "syscall" /\ kind = "iocp" /\ Len(port) < MaxPackets
    /\ port' = Append(port, "application")
    /\ Goto(k, "unlock")
    /\ UNCHANGED <<native, mutex, waiting, waiters, wake, close, clock, owed>>

\* Add, Mod, Del, Apply, Associate: a system call on the descriptor.
ctl(k) ==
    /\ pc[k] = "syscall"
    /\ Goto(k, "unlock")
    /\ UNCHANGED <<native, mutex, waiting, waiters, kernel, close, clock, owed>>

CallUnlocks(k) ==
    /\ pc[k] = "unlock" /\ RUnlock(k)
    /\ Goto(k, "idle")
    /\ UNCHANGED <<native, waiting, waiters, kernel, close, clock, owed>>

CallStep(k) ==
    CallLocks(k) \/ CallChecks(k) \/ Wake(k) \/ Post(k) \/ ctl(k) \/ CallUnlocks(k)

(***************************************************************************)
(* Close.                                                                  *)
(***************************************************************************)
\* The call that loses the compare-and-swap returns nil at once.
CloseIsSecond(c) == pc[c] = "idle" /\ closed /\ UNCHANGED vars

CloseBegins(c) ==
    /\ pc[c] = "idle" /\ ~closed
    /\ closed' = TRUE
    /\ Goto(c, "signal")
    /\ UNCHANGED <<kind, fd, mutex, waiting, waiters, kernel, close, clock, owed>>

CloseSignals(c) ==
    /\ pc[c] = "signal"
    /\ IF kind = "iocp"
       THEN /\ snapshot' = waiters /\ UNCHANGED wake
            /\ Goto(c, "post")
       ELSE /\ wake' = TRUE /\ UNCHANGED snapshot
            /\ Goto(c, "lock")
    /\ UNCHANGED <<native, mutex, waiting, waiters, port, posted, clock, owed>>

\* A mutant: the loop reads the counter again before every packet.
PostAgain == posted < waiters
PostAnother == posted < snapshot

ClosePosts(c) ==
    /\ pc[c] = "post"
    /\ IF PostAnother
       THEN /\ port' = Append(port, "reserved") /\ posted' = posted + 1
            /\ UNCHANGED pc
       ELSE Goto(c, "lock") /\ UNCHANGED <<port, posted>>
    /\ UNCHANGED <<native, mutex, waiting, waiters, wake, snapshot, clock, owed>>

CloseLocks(c) ==
    /\ pc[c] = "lock" /\ writer = Nobody
    /\ writer' = c
    /\ Goto(c, "locked")
    /\ UNCHANGED <<native, readers, waiting, waiters, kernel, close, clock, owed>>

\* The readers are gone: the descriptors are closed and mu is released.
CloseReleases(c) ==
    /\ pc[c] = "locked" /\ readers = {}
    /\ fd' = FALSE /\ writer' = Nobody
    /\ wake' = FALSE /\ port' = <<>>
    /\ Goto(c, "idle")
    /\ UNCHANGED <<kind, closed, readers, waiting, waiters, close, clock, owed>>

CloseStep(c) ==
    CloseSignals(c) \/ ClosePosts(c) \/ CloseLocks(c) \/ CloseReleases(c)

-----------------------------------------------------------------------------
Next ==
    \/ \E w \in Waiters :
          WaitRefused(w) \/ WaitBegins(w) \/ WaitStep(w) \/ Environment(w)
    \/ \E k \in Callers : CallBegins(k) \/ CallStep(k)
    \/ \E c \in Closers : CloseIsSecond(c) \/ CloseBegins(c) \/ CloseStep(c)

Spec == Init /\ [][Next]_vars

\* A goroutine that can run runs, and the kernel reports an event it has.
Fairness ==
    /\ \A w \in Waiters : WF_vars(WaitStep(w))
    /\ \A k \in Callers : WF_vars(CallStep(k))
    /\ \A c \in Closers : WF_vars(CloseStep(c))

FairSpec == Spec /\ Fairness

-----------------------------------------------------------------------------
TypeOK ==
    /\ kind \in Kinds /\ closed \in BOOLEAN /\ fd \in BOOLEAN
    /\ readers \subseteq Procs /\ writer \in Closers \cup {Nobody}
    /\ waiting \in BOOLEAN /\ waiters \in 0 .. Cardinality(Waiters)
    /\ wake \in BOOLEAN /\ owed \in BOOLEAN
    /\ posted \in Nat /\ snapshot \in Nat

\* No goroutine issues a system call on a descriptor that Close has already
\* released: the kernel may have given its number to another file by then.
\* "native descriptors cannot be reused while a method is still issuing a
\* syscall" (epoll_linux.go, the comment on Poller).
NoUseAfterClose ==
    \A p \in Procs :
        pc[p] \in {"kernel", "forever", "drain", "syscall", "signal", "post"} => fd

\* A Wake that returned is never lost: until a Wait has returned for it, the
\* wake event is still pending in the kernel or a Wait is already on its way
\* out.  Wait clears the event by itself, in a step of its own, so a Wake may
\* fall between the report and the clearing.
WakeIsAnswered ==
    owed /\ fd => \/ wake
                  \/ \E w \in Waiters : pc[w] \in {"unlock", "expired", "leave"}

\* A Wait that reports a timeout has waited at least as long as it was asked
\* to, however often a signal interrupted it, and a finite timeout never turns
\* into an infinite wait.  A timeout beyond what the kernel can count is cut to
\* the largest it can.
NeverEarly ==
    \A w \in Waiters :
        /\ pc[w] = "expired" =>
              /\ timeout[w] >= 0
              /\ \/ elapsed[w] >= timeout[w]
                 \/ kind # "kqueue" /\ elapsed[w] >= MaxMillis * Milli
        /\ pc[w] = "forever" => timeout[w] < 0

\* Close always gets the write lock and releases the descriptor, whoever is
\* blocked in the kernel with the read lock held: every blocked Wait or Get is
\* interrupted.
CloseGetsThrough == closed ~> ~fd
====
