---------------------------- MODULE PollerProofs ----------------------------
(***************************************************************************)
(* Proofs about Poller for any number of goroutines, any timeouts and any  *)
(* resolution and range of the kernel's clock.                             *)
(***************************************************************************)
EXTENDS Poller, TLAPS

\* Where a goroutine holds the read side of mu, and where it uses the descriptor.
Inside == {"check", "kernel", "forever", "drain", "unlock", "expired", "interrupted", "syscall"}
Using == {"kernel", "forever", "drain", "syscall"}

\* Where the Close that won the compare-and-swap is.
Closing == {"signal", "post", "lock", "locked"}

Labels == Inside \cup Closing \cup {"idle", "claim", "rlock", "again", "leave"}

Typed ==
    /\ closed \in BOOLEAN /\ fd \in BOOLEAN
    /\ pc \in [Procs -> Labels]

\* The inductive invariant behind NoUseAfterClose: a goroutine between RLock and
\* RUnlock is among the readers, there is one Close at work, and the descriptor is
\* released only after closed is set and when nobody is inside.
IInv ==
    /\ Typed
    /\ \A p \in Procs : pc[p] \in Inside => p \in readers
    /\ \A p \in Procs : pc[p] \in Closing => closed /\ fd
    /\ \A p, q \in Procs : pc[p] \in Closing /\ pc[q] \in Closing => p = q
    /\ ~fd => closed /\ \A p \in Procs : pc[p] \notin Using

LEMMA InitIInv == Init => IInv
  BY DEF Init, IInv, Typed, Labels, Inside, Using, Closing

\* A step in which p goes from one label to another and takes nothing else that
\* the invariant reads.
LEMMA MoveIInv ==
    ASSUME IInv, NEW p \in Procs, NEW label \in Labels \ Closing,
           pc' = [pc EXCEPT ![p] = label], UNCHANGED <<closed, fd>>,
           pc[p] \notin Closing,
           \A q \in Procs \ {p} : q \in readers => q \in readers',
           label \in Inside => p \in readers',
           label \in Using => fd
    PROVE  IInv'
  BY DEF IInv, Typed, Labels, Inside, Using, Closing

LEMMA WaitIInv ==
    ASSUME IInv, NEW w \in Waiters, WaitBegins(w) \/ WaitStep(w) \/ Environment(w)
    PROVE  IInv'
  <1> w \in Procs
    BY DEF Procs
  <1> USE DEF Inside, Using, Closing, Labels
  <1>1. CASE WaitBegins(w) \/ WaitIsSecond(w) \/ WaitClaims(w) \/ WaitRetries(w) \/ WaitLeaves(w)
    <2>1. PICK label \in {"idle", "claim", "rlock", "leave"} : pc' = [pc EXCEPT ![w] = label]
      BY <1>1 DEF WaitBegins, WaitIsSecond, WaitClaims, WaitRetries, WaitLeaves, Returns, Goto
    <2>2. /\ UNCHANGED <<closed, fd, readers>>
          /\ pc[w] \in {"idle", "claim", "again", "leave"}
      BY <1>1 DEF WaitBegins, WaitIsSecond, WaitClaims, WaitRetries, WaitLeaves, native, mutex
    <2> QED BY <2>1, <2>2, MoveIInv
  <1>2. CASE WaitLocks(w)
    BY <1>2, MoveIInv DEF WaitLocks, RLock, Goto, native
  <1>3. CASE WaitChecks(w)
    <2>1. /\ UNCHANGED <<closed, fd>> /\ pc[w] = "check" /\ w \in readers
          /\ readers' \in {readers, readers \ {w}}
      BY <1>3 DEF WaitChecks, RUnlock, mutex, native, IInv
    <2>2. CASE closed
      BY <1>3, <2>1, <2>2, MoveIInv DEF WaitChecks, Goto
    <2>3. CASE ~closed
      <3>1. PICK label \in {"kernel", "forever"} : pc' = [pc EXCEPT ![w] = label]
        BY <1>3, <2>3 DEF WaitChecks, Enters, Goto
      <3>2. readers' = readers /\ fd
        BY <1>3, <2>3 DEF WaitChecks, mutex, IInv, Typed
      <3> QED BY <2>1, <3>1, <3>2, MoveIInv
    <2> QED BY <2>2, <2>3
  <1>4. CASE KernelReports(w) \/ KernelWakes(w) \/ drainWake(w) \/ KernelDequeues(w)
             \/ KernelTimesOut(w) \/ KernelInterrupted(w)
    <2>1. PICK label \in {"unlock", "drain", "expired", "interrupted"} :
              pc' = [pc EXCEPT ![w] = label]
      BY <1>4 DEF KernelReports, KernelWakes, drainWake, KernelDequeues, KernelTimesOut,
                  KernelInterrupted, Goto
    <2>2. UNCHANGED <<closed, fd, readers>> /\ pc[w] \in {"kernel", "forever", "drain"}
      BY <1>4 DEF KernelReports, KernelWakes, drainWake, KernelDequeues, KernelTimesOut,
                  KernelInterrupted, InKernel, native, mutex
    <2>3. w \in readers /\ fd
      BY <2>2 DEF IInv, Typed
    <2> QED BY <2>1, <2>2, <2>3, MoveIInv
  <1>5. CASE WaitUnlocks(w)
    <2>1. PICK label \in {"again", "leave"} : pc' = [pc EXCEPT ![w] = label]
      BY <1>5 DEF WaitUnlocks, Goto
    <2>2. /\ UNCHANGED <<closed, fd>> /\ readers' = readers \ {w}
          /\ pc[w] \in {"unlock", "expired", "interrupted"}
      BY <1>5 DEF WaitUnlocks, RUnlock, native
    <2> QED BY <2>1, <2>2, MoveIInv
  <1> QED BY <1>1, <1>2, <1>3, <1>4, <1>5 DEF WaitStep, Environment

LEMMA CallIInv ==
    ASSUME IInv, NEW k \in Callers, CallBegins(k) \/ CallStep(k)
    PROVE  IInv'
  <1> k \in Procs
    BY DEF Procs
  <1> USE DEF Inside, Using, Closing, Labels
  <1>1. CASE CallBegins(k)
    BY <1>1, MoveIInv DEF CallBegins, Goto, native, mutex
  <1>2. CASE CallLocks(k)
    BY <1>2, MoveIInv DEF CallLocks, RLock, Goto, native
  <1>3. CASE CallChecks(k)
    <2>1. /\ pc' = [pc EXCEPT ![k] = IF closed THEN "unlock" ELSE "syscall"]
          /\ UNCHANGED <<closed, fd, readers>> /\ pc[k] = "check"
      BY <1>3 DEF CallChecks, Goto, native, mutex
    <2>2. k \in readers /\ (~closed => fd)
      BY <2>1 DEF IInv, Typed
    <2> QED BY <2>1, <2>2, MoveIInv
  <1>4. CASE Wake(k) \/ Post(k) \/ ctl(k)
    <2>1. /\ pc' = [pc EXCEPT ![k] = "unlock"]
          /\ UNCHANGED <<closed, fd, readers>> /\ pc[k] = "syscall"
      BY <1>4 DEF Wake, Post, ctl, Goto, native, mutex
    <2>2. k \in readers
      BY <2>1 DEF IInv
    <2> QED BY <2>1, <2>2, MoveIInv
  <1>5. CASE CallUnlocks(k)
    BY <1>5, MoveIInv DEF CallUnlocks, RUnlock, Goto, native
  <1> QED BY <1>1, <1>2, <1>3, <1>4, <1>5 DEF CallStep

LEMMA CloseIInv ==
    ASSUME IInv, NEW c \in Closers, CloseBegins(c) \/ CloseStep(c)
    PROVE  IInv'
  <1> c \in Procs
    BY DEF Procs
  <1> USE DEF Inside, Using, Closing, Labels
  <1>1. CASE CloseBegins(c)
    <2>1. /\ pc' = [pc EXCEPT ![c] = "signal"] /\ ~closed /\ closed' = TRUE
          /\ UNCHANGED <<fd, readers>>
      BY <1>1 DEF CloseBegins, Goto, mutex
    <2>2. fd /\ \A p \in Procs : pc[p] \notin Closing
      BY <2>1 DEF IInv, Typed
    <2> QED BY <2>1, <2>2 DEF IInv, Typed
  <1>2. CASE CloseSignals(c) \/ ClosePosts(c) \/ CloseLocks(c)
    <2>1. /\ UNCHANGED <<closed, fd, readers>> /\ pc[c] \in Closing
          /\ pc' = pc \/ \E label \in Closing : pc' = [pc EXCEPT ![c] = label]
      BY <1>2 DEF CloseSignals, ClosePosts, CloseLocks, Goto, native, mutex
    <2> QED BY <2>1 DEF IInv, Typed
  <1>3. CASE CloseReleases(c)
    <2>1. /\ pc' = [pc EXCEPT ![c] = "idle"] /\ pc[c] = "locked"
          /\ readers = {} /\ readers' = {} /\ fd' = FALSE /\ closed' = closed
      BY <1>3 DEF CloseReleases, Goto
    <2>2. closed /\ \A p \in Procs : pc[p] \notin Inside /\ (pc[p] \in Closing => p = c)
      BY <2>1 DEF IInv
    <2> QED BY <2>1, <2>2 DEF IInv, Typed
  <1> QED BY <1>1, <1>2, <1>3 DEF CloseStep

LEMMA NextIInv == IInv /\ [Next]_vars => IInv'
  <1> SUFFICES ASSUME IInv, [Next]_vars PROVE IInv'
    OBVIOUS
  <1>1. ASSUME NEW w \in Waiters, WaitRefused(w) \/ WaitBegins(w) \/ WaitStep(w) \/ Environment(w)
        PROVE  IInv' \/ UNCHANGED vars
    BY <1>1, WaitIInv DEF WaitRefused
  <1>2. ASSUME NEW k \in Callers, CallBegins(k) \/ CallStep(k)
        PROVE  IInv'
    BY <1>2, CallIInv
  <1>3. ASSUME NEW c \in Closers, CloseIsSecond(c) \/ CloseBegins(c) \/ CloseStep(c)
        PROVE  IInv' \/ UNCHANGED vars
    BY <1>3, CloseIInv DEF CloseIsSecond
  <1>4. CASE UNCHANGED vars
    BY <1>4 DEF vars, mutex, IInv, Typed
  <1> QED BY <1>1, <1>2, <1>3, <1>4 DEF Next

\* The comment on epoll.Poller, for all three pollers and any number of
\* goroutines: no method issues a system call on a descriptor that Close has
\* released, whenever Close comes.
THEOREM NeverUsedAfterClose == Spec => []NoUseAfterClose
  <1>1. IInv => NoUseAfterClose
    BY DEF IInv, Typed, NoUseAfterClose, Using, Closing
  <1> QED BY <1>1, InitIInv, NextIInv, PTL DEF Spec

----------------------------------------------------------------------------
(* The time a Wait waits.                                                  *)

Timed ==
    /\ kind \in Kinds
    /\ timeout \in [Waiters -> Int]
    /\ elapsed \in [Waiters -> Nat]

\* Rounding up to milliseconds never cuts a wait short.
LEMMA CeilCovers ==
    ASSUME NEW n \in Nat PROVE Ceil(n) \in Nat /\ Ceil(n) * Milli >= n
  <1>1. \A a \in Nat, m \in Nat \ {0} : a \div m \in Nat /\ a < m * (a \div m) + m
    OBVIOUS
  <1>2. Milli \in Nat \ {0}
    BY PollerAssumption
  <1>3. n + Milli - 1 \in Nat
    BY <1>2
  <1>4. Ceil(n) \in Nat /\ n + Milli - 1 < Milli * Ceil(n) + Milli
    BY <1>1, <1>2, <1>3 DEF Ceil
  <1>5. Milli * Ceil(n) = Ceil(n) * Milli /\ Milli * Ceil(n) \in Nat
    BY <1>2, <1>4
  <1>6. \A x \in Nat : n + Milli - 1 < x + Milli => x >= n
    BY <1>2
  <1> QED BY <1>4, <1>5, <1>6

\* The kernel is told to wait for ever just when Wait was.
LEMMA ForeverExact ==
    ASSUME Timed, NEW w \in Waiters PROVE WaitsForever(w) <=> timeout[w] < 0
  <1>1. CASE timeout[w] < 0
    BY <1>1 DEF Timed, WaitsForever, timeoutMillis
  <1>2. CASE timeout[w] >= 0
    <2>1. timeoutMillis(w) \in 0 .. MaxMillis
      <3>1. CASE Remaining(w) <= 0
        BY <1>2, <3>1, PollerAssumption DEF Timed, timeoutMillis
      <3>2. CASE Remaining(w) > 0
        <4>1. Remaining(w) \in Nat
          BY <3>2 DEF Timed, Remaining
        <4>2. Ceil(Remaining(w)) \in Nat
          BY <4>1, CeilCovers
        <4> QED BY <1>2, <3>2, <4>1, <4>2, PollerAssumption DEF Timed, timeoutMillis
      <3> QED BY <3>1, <3>2 DEF Timed, Remaining
    <2>2. Infinite \notin 0 .. MaxMillis
      BY PollerAssumption DEF Infinite
    <2> QED BY <1>2, <2>1, <2>2 DEF WaitsForever, Timed
  <1> QED BY <1>1, <1>2 DEF Timed

\* When the kernel's timeout is over, Wait has waited for its own, or for the
\* longest time the kernel can count.
LEMMA KernelWaitCovers ==
    ASSUME Timed, NEW w \in Waiters, timeout[w] >= 0
    PROVE  /\ KernelWait(w) \in Nat
           /\ \/ elapsed[w] + KernelWait(w) >= timeout[w]
              \/ kind # "kqueue" /\ elapsed[w] + KernelWait(w) >= MaxMillis * Milli
  <1>1. timeout[w] \in Nat /\ elapsed[w] \in Nat /\ Remaining(w) \in Int
        /\ Remaining(w) >= timeout[w] - elapsed[w]
        /\ MaxMillis \in Nat /\ Milli \in Nat /\ MaxMillis * Milli \in Nat
    BY PollerAssumption DEF Timed, Remaining
  <1>2. CASE kind = "kqueue"
    BY <1>1, <1>2 DEF KernelWait
  <1>3. CASE kind # "kqueue" /\ Remaining(w) <= 0
    <2>1. timeoutMillis(w) = 0
      BY <1>1, <1>3 DEF timeoutMillis
    <2>2. KernelWait(w) = 0
      BY <1>1, <1>3, <2>1 DEF KernelWait
    <2> QED BY <1>1, <1>3, <2>2
  <1>4. CASE kind # "kqueue" /\ Remaining(w) > 0
    <2> DEFINE c == Ceil(Remaining(w))
    <2>1. c \in Nat /\ c * Milli \in Nat /\ c * Milli >= Remaining(w)
      <3>1. c \in Nat /\ c * Milli >= Remaining(w)
        BY <1>1, <1>4, CeilCovers
      <3> QED BY <1>1, <3>1
    <2>2. timeoutMillis(w) = IF c > MaxMillis THEN MaxMillis ELSE c
      BY <1>1, <1>4 DEF timeoutMillis
    <2>3. KernelWait(w) = timeoutMillis(w) * Milli
      BY <1>4 DEF KernelWait
    <2> HIDE DEF c
    <2>4. KernelWait(w) = IF c > MaxMillis THEN MaxMillis * Milli ELSE c * Milli
      BY <2>2, <2>3
    <2> QED BY <1>1, <1>4, <2>1, <2>4
  <1> QED BY <1>1, <1>2, <1>3, <1>4

\* The inductive invariant behind NeverEarly: a Wait that the kernel will wake by
\* its timeout has one.
TInv ==
    /\ Timed
    /\ NeverEarly
    /\ \A w \in Waiters : pc[w] = "kernel" => timeout[w] >= 0

LEMMA InitTInv == Init => TInv
  BY DEF Init, TInv, Timed, NeverEarly, Procs

\* A step that leaves a waiter alone, or at a label that says nothing of time.
LEMMA MoveTInv ==
    ASSUME TInv, Typed, NEW p \in Procs, NEW label,
           pc' = [pc EXCEPT ![p] = label],
           label \notin {"expired", "forever", "kernel"}, kind' = kind,
           \A w \in Waiters \ {p} : timeout'[w] = timeout[w] /\ elapsed'[w] = elapsed[w],
           timeout' \in [Waiters -> Int], elapsed' \in [Waiters -> Nat]
    PROVE  TInv'
  BY DEF TInv, Timed, NeverEarly, Typed, Procs

LEMMA WaitTInv ==
    ASSUME TInv, Typed, NEW w \in Waiters, WaitBegins(w) \/ WaitStep(w) \/ Environment(w)
    PROVE  TInv'
  <1> w \in Procs
    BY DEF Procs
  <1>1. CASE WaitBegins(w) \/ WaitIsSecond(w) \/ WaitLeaves(w)
    <2>1. PICK label \in {"idle", "claim"} : pc' = [pc EXCEPT ![w] = label]
      BY <1>1 DEF WaitBegins, WaitIsSecond, WaitLeaves, Returns, Goto
    <2>2. kind' = kind
      BY <1>1 DEF WaitBegins, WaitIsSecond, WaitLeaves, native
    <2>3. /\ \E t \in Int : timeout' = [timeout EXCEPT ![w] = t]
          /\ elapsed' = elapsed \/ elapsed' = [elapsed EXCEPT ![w] = 0]
      BY <1>1, PollerAssumption DEF WaitBegins, WaitIsSecond, WaitLeaves, Returns
    <2>4. /\ timeout' \in [Waiters -> Int] /\ elapsed' \in [Waiters -> Nat]
          /\ \A v \in Waiters \ {w} : timeout'[v] = timeout[v] /\ elapsed'[v] = elapsed[v]
      BY <2>3 DEF TInv, Timed
    <2> QED BY <2>1, <2>2, <2>4, MoveTInv
  <1>2. CASE \/ WaitClaims(w) \/ WaitLocks(w) \/ KernelReports(w) \/ KernelWakes(w) \/ drainWake(w)
             \/ KernelDequeues(w) \/ WaitUnlocks(w) \/ WaitRetries(w)
    <2>1. PICK label \in {"rlock", "check", "unlock", "drain", "again", "leave"} :
              pc' = [pc EXCEPT ![w] = label]
      BY <1>2 DEF WaitClaims, WaitLocks, KernelReports, KernelWakes, drainWake, KernelDequeues,
                  WaitUnlocks, WaitRetries, Goto
    <2>2. UNCHANGED <<kind, timeout, elapsed>>
      BY <1>2 DEF WaitClaims, WaitLocks, KernelReports, KernelWakes, drainWake, KernelDequeues,
                  WaitUnlocks, WaitRetries, native, clock
    <2> QED BY <2>1, <2>2, MoveTInv DEF TInv, Timed
  <1>3. CASE WaitChecks(w)
    <2>1. UNCHANGED <<kind, timeout, elapsed>>
      BY <1>3 DEF WaitChecks, native, clock
    <2>2. CASE closed
      BY <1>3, <2>1, <2>2, MoveTInv DEF WaitChecks, Goto, TInv, Timed
    <2>3. CASE ~closed
      <3>1. pc' = [pc EXCEPT ![w] = IF timeout[w] < 0 THEN "forever" ELSE "kernel"]
        BY <1>3, <2>3, ForeverExact DEF WaitChecks, Enters, Goto, TInv
      <3> QED BY <2>1, <3>1 DEF TInv, Timed, NeverEarly, Typed
    <2> QED BY <2>2, <2>3
  <1>4. CASE KernelTimesOut(w)
    <2>1. /\ pc' = [pc EXCEPT ![w] = "expired"] /\ UNCHANGED <<kind, timeout>>
          /\ elapsed' = [elapsed EXCEPT ![w] = @ + KernelWait(w)]
          /\ timeout[w] >= 0
      BY <1>4 DEF KernelTimesOut, Goto, native, TInv
    <2>2. /\ KernelWait(w) \in Nat
          /\ \/ elapsed[w] + KernelWait(w) >= timeout[w]
             \/ kind # "kqueue" /\ elapsed[w] + KernelWait(w) >= MaxMillis * Milli
      BY <2>1, KernelWaitCovers DEF TInv
    <2>3. elapsed' \in [Waiters -> Nat]
      BY <2>1, <2>2 DEF TInv, Timed
    <2>4. \A v \in Waiters \ {w} : elapsed'[v] = elapsed[v] /\ pc'[v] = pc[v]
      BY <2>1 DEF TInv, Timed, Typed, Procs
    <2>5. pc'[w] = "expired" /\ elapsed'[w] = elapsed[w] + KernelWait(w)
      BY <2>1 DEF TInv, Timed, Typed
    <2> QED BY <2>1, <2>2, <2>3, <2>4, <2>5 DEF TInv, Timed, NeverEarly
  <1>5. CASE KernelInterrupted(w)
    <2>1. pc' = [pc EXCEPT ![w] = "interrupted"] /\ UNCHANGED <<kind, timeout>>
      BY <1>5 DEF KernelInterrupted, Goto, native
    <2>2. PICK e \in elapsed[w] .. (IF timeout[w] < 0 THEN elapsed[w] ELSE MaxElapsed) :
              elapsed' = [elapsed EXCEPT ![w] = e]
      BY <1>5 DEF KernelInterrupted
    <2>3. e \in Nat
      BY <2>2, PollerAssumption DEF TInv, Timed
    <2>4. /\ elapsed' \in [Waiters -> Nat]
          /\ \A v \in Waiters \ {w} : elapsed'[v] = elapsed[v]
      BY <2>2, <2>3 DEF TInv, Timed
    <2> QED BY <2>1, <2>4, MoveTInv DEF TInv, Timed
  <1> QED BY <1>1, <1>2, <1>3, <1>4, <1>5 DEF WaitStep, Environment

LEMMA NextTInv == TInv /\ Typed /\ [Next]_vars => TInv'
  <1> SUFFICES ASSUME TInv, Typed, [Next]_vars PROVE TInv'
    OBVIOUS
  <1>1. ASSUME NEW w \in Waiters, WaitRefused(w) \/ WaitBegins(w) \/ WaitStep(w) \/ Environment(w)
        PROVE  TInv' \/ UNCHANGED vars
    BY <1>1, WaitTInv DEF WaitRefused
  <1>2. ASSUME NEW p \in Procs,
               \/ p \in Callers /\ (CallBegins(p) \/ CallStep(p))
               \/ p \in Closers /\ (CloseBegins(p) \/ CloseStep(p))
        PROVE  TInv'
    <2>1. /\ UNCHANGED <<kind, timeout, elapsed>>
          /\ \/ pc' = pc
             \/ \E label \in Labels \ {"expired", "forever", "kernel"} : pc' = [pc EXCEPT ![p] = label]
      BY <1>2 DEF CallBegins, CallStep, CallLocks, CallChecks, Wake, Post, ctl, CallUnlocks,
                  CloseBegins, CloseStep, CloseSignals, ClosePosts, CloseLocks, CloseReleases,
                  Goto, native, clock, Labels, Inside, Closing
    <2>2. CASE pc' = pc
      BY <2>1, <2>2 DEF TInv, Timed, NeverEarly
    <2>3. ASSUME NEW label \in Labels \ {"expired", "forever", "kernel"},
                 pc' = [pc EXCEPT ![p] = label]
          PROVE  TInv'
      BY <2>1, <2>3, MoveTInv DEF TInv, Timed
    <2> QED BY <2>1, <2>2, <2>3
  <1>3. ASSUME NEW c \in Closers, CloseIsSecond(c) \/ CloseBegins(c) \/ CloseStep(c)
        PROVE  TInv' \/ UNCHANGED vars
    BY <1>2, <1>3 DEF CloseIsSecond, Procs
  <1>4. CASE UNCHANGED vars
    BY <1>4 DEF vars, clock, TInv, Timed, NeverEarly
  <1> QED BY <1>1, <1>2, <1>3, <1>4 DEF Next, Procs

\* Wait and Get report a timeout only when it is over, or when they have waited
\* for the longest time the kernel can count, for every timeout, every unit of
\* the kernel's clock and any number of interruptions (timeoutMillis).
THEOREM NeverReturnsEarly == Spec => []NeverEarly
  <1>1. IInv => Typed
    BY DEF IInv
  <1>2. TInv => NeverEarly
    BY DEF TInv
  <1> QED BY <1>1, <1>2, InitIInv, NextIInv, InitTInv, NextTInv, PTL DEF Spec

----------------------------------------------------------------------------
(* Wake.                                                                   *)

Leaving == {"unlock", "expired", "leave"}

\* A step that forgets no wake event, and in which a Wait on its way out stays on
\* it.
LEMMA MoveAnswered ==
    ASSUME WakeIsAnswered, Typed, NEW p \in Procs, NEW label,
           pc' = [pc EXCEPT ![p] = label], fd' = fd,
           owed' => owed \/ wake',
           \/ wake => wake'
           \/ p \in Waiters /\ label \in Leaving,
           p \in Waiters /\ pc[p] \in Leaving => label \in Leaving
    PROVE  WakeIsAnswered'
  BY DEF WakeIsAnswered, Typed, Leaving, Procs

LEMMA WaitAnswered ==
    ASSUME WakeIsAnswered, Typed, NEW w \in Waiters,
           WaitBegins(w) \/ WaitStep(w) \/ Environment(w)
    PROVE  WakeIsAnswered'
  <1> w \in Procs
    BY DEF Procs
  <1>1. CASE WaitLeaves(w)
    BY <1>1 DEF WaitLeaves, WakeIsAnswered
  <1>2. CASE \/ WaitBegins(w) \/ WaitIsSecond(w) \/ WaitClaims(w) \/ WaitLocks(w) \/ WaitChecks(w)
             \/ KernelReports(w) \/ KernelDequeues(w) \/ KernelTimesOut(w)
             \/ KernelInterrupted(w) \/ WaitRetries(w)
    <2>1. /\ UNCHANGED <<fd, wake, owed>>
          /\ pc[w] \notin Leaving
      BY <1>2 DEF WaitBegins, WaitIsSecond, WaitClaims, WaitLocks, WaitChecks, KernelReports,
                  KernelDequeues, KernelTimesOut, KernelInterrupted, WaitRetries, InKernel,
                  native, kernel, Leaving
    <2>2. \E label \in Labels : pc' = [pc EXCEPT ![w] = label]
      BY <1>2 DEF WaitBegins, WaitIsSecond, WaitClaims, WaitLocks, WaitChecks, KernelReports,
                  KernelDequeues, KernelTimesOut, KernelInterrupted, WaitRetries, Returns, Enters,
                  Goto, Labels, Inside
    <2> QED BY <2>1, <2>2, MoveAnswered
  <1>3. CASE WaitUnlocks(w)
    <2>1. /\ UNCHANGED <<fd, wake, owed>> /\ pc[w] \in {"unlock", "expired", "interrupted"}
          /\ pc' = [pc EXCEPT ![w] = IF pc[w] = "interrupted" THEN "again" ELSE "leave"]
      BY <1>3 DEF WaitUnlocks, Goto, native, kernel
    <2> QED BY <2>1, MoveAnswered DEF Leaving
  <1>4. CASE KernelWakes(w) \/ drainWake(w)
    <2>1. /\ UNCHANGED <<fd, owed>> /\ pc[w] \notin Leaving
          /\ \/ pc' = [pc EXCEPT ![w] = "drain"] /\ wake' = wake
             \/ pc' = [pc EXCEPT ![w] = "unlock"]
      BY <1>4 DEF KernelWakes, drainWake, InKernel, Goto, native, Leaving
    <2> QED BY <2>1, MoveAnswered DEF Leaving
  <1> QED BY <1>1, <1>2, <1>3, <1>4 DEF WaitStep, Environment

LEMMA NextAnswered == WakeIsAnswered /\ Typed /\ [Next]_vars => WakeIsAnswered'
  <1> SUFFICES ASSUME WakeIsAnswered, Typed, [Next]_vars PROVE WakeIsAnswered'
    OBVIOUS
  <1>1. ASSUME NEW w \in Waiters, WaitRefused(w) \/ WaitBegins(w) \/ WaitStep(w) \/ Environment(w)
        PROVE  WakeIsAnswered' \/ UNCHANGED vars
    BY <1>1, WaitAnswered DEF WaitRefused
  <1>2. ASSUME NEW k \in Callers, CallBegins(k) \/ CallStep(k)
        PROVE  WakeIsAnswered'
    <2>1. k \in Procs /\ k \notin Waiters
      BY PollerAssumption DEF Procs
    <2>2. /\ fd' = fd /\ (wake => wake') /\ (owed' => owed \/ wake')
          /\ \E label \in Labels : pc' = [pc EXCEPT ![k] = label]
      BY <1>2 DEF CallBegins, CallStep, CallLocks, CallChecks, Wake, Post, ctl, CallUnlocks,
                  Goto, native, kernel, Labels, Inside
    <2> QED BY <2>1, <2>2, MoveAnswered
  <1>3. ASSUME NEW c \in Closers, CloseBegins(c) \/ CloseSignals(c) \/ ClosePosts(c) \/ CloseLocks(c)
        PROVE  WakeIsAnswered'
    <2>1. c \in Procs /\ c \notin Waiters
      BY PollerAssumption DEF Procs
    <2>2. /\ fd' = fd /\ (wake' = wake \/ wake' = TRUE) /\ owed' = owed
          /\ pc' = pc \/ \E label \in Labels : pc' = [pc EXCEPT ![c] = label]
      <3>1. CASE CloseBegins(c)
        BY <3>1 DEF CloseBegins, Goto, kernel, Labels, Closing
      <3>2. CASE CloseSignals(c)
        BY <3>2 DEF CloseSignals, Goto, native, Labels, Closing
      <3>3. CASE ClosePosts(c)
        BY <3>3 DEF ClosePosts, Goto, native, Labels, Closing
      <3>4. CASE CloseLocks(c)
        BY <3>4 DEF CloseLocks, Goto, native, kernel, Labels, Closing
      <3> QED BY <1>3, <3>1, <3>2, <3>3, <3>4
    <2>3. CASE pc' = pc
      BY <2>2, <2>3 DEF WakeIsAnswered
    <2> QED BY <2>1, <2>2, <2>3, MoveAnswered
  <1>4. ASSUME NEW c \in Closers, CloseReleases(c)
        PROVE  WakeIsAnswered'
    BY <1>4 DEF CloseReleases, WakeIsAnswered
  <1>5. CASE UNCHANGED vars
    BY <1>5 DEF vars, kernel, WakeIsAnswered
  <1> QED BY <1>1, <1>2, <1>3, <1>4, <1>5 DEF Next, CloseStep, CloseIsSecond

\* No Wake is lost (signalWake, drainWake, triggerWake), for any number of
\* goroutines that wake a poller: until a Wait has returned for it, the event is
\* pending or a Wait is on its way out.
THEOREM WakesAreAnswered == Spec => []WakeIsAnswered
  <1>1. IInv => Typed
    BY DEF IInv
  <1>2. Init => WakeIsAnswered
    BY DEF Init, WakeIsAnswered
  <1> QED BY <1>1, <1>2, InitIInv, NextIInv, NextAnswered, PTL DEF Spec
=============================================================================
