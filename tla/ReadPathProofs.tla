--------------------------- MODULE ReadPathProofs ---------------------------
(***************************************************************************)
(* Proofs about ReadPath for every byte stream, every way to cut it, any   *)
(* capacity of the Observer's queue and any limits: the events account for *)
(* the counters, and the close event is the last word of a session.        *)
(***************************************************************************)
EXTENDS ReadPath, TLAPS

Kinds == {"read", "write", "backpressure", "close"}

Labels == {"open", "read", "decode", "count", "emit", "deliver", "compact", "settle", "idle",
           "drain", "inside", "leave", "wait", "onClose", "end"}

\* The counters that stand for events.
Tallies == {"messagesRX", "messagesTX", "backpressure"}

Tallied(s) == DOMAIN s = Counters /\ \A c \in Tallies : s[c] \in Nat

Typed ==
    /\ queue \in Seq(Kinds) /\ observed \in Seq(Kinds) /\ dropped \in Nat
    /\ pc \in [Producers -> Labels]
    /\ Tallied(stats)
    /\ stopped \in BOOLEAN /\ closing \in BOOLEAN
    /\ age \in Nat /\ now \in Nat

\* Who is over when: the finalizer starts after both loops, the writer leaves only
\* when the session is closing, its queue is empty and nobody is inside the gate, and
\* the dispatcher is stopped after the finalizer.
Ordered ==
    /\ pc["finalizer"] # "wait" => pc["reader"] = "end" /\ pc["writer"] = "end" /\ age > 0
    /\ pc["writer"] \in {"drain", "end"} => closing
    /\ pc["writer"] = "end" => outbox = 0 /\ GateEmpty
    /\ stopped => pc["finalizer"] = "end"
    /\ Len(queue) <= ObserverBuffer

IInv == Typed /\ Ordered /\ NothingSwallowed

LEMMA InitIInv == Init => IInv
  <1> SUFFICES ASSUME Init PROVE IInv
    OBVIOUS
  <1>1. /\ pc \in [Producers -> Labels]
        /\ pc["reader"] = "open" /\ pc["writer"] = "idle" /\ pc["finalizer"] = "wait"
        /\ pc["sender"] \in {"idle", "end"}
    <2>1. pc \in [Producers -> {"open", "idle", "end", "wait"}]
      BY DEF Init
    <2>2. pc["reader"] = "open" /\ pc["writer"] = "idle" /\ pc["finalizer"] = "wait"
      BY DEF Init
    <2>3. pc["sender"] \in {"idle", "end"}
      BY DEF Init
    <2> QED BY <2>1, <2>2, <2>3 DEF Labels
  <1>2. Typed
    <2>1. Tallied(stats)
      BY DEF Init, Tallied, Tallies, Counters
    <2>2. queue \in Seq(Kinds) /\ observed \in Seq(Kinds)
      BY DEF Init, ObserverInit
    <2> QED BY <1>1, <2>1, <2>2 DEF Init, ObserverInit, Typed
  <1>3. Ordered
    <2>1. stopped = FALSE /\ Len(queue) <= ObserverBuffer
      BY ObserverAssumption DEF Init, ObserverInit
    <2> QED BY <1>1, <2>1 DEF Ordered
  <1>4. NothingSwallowed
    <2>1. Len(observed) = 0 /\ Len(queue) = 0 /\ dropped = 0
      BY DEF Init, ObserverInit
    <2>2. stats["messagesRX"] = 0 /\ stats["messagesTX"] = 0 /\ stats["backpressure"] = 0
      BY DEF Init, Counters
    <2> QED BY <1>1, <2>1, <2>2 DEF NothingSwallowed, Counted
  <1> QED BY <1>2, <1>3, <1>4 DEF IInv

\* What a goroutine counts before it emits.
CounterOf(p) ==
    IF p = "reader" THEN "messagesRX" ELSE IF p = "writer" THEN "messagesTX" ELSE "backpressure"

\* A step of the reader, the writer or the sender p that emits nothing.
LEMMA MoveIInv ==
    ASSUME IInv, NEW p \in {"reader", "writer", "sender"}, NEW label \in Labels,
           pc' = [pc EXCEPT ![p] = label], pc[p] \notin {"emit", "end"},
           UNCHANGED observerVars, UNCHANGED clockVars,
           closing' \in BOOLEAN, closing => closing',
           Tallied(stats'),
           \A c \in Tallies :
               stats'[c] = IF label = "emit" /\ CounterOf(p) = c THEN stats[c] + 1 ELSE stats[c],
           p = "writer" /\ label \in {"drain", "end"} => closing',
           p = "writer" /\ label = "end" => outbox' = 0 /\ GateEmpty,
           p = "reader" => outbox' = outbox,
           p = "sender" => \/ outbox' = outbox /\ (pc[p] = "idle" /\ closing => label = "end")
                           \/ pc[p] = "inside"
    PROVE  IInv'
  <1> USE DEF observerVars, clockVars
  <1>1. /\ pc'[p] = label
        /\ \A q \in Producers \ {p} : pc'[q] = pc[q]
        /\ pc' \in [Producers -> Labels]
    BY DEF IInv, Typed, Producers
  <1>2. Typed'
    BY <1>1 DEF IInv, Typed
  <1>3. Ordered'
    BY <1>1 DEF IInv, Typed, Ordered, GateEmpty, Producers
  <1>4. NothingSwallowed'
    <2>1. stats'["messagesRX"] \in Nat /\ stats'["messagesTX"] \in Nat /\ stats'["backpressure"] \in Nat
          /\ stats["messagesRX"] \in Nat /\ stats["messagesTX"] \in Nat /\ stats["backpressure"] \in Nat
      BY DEF IInv, Typed, Tallied, Tallies
    <2>2. /\ Counted("reader", "messagesRX")' = Counted("reader", "messagesRX")
          /\ Counted("writer", "messagesTX")' = Counted("writer", "messagesTX")
          /\ Counted("sender", "backpressure")' = Counted("sender", "backpressure")
      BY <1>1, <2>1 DEF Counted, CounterOf, Producers, Tallies
    <2>3. pc'["finalizer"] = pc["finalizer"]
      BY <1>1 DEF Producers
    <2> QED BY <2>2, <2>3 DEF IInv, NothingSwallowed
  <1> QED BY <1>2, <1>3, <1>4 DEF IInv

\* emit neither loses an event nor invents one while the dispatcher runs.
LEMMA EmitStep ==
    ASSUME IInv, ~ stopped, NEW kind \in Kinds, emit(kind)
    PROVE  /\ queue' \in Seq(Kinds) /\ observed' \in Seq(Kinds) /\ dropped' \in Nat
           /\ Len(queue') <= ObserverBuffer
           /\ Len(observed') + Len(queue') + dropped' = Len(observed) + Len(queue) + dropped + 1
           /\ UNCHANGED stopped
  <1>1. /\ queue \in Seq(Kinds) /\ observed \in Seq(Kinds) /\ dropped \in Nat
        /\ Len(queue) \in Nat /\ Len(observed) \in Nat
        /\ Len(queue) <= ObserverBuffer /\ ObserverBuffer \in Nat
    BY ObserverAssumption DEF IInv, Typed, Ordered
  <1>2. CASE Len(queue) < ObserverBuffer
    <2>1. queue' = Append(queue, kind) /\ UNCHANGED <<dropped, observed, stopped>>
      BY <1>1, <1>2 DEF emit
    <2>2. queue' \in Seq(Kinds) /\ Len(queue') = Len(queue) + 1
      BY <1>1, <2>1
    <2> QED BY <1>1, <1>2, <2>1, <2>2
  <1>3. CASE Len(queue) = ObserverBuffer
    <2>1. dropped' = dropped + 1 /\ UNCHANGED <<queue, observed, stopped>>
      BY <1>1, <1>3 DEF emit
    <2> QED BY <1>1, <1>3, <2>1
  <1> QED BY <1>1, <1>2, <1>3

LEMMA ObserveIInv ==
    ASSUME IInv, NEW p \in Producers, observe(p) PROVE IInv'
  <1>1. /\ pc[p] = "emit" /\ emit(Emits[p].kind)
        /\ pc' = [pc EXCEPT ![p] = Emits[p].next]
        /\ UNCHANGED <<outbox, closing, stats, age, now>>
    BY DEF observe, Goto, clockVars
  <1>2. /\ Emits[p].kind \in Kinds
        /\ Emits[p].next = IF p = "reader" THEN "deliver" ELSE IF p = "writer" THEN "idle"
                           ELSE IF p = "sender" THEN "leave" ELSE "onClose"
    BY DEF Emits, Kinds, Producers
  <1>3. ~ stopped
    BY <1>1 DEF IInv, Ordered, GateEmpty, Producers
  <1>4. /\ queue' \in Seq(Kinds) /\ observed' \in Seq(Kinds) /\ dropped' \in Nat
        /\ Len(queue') <= ObserverBuffer
        /\ Len(observed') + Len(queue') + dropped' = Len(observed) + Len(queue) + dropped + 1
        /\ UNCHANGED stopped
    BY <1>1, <1>2, <1>3, EmitStep
  <1>5. /\ pc'[p] = Emits[p].next
        /\ \A q \in Producers \ {p} : pc'[q] = pc[q]
        /\ pc' \in [Producers -> Labels]
    BY <1>1, <1>2 DEF IInv, Typed, Labels
  <1>6. Typed'
    BY <1>1, <1>4, <1>5 DEF IInv, Typed
  <1>7. Ordered'
    BY <1>1, <1>2, <1>4, <1>5 DEF IInv, Ordered, GateEmpty, Producers
  <1>8. NothingSwallowed'
    <2> DEFINE r == Counted("reader", "messagesRX")
               w == Counted("writer", "messagesTX")
               s == Counted("sender", "backpressure")
               f == IF pc["finalizer"] \in {"onClose", "end"} THEN 1 ELSE 0
    <2>1. r \in Int /\ w \in Int /\ s \in Int /\ f \in Int
      BY DEF IInv, Typed, Counted, Tallied, Tallies
    <2>2. r' + w' + s' + f' = r + w + s + f + 1
      <3>1. stats["messagesRX"] \in Nat /\ stats["messagesTX"] \in Nat /\ stats["backpressure"] \in Nat
        BY DEF IInv, Typed, Tallied, Tallies
      <3>2. CASE p = "reader"
        BY <1>1, <1>2, <1>5, <3>1, <3>2 DEF Counted, Producers
      <3>3. CASE p = "writer"
        BY <1>1, <1>2, <1>5, <3>1, <3>3 DEF Counted, Producers
      <3>4. CASE p = "sender"
        BY <1>1, <1>2, <1>5, <3>1, <3>4 DEF Counted, Producers
      <3>5. CASE p = "finalizer"
        BY <1>1, <1>2, <1>5, <3>1, <3>5 DEF Counted, Producers
      <3> QED BY <3>2, <3>3, <3>4, <3>5 DEF Producers
    <2>3. Len(observed) + Len(queue) + dropped = r + w + s + f
      BY DEF IInv, NothingSwallowed
    <2>4. Len(observed') + Len(queue') + dropped' = r' + w' + s' + f'
      BY <1>4, <2>1, <2>2, <2>3
    <2> QED BY <2>4 DEF NothingSwallowed
  <1> QED BY <1>6, <1>7, <1>8 DEF IInv

LEMMA ReaderIInv ==
    ASSUME IInv, Reads \/ ReaderStep PROVE IInv'
  <1>0. Tallied(stats) /\ closing \in BOOLEAN
    BY DEF IInv, Typed
  <1>1. CASE CountRX
    <2>1. /\ pc' = [pc EXCEPT !["reader"] = "emit"] /\ pc["reader"] = "count"
          /\ UNCHANGED <<observerVars, clockVars, closing, outbox>>
      BY <1>1 DEF CountRX, Goto
    <2>2. /\ Tallied(stats')
          /\ \A c \in Tallies :
                stats'[c] = IF CounterOf("reader") = c THEN stats[c] + 1 ELSE stats[c]
      BY <1>0, <1>1 DEF CountRX, CounterOf, Tallied, Tallies, Counters
    <2> QED BY <1>0, <2>1, <2>2, MoveIInv DEF Labels
  <1>2. CASE observe("reader")
    BY <1>2, ObserveIInv DEF Producers
  <1>3. CASE Reads \/ Open \/ Decode \/ Deliver \/ Compact \/ Settle
    <2>1. /\ UNCHANGED <<observerVars, clockVars, outbox>>
          /\ pc["reader"] \in {"open", "read", "decode", "deliver", "compact", "settle"}
      <3>1. CASE Reads
        BY <3>1 DEF Reads, Read
      <3>2. CASE Open \/ Deliver
        BY <3>2 DEF Open, Deliver
      <3>3. CASE Decode
        BY <3>3 DEF Decode
      <3>4. CASE Compact \/ Settle
        BY <3>4 DEF Compact, Settle
      <3> QED BY <1>3, <3>1, <3>2, <3>3, <3>4
    <2>2. PICK label \in Labels \ {"emit"} : pc' = [pc EXCEPT !["reader"] = label]
      <3>1. CASE Reads
        BY <3>1 DEF Reads, Read, Goto, Labels
      <3>2. CASE Open \/ Deliver
        BY <3>2 DEF Open, Deliver, Goto, Labels
      <3>3. CASE Decode
        BY <3>3 DEF Decode, ReaderCloses, Goto, Labels
      <3>4. CASE Compact \/ Settle
        BY <3>4 DEF Compact, Settle, ReaderCloses, Goto, Labels
      <3> QED BY <1>3, <3>1, <3>2, <3>3, <3>4
    <2>3. /\ closing' \in {closing, TRUE}
          /\ stats' \in {stats, Add("decodeErrors", 1)}
      <3>1. CASE Reads
        BY <3>1 DEF Reads, Read
      <3>2. CASE Open \/ Deliver
        BY <3>2 DEF Open, Deliver
      <3>3. CASE Decode
        BY <3>3 DEF Decode, ReaderCloses
      <3>4. CASE Compact \/ Settle
        BY <3>4 DEF Compact, Settle, ReaderCloses
      <3> QED BY <1>3, <3>1, <3>2, <3>3, <3>4
    <2>4. Tallied(stats') /\ \A c \in Tallies : stats'[c] = stats[c]
      BY <1>0, <2>3 DEF Add, Tallied, Tallies, Counters
    <2>5. closing' \in BOOLEAN /\ (closing => closing')
      <3>1. closing' = closing \/ closing' = TRUE
        BY <2>3
      <3> QED BY <1>0, <3>1
    <2>6. pc["reader"] \notin {"emit", "end"} /\ label \in Labels /\ label # "emit"
      BY <2>1, <2>2
    <2> QED BY <2>1, <2>2, <2>4, <2>5, <2>6, MoveIInv
  <1> QED BY <1>1, <1>2, <1>3 DEF ReaderStep

LEMMA WriterIInv ==
    ASSUME IInv, WriterStep PROVE IInv'
  <1>0. Tallied(stats) /\ closing \in BOOLEAN
    BY DEF IInv, Typed
  <1>1. CASE WriterTakes
    <2>1. /\ UNCHANGED <<observerVars, clockVars>> /\ pc["writer"] = "idle"
          /\ \/ /\ pc' = [pc EXCEPT !["writer"] = "emit"] /\ closing' = closing
                /\ stats' = [stats EXCEPT !["bytesTX"] = @ + 1, !["messagesTX"] = @ + 1]
             \/ /\ pc' = [pc EXCEPT !["writer"] = "drain"] /\ closing' = TRUE
                /\ stats' = stats
      BY <1>1 DEF WriterTakes, Goto
    <2>2. CASE stats' = [stats EXCEPT !["bytesTX"] = @ + 1, !["messagesTX"] = @ + 1]
               /\ pc' = [pc EXCEPT !["writer"] = "emit"] /\ closing' = closing
      <3>1. /\ Tallied(stats')
            /\ \A c \in Tallies :
                  stats'[c] = IF CounterOf("writer") = c THEN stats[c] + 1 ELSE stats[c]
        BY <1>0, <2>2 DEF CounterOf, Tallied, Tallies, Counters
      <3>2. /\ closing' \in BOOLEAN /\ (closing => closing')
            /\ pc["writer"] \notin {"emit", "end"} /\ "emit" \in Labels
        BY <1>0, <2>1, <2>2 DEF Labels
      <3> QED BY <2>1, <2>2, <3>1, <3>2, MoveIInv
    <2>3. CASE stats' = stats /\ pc' = [pc EXCEPT !["writer"] = "drain"] /\ closing' = TRUE
      BY <1>0, <2>1, <2>3, MoveIInv DEF Labels
    <2> QED BY <2>1, <2>2, <2>3
  <1>2. CASE observe("writer")
    BY <1>2, ObserveIInv DEF Producers
  <1>3. CASE WriterSeesClosing \/ WriterDrains
    <2>1. /\ UNCHANGED <<observerVars, clockVars, closing, stats>> /\ closing
          /\ pc["writer"] \in {"idle", "drain"}
          /\ \/ pc' = [pc EXCEPT !["writer"] = "drain"]
             \/ pc' = [pc EXCEPT !["writer"] = "end"] /\ outbox' = 0 /\ GateEmpty
      BY <1>3 DEF WriterSeesClosing, WriterDrains, Goto
    <2> QED BY <1>0, <2>1, MoveIInv DEF CounterOf, Labels, Tallied, Tallies, Counters
  <1> QED BY <1>1, <1>2, <1>3 DEF WriterStep

LEMMA SenderIInv ==
    ASSUME IInv, Enter \/ SenderStep PROVE IInv'
  <1>0. Tallied(stats) /\ closing \in BOOLEAN
    BY DEF IInv, Typed
  <1>1. CASE Enter \/ Leave
    <2>1. /\ UNCHANGED <<observerVars, clockVars, closing, stats, outbox>>
          /\ \/ pc["sender"] = "idle" /\ pc' = [pc EXCEPT !["sender"] = IF closing THEN "end" ELSE "inside"]
             \/ pc["sender"] = "leave" /\ pc' = [pc EXCEPT !["sender"] = "end"]
      BY <1>1 DEF Enter, Leave, Goto
    <2> QED BY <1>0, <2>1, MoveIInv DEF CounterOf, Labels, Tallied, Tallies, Counters
  <1>2. CASE TrySend
    <2>1. /\ UNCHANGED <<observerVars, clockVars, closing>> /\ pc["sender"] = "inside"
          /\ \/ pc' = [pc EXCEPT !["sender"] = "leave"] /\ stats' = stats
             \/ /\ pc' = [pc EXCEPT !["sender"] = "emit"]
                /\ stats' = [stats EXCEPT !["backpressure"] = @ + 1]
      BY <1>2 DEF TrySend, Add, Goto
    <2> QED BY <1>0, <2>1, MoveIInv DEF CounterOf, Labels, Tallied, Tallies, Counters
  <1>3. CASE observe("sender")
    BY <1>3, ObserveIInv DEF Producers
  <1> QED BY <1>1, <1>2, <1>3 DEF SenderStep

LEMMA FreezeIInv ==
    ASSUME IInv, Freeze PROVE IInv'
  <1>1. /\ pc["finalizer"] = "wait" /\ pc["reader"] = "end" /\ pc["writer"] = "end"
        /\ pc' = [pc EXCEPT !["finalizer"] = "emit"] /\ age' = Elapsed + 1
        /\ UNCHANGED <<outbox, closing, stats, now, queue, observed, dropped, stopped>>
    BY DEF Freeze, Goto, observerVars
  <1>2. age' \in Nat /\ age' > 0
    BY <1>1 DEF IInv, Typed, Elapsed
  <1>3. /\ pc'["finalizer"] = "emit"
        /\ \A q \in Producers \ {"finalizer"} : pc'[q] = pc[q]
        /\ pc' \in [Producers -> Labels]
    BY <1>1 DEF IInv, Typed, Producers, Labels
  <1>4. Typed'
    BY <1>1, <1>2, <1>3 DEF IInv, Typed
  <1>5. Ordered'
    BY <1>1, <1>2, <1>3 DEF IInv, Ordered, GateEmpty, Producers
  <1>6. NothingSwallowed'
    BY <1>1, <1>3 DEF IInv, NothingSwallowed, Counted, Producers
  <1> QED BY <1>4, <1>5, <1>6 DEF IInv

LEMMA FinishIInv ==
    ASSUME IInv, Finish \/ EngineCloses PROVE IInv'
  <1>1. /\ pc'["finalizer"] \in {pc["finalizer"], "end"}
        /\ pc["finalizer"] = "onClose" \/ pc' = pc
        /\ \A q \in Producers \ {"finalizer"} : pc'[q] = pc[q]
        /\ pc' \in [Producers -> Labels]
    BY DEF Finish, EngineCloses, Goto, IInv, Typed, Producers, Labels
  <1>2. UNCHANGED <<outbox, closing, stats, age, now, queue, observed, dropped>>
    BY DEF Finish, EngineCloses, EngineDone, stop, clockVars, observerVars
  <1>3. stopped' = stopped \/ (stopped' = TRUE /\ pc'["finalizer"] = "end")
    BY DEF Finish, EngineCloses, EngineDone, stop, observerVars, Goto, IInv, Typed, Producers
  <1>4. Typed'
    BY <1>1, <1>2, <1>3 DEF IInv, Typed
  <1>5. Ordered'
    BY <1>1, <1>2, <1>3 DEF IInv, Ordered, GateEmpty, Producers
  <1>6. NothingSwallowed'
    BY <1>1, <1>2 DEF IInv, NothingSwallowed, Counted, Producers
  <1> QED BY <1>4, <1>5, <1>6 DEF IInv

\* The worker takes events from the queue and loses none.
LEMMA WorkerKeeps ==
    ASSUME Typed, WorkerStep
    PROVE  /\ queue' \in Seq(Kinds) /\ observed' \in Seq(Kinds)
           /\ observed' \o queue' = observed \o queue
           /\ Len(queue') <= Len(queue)
           /\ Len(observed') + Len(queue') = Len(observed) + Len(queue)
           /\ UNCHANGED <<dropped, stopped>>
  <1>0. queue \in Seq(Kinds) /\ observed \in Seq(Kinds)
    BY DEF Typed
  <1>1. CASE TakeEvent
    <2>1. /\ queue # <<>> /\ queue' = Tail(queue) /\ observed' = Append(observed, Head(queue))
          /\ UNCHANGED <<dropped, stopped>>
      BY <1>1 DEF TakeEvent
    <2>2. /\ Head(queue) \in Kinds /\ Tail(queue) \in Seq(Kinds)
          /\ Len(Tail(queue)) = Len(queue) - 1 /\ Len(queue) \in Nat /\ Len(queue) > 0
      BY <1>0, <2>1
    <2>3. /\ Append(observed, Head(queue)) \in Seq(Kinds)
          /\ Len(Append(observed, Head(queue))) = Len(observed) + 1 /\ Len(observed) \in Nat
      BY <1>0, <2>2
    <2>4. Append(observed, Head(queue)) \o Tail(queue) = observed \o queue
      BY <1>0, <2>1, <2>2, <2>3
    <2> QED BY <2>1, <2>2, <2>3, <2>4
  <1>2. CASE TakeStop \/ ObserveEnds
    BY <1>0, <1>2 DEF TakeStop, ObserveEnds
  <1> QED BY <1>1, <1>2 DEF WorkerStep

LEMMA RestIInv ==
    ASSUME IInv, Close \/ Tick \/ DispatcherStep \/ UNCHANGED vars PROVE IInv'
  <1>1. /\ UNCHANGED <<pc, outbox, stats, age>>
        /\ closing' \in BOOLEAN /\ (closing => closing') /\ now' \in Nat
    <2>1. CASE Close
      BY <2>1 DEF Close, clockVars, IInv, Typed
    <2>2. CASE Tick
      BY <2>2 DEF Tick, IInv, Typed
    <2>3. CASE DispatcherStep
      BY <2>3 DEF DispatcherStep, clockVars, IInv, Typed
    <2>4. CASE UNCHANGED vars
      BY <2>4 DEF vars, clockVars, IInv, Typed
    <2> QED BY <2>1, <2>2, <2>3, <2>4
  <1>2. /\ queue' \in Seq(Kinds) /\ observed' \in Seq(Kinds)
        /\ Len(queue') <= ObserverBuffer
        /\ Len(observed') + Len(queue') = Len(observed) + Len(queue)
        /\ UNCHANGED <<dropped, stopped>>
    <2>1. CASE WorkerStep
      <3>1. Len(queue') \in Nat /\ Len(queue) \in Nat /\ Len(queue) <= ObserverBuffer
        BY <2>1, WorkerKeeps DEF IInv, Typed, Ordered
      <3> QED BY <2>1, <3>1, WorkerKeeps, ObserverAssumption DEF IInv
    <2>2. CASE UNCHANGED observerVars
      BY <2>2 DEF observerVars, IInv, Typed, Ordered
    <2> QED BY <2>1, <2>2 DEF Close, Tick, DispatcherStep, vars
  <1>3. Typed'
    BY <1>1, <1>2 DEF IInv, Typed
  <1>4. Ordered'
    BY <1>1, <1>2 DEF IInv, Ordered, GateEmpty
  <1>5. NothingSwallowed'
    BY <1>1, <1>2 DEF IInv, NothingSwallowed, Counted
  <1> QED BY <1>3, <1>4, <1>5 DEF IInv

LEMMA NextIInv == IInv /\ [Next]_vars => IInv'
  <1> SUFFICES ASSUME IInv, [Next]_vars PROVE IInv'
    OBVIOUS
  <1>1. CASE observe("finalizer")
    BY <1>1, ObserveIInv DEF Producers
  <1> QED BY <1>1, ReaderIInv, WriterIInv, SenderIInv, FreezeIInv, FinishIInv, RestIInv
          DEF Next, FinalizerStep

\* Every message, write, refusal and close that Stats shows has reached the
\* dispatcher of the Observer or is counted as dropped, whatever the peer sends
\* and however slow the Observer is.
THEOREM EventsAreAccounted == Spec => []NothingSwallowed
  <1>1. IInv => NothingSwallowed
    BY DEF IInv
  <1> QED BY <1>1, InitIInv, NextIInv, PTL DEF Spec

\* Once the close event is out, only calls that find the session closing, the
\* Engine, time and the dispatcher are left.
LEMMA NothingLeft ==
    ASSUME IInv, Next, pc["finalizer"] \in {"onClose", "end"}
    PROVE  Enter \/ Finish \/ Close \/ EngineCloses \/ Tick \/ DispatcherStep
  <1>1. /\ pc["reader"] = "end" /\ pc["writer"] = "end" /\ pc["sender"] \in {"idle", "end"}
    BY DEF IInv, Ordered, GateEmpty
  <1>2. ~ Reads /\ ~ ReaderStep
    BY <1>1 DEF Reads, Read, ReaderStep, Open, Decode, CountRX, observe, Deliver, Compact, Settle
  <1>3. ~ WriterStep
    BY <1>1 DEF WriterStep, WriterTakes, observe, WriterSeesClosing, WriterDrains
  <1>4. ~ SenderStep
    BY <1>1 DEF SenderStep, TrySend, observe, Leave
  <1>5. ~ Freeze /\ ~ observe("finalizer")
    BY DEF Freeze, observe
  <1> QED BY <1>2, <1>3, <1>4, <1>5 DEF Next, FinalizerStep

\* The close event is the last word: from it on neither Stats nor the sequence of
\* events of the session changes (finalize, gate, resourceAge.freeze), for every
\* stream and any number of events.
THEOREM CloseIsTheEnd == Spec => CloseIsFinal
  <1>1. ASSUME IInv, [Next]_vars, pc["finalizer"] \in {"onClose", "end"}
        PROVE  Stats' = Stats /\ observed' \o queue' = observed \o queue
    <2>1. age > 0
      BY <1>1 DEF IInv, Ordered
    <2>2. CASE UNCHANGED vars
      BY <2>2 DEF vars, clockVars, observerVars, Stats, Age, Elapsed
    <2>3. CASE Next
      <3>1. Enter \/ Finish \/ Close \/ EngineCloses \/ Tick \/ DispatcherStep
        BY <1>1, <2>3, NothingLeft
      <3>2. UNCHANGED <<outbox, stats, age>>
        BY <3>1 DEF Enter, Finish, Close, EngineCloses, Tick, DispatcherStep, clockVars
      <3>3. observed' \o queue' = observed \o queue
        <4>1. CASE DispatcherStep
          BY <1>1, <4>1, WorkerKeeps DEF DispatcherStep, IInv
        <4>2. CASE Enter \/ Finish \/ Close \/ EngineCloses \/ Tick
          BY <4>2 DEF Enter, Finish, Close, EngineCloses, Tick, EngineDone, stop, observerVars
        <4> QED BY <3>1, <4>1, <4>2
      <3> QED BY <2>1, <3>2, <3>3 DEF Stats, Age
    <2> QED BY <1>1, <2>2, <2>3
  <1> QED BY <1>1, InitIInv, NextIInv, PTL DEF Spec, CloseIsFinal
=============================================================================
