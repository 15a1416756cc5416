------------------------------ MODULE ReadPath ------------------------------
(***************************************************************************)
(* What a TCP or TLS session tells its application, and what it tells      *)
(* about itself: conn.readerLoop, which cuts the byte stream of the peer   *)
(* into messages, the counters and the age behind Stats, and the events    *)
(* for the Observer.  The reader, the writer, a TrySend and the finalizer  *)
(* count and emit; the Engine stops the dispatcher when it is done.        *)
(*                                                                         *)
(* The send path, graceful shutdown and the error that Err reports are in  *)
(* StreamSession; here a session ends by Close or by its reader or writer. *)
(***************************************************************************)
EXTENDS Wire, Observer, FiniteSets

CONSTANTS
    Streams,    \* set of [codec, bytes, sent, legal, busy]: what a session may get to
                \* read, the messages in it, whether every frame is one of the codec's
                \* that fits into maxRead, and whether a TrySend goes on meanwhile
    ReadSize,   \* conn.readSize
    maxRead,    \* WithMaxBufferedRead
    ReadIdle,   \* is Timeouts.ReadIdle set?
    MaxTime     \* how long the age of the session is followed

ASSUME ReadPathAssumption ==
    /\ ReadSize \in Nat \ {0} /\ maxRead \in Nat \ {0} /\ MaxTime \in Nat
    /\ ReadIdle \in BOOLEAN

VARIABLES
    input,      \* the member of Streams that this session reads
    stream,     \* bytes of the peer that have not been read
    pending,    \* bytes read and not yet consumed
    at,         \* consumedTotal
    msg,        \* the message between DecodeOne and OnMessage
    readErr,
    pc,         \* of the reader, the writer, the sender and the finalizer
    delivered,  \* the messages OnMessage has been given
    outbox,     \* frames in the write queue
    closing,    \* gate.close and close(closing)
    clean,      \* the reader ended at the end of the stream
    stats,      \* sessionCounters
    age,        \* resourceAge.finalNS; 0 is not frozen
    now,        \* time since the session started
    engine      \* "Running", "Closing" or "Done"

readerVars == <<stream, pending, at, msg, readErr, delivered, clean>>
clockVars == <<age, now>>
vars == <<input, readerVars, pc, outbox, closing, stats, clockVars, engine, observerVars>>

Producers == {"reader", "writer", "sender", "finalizer"}
NoMessage == [outcome |-> "none"]
Counters == {"bytesRX", "messagesRX", "bytesTX", "messagesTX", "backpressure", "decodeErrors"}

TypeOK ==
    /\ ObserverTypeOK
    /\ at \in 0..Len(pending)
    /\ readErr \in {"nil", "eof", "timeout", "failure", "closed"}
    /\ DOMAIN pc = Producers
    /\ outbox \in 0..1
    /\ closing \in BOOLEAN /\ clean \in BOOLEAN
    /\ stats \in [Counters -> Nat]
    /\ age \in Nat /\ now \in 0..MaxTime
    /\ engine \in {"Running", "Closing", "Done"}

Init ==
    /\ ObserverInit
    /\ input \in Streams
    /\ stream = input.bytes
    /\ pending = <<>> /\ at = 0 /\ msg = NoMessage /\ readErr = "nil" /\ delivered = <<>>
    /\ pc \in [Producers -> {"open", "idle", "end", "wait"}]
    /\ pc["reader"] = "open" /\ pc["writer"] = "idle" /\ pc["finalizer"] = "wait"
    /\ pc["sender"] = IF input.busy THEN "idle" ELSE "end"
    /\ outbox = 0 /\ closing = FALSE /\ clean = FALSE
    /\ stats = [c \in Counters |-> 0]
    /\ age = 0 /\ now = 0
    /\ engine = "Running"

Goto(p, label) == pc' = [pc EXCEPT ![p] = label]

Add(c, n) == [stats EXCEPT ![c] = @ + n]

Rest == SubSeq(pending, at + 1, Len(pending))

\* conn.Stats and resourceAge.current.
Elapsed == IF now = 0 THEN 1 ELSE now
Age == IF age > 0 THEN age - 1 ELSE Elapsed
Stats == [age |-> Age, counters |-> stats, queued |-> outbox]

----------------------------------------------------------------------------
(* readerLoop.                                                             *)

\* OnOpen, and the check whether it closed the session.
Open ==
    /\ pc["reader"] = "open"
    /\ Goto("reader", IF closing THEN "end" ELSE "read")
    /\ UNCHANGED <<input, readerVars, outbox, closing, stats, clockVars, engine, observerVars>>

\* raw.Read returns some of the bytes, or an error, or both; a timeout that comes
\* with bytes is forgotten.  The end of the stream comes after its last byte, and
\* a closed socket is read no more.
Read(n, err) ==
    /\ pc["reader"] = "read"
    /\ n <= Len(stream)
    /\ n = 0 => err # "nil"
    /\ err = "eof" => n = Len(stream)
    /\ err = "timeout" => ReadIdle
    /\ err = "closed" => closing /\ n = 0
    /\ stream' = SubSeq(stream, n + 1, Len(stream))
    /\ pending' = pending \o SubSeq(stream, 1, n)
    /\ at' = 0
    /\ readErr' = IF n > 0 /\ err = "timeout" THEN "nil" ELSE err
    /\ Goto("reader", IF n > 0 THEN "decode" ELSE "settle")
    /\ UNCHANGED <<input, msg, delivered, clean, outbox, closing, stats, clockVars, engine,
                   observerVars>>

\* initiateClose by the reader, which returns.
ReaderCloses(counters) ==
    /\ stats' = counters
    /\ closing' = TRUE
    /\ Goto("reader", "end")

\* One turn of the inner loop up to a valid message, the end of what can be decoded,
\* or an error of the framer.
Decode ==
    /\ pc["reader"] = "decode"
    /\ LET d == DecodeOne(input.codec, Rest)
       IN  \/ /\ Rest = <<>> \/ d.outcome = "needMore"
              /\ Goto("reader", "compact")
              /\ UNCHANGED <<msg, stats, closing>>
           \/ /\ Rest # <<>> /\ d.outcome = "message"
              /\ d.consumed \in 1..Len(Rest)
              /\ msg' = d
              /\ Goto("reader", "count")
              /\ UNCHANGED <<stats, closing>>
           \/ /\ Rest # <<>>
              /\ d.outcome = "error" \/ (d.outcome = "message" /\ d.consumed \notin 1..Len(Rest))
              /\ ReaderCloses(Add("decodeErrors", 1))
              /\ UNCHANGED msg
    /\ UNCHANGED <<input, stream, pending, at, readErr, delivered, clean, outbox, clockVars, engine,
                   observerVars>>

CountRX ==
    /\ pc["reader"] = "count"
    /\ stats' = [stats EXCEPT !.bytesRX = @ + Len(msg.msg.data), !.messagesRX = @ + 1]
    /\ Goto("reader", "emit")
    /\ UNCHANGED <<input, readerVars, outbox, closing, clockVars, engine, observerVars>>

\* OnMessage, and the check whether the session is closing since.
Deliver ==
    /\ pc["reader"] = "deliver"
    /\ delivered' = Append(delivered, msg.msg)
    /\ at' = at + msg.consumed
    /\ msg' = NoMessage
    /\ Goto("reader", IF closing THEN "end" ELSE "decode")
    /\ UNCHANGED <<input, stream, pending, readErr, clean, outbox, closing, stats, clockVars, engine,
                   observerVars>>

\* The consumed bytes go; what is left must fit.
Compact ==
    /\ pc["reader"] = "compact"
    /\ pending' = Rest
    /\ at' = 0
    /\ \/ /\ Len(Rest) > maxRead
          /\ ReaderCloses(Add("decodeErrors", 1))
       \/ /\ Len(Rest) <= maxRead
          /\ Goto("reader", "settle")
          /\ UNCHANGED <<stats, closing>>
    /\ UNCHANGED <<input, stream, msg, readErr, delivered, clean, outbox, clockVars, engine,
                   observerVars>>

\* The error of the read, if any.  At a clean end the read side is closed and the
\* session goes on; bytes of an incomplete frame are forgotten.
Settle ==
    /\ pc["reader"] = "settle"
    /\ \/ /\ closing
          /\ Goto("reader", "end")
          /\ UNCHANGED <<stats, closing, clean>>
       \/ /\ ~ closing /\ readErr = "nil"
          /\ Goto("reader", "read")
          /\ UNCHANGED <<stats, closing, clean>>
       \/ /\ ~ closing /\ readErr \in {"timeout", "failure"}
          /\ ReaderCloses(stats)
          /\ UNCHANGED clean
       \/ /\ ~ closing /\ readErr = "eof"
          /\ clean' = TRUE
          /\ Goto("reader", "end")
          /\ UNCHANGED <<stats, closing>>
    /\ UNCHANGED <<input, stream, pending, at, msg, readErr, delivered, outbox, clockVars, engine,
                   observerVars>>

----------------------------------------------------------------------------
(* The events.                                                             *)

\* Who has an event to emit, which one, and where it goes on.
Emits == [reader    |-> [kind |-> "read", next |-> "deliver"],
          writer    |-> [kind |-> "write", next |-> "idle"],
          sender    |-> [kind |-> "backpressure", next |-> "leave"],
          finalizer |-> [kind |-> "close", next |-> "onClose"]]

\* conn.observe.
observe(p) ==
    /\ pc[p] = "emit"
    /\ emit(Emits[p].kind)
    /\ Goto(p, Emits[p].next)
    /\ UNCHANGED <<input, readerVars, outbox, closing, stats, clockVars, engine>>

----------------------------------------------------------------------------
(* A TrySend, the writer and whoever closes the session.                   *)

\* gate.enter.
Enter ==
    /\ pc["sender"] = "idle"
    /\ Goto("sender", IF closing THEN "end" ELSE "inside")
    /\ UNCHANGED <<input, readerVars, outbox, closing, stats, clockVars, engine, observerVars>>

\* The frame is enqueued, or admission fails with ErrWouldBlock (the slots, the
\* encoder and the budget of the Engine may all be taken), or the session is closing.
TrySend ==
    /\ pc["sender"] = "inside"
    /\ \/ /\ outbox = 0
          /\ outbox' = 1
          /\ Goto("sender", "leave")
          /\ UNCHANGED stats
       \/ /\ stats' = Add("backpressure", 1)
          /\ Goto("sender", "emit")
          /\ UNCHANGED outbox
       \/ /\ closing
          /\ Goto("sender", "leave")
          /\ UNCHANGED <<outbox, stats>>
    /\ UNCHANGED <<input, readerVars, closing, clockVars, engine, observerVars>>

Leave ==
    /\ pc["sender"] = "leave"
    /\ Goto("sender", "end")
    /\ UNCHANGED <<input, readerVars, outbox, closing, stats, clockVars, engine, observerVars>>

\* A mutant: nobody waits for the calls inside the gate.
GateIgnored == TRUE

\* gate.done.
GateEmpty == pc["sender"] \in {"idle", "end"}

\* handleOutbound: the write succeeds and is counted, or it fails and aborts.
WriterTakes ==
    /\ pc["writer"] = "idle" /\ outbox = 1
    /\ outbox' = 0
    /\ \/ /\ stats' = [stats EXCEPT !.bytesTX = @ + 1, !.messagesTX = @ + 1]
          /\ Goto("writer", "emit")
          /\ UNCHANGED closing
       \/ /\ closing' = TRUE
          /\ Goto("writer", "drain")
          /\ UNCHANGED stats
    /\ UNCHANGED <<input, readerVars, clockVars, engine, observerVars>>

WriterSeesClosing ==
    /\ pc["writer"] = "idle" /\ closing
    /\ Goto("writer", "drain")
    /\ UNCHANGED <<input, readerVars, outbox, closing, stats, clockVars, engine, observerVars>>

\* The deferred end of writerLoop: the gate, then failPending.
WriterDrains ==
    /\ pc["writer"] = "drain" /\ closing /\ GateEmpty
    /\ outbox' = 0
    /\ Goto("writer", "end")
    /\ UNCHANGED <<input, readerVars, closing, stats, clockVars, engine, observerVars>>

Close ==
    /\ ~ closing
    /\ closing' = TRUE
    /\ UNCHANGED <<input, readerVars, pc, outbox, stats, clockVars, engine, observerVars>>

----------------------------------------------------------------------------
(* finalize, the age and the Engine.                                       *)

\* loops.Wait is over, and age.freeze.
Freeze ==
    /\ pc["finalizer"] = "wait"
    /\ pc["reader"] = "end" /\ pc["writer"] = "end"
    /\ age' = Elapsed + 1
    /\ Goto("finalizer", "emit")
    /\ UNCHANGED <<input, readerVars, outbox, closing, stats, now, engine, observerVars>>

\* maybeDoneLocked, once the session is removed.
EngineDone == engine' = "Done" /\ stop

\* OnClose, close(done), and removeStream.
Finish ==
    /\ pc["finalizer"] = "onClose"
    /\ Goto("finalizer", "end")
    /\ IF engine = "Closing" THEN EngineDone ELSE UNCHANGED <<engine, observerVars>>
    /\ UNCHANGED <<input, readerVars, outbox, closing, stats, clockVars>>

\* Engine.Close; the session is closed by a step of its own.
EngineCloses ==
    /\ engine = "Running"
    /\ IF pc["finalizer"] = "end" THEN EngineDone ELSE engine' = "Closing" /\ UNCHANGED observerVars
    /\ UNCHANGED <<input, readerVars, pc, outbox, closing, stats, clockVars>>

Tick ==
    /\ input.busy /\ now < MaxTime
    /\ now' = now + 1
    /\ UNCHANGED <<input, readerVars, pc, outbox, closing, stats, age, engine, observerVars>>

Reads == \E n \in 0..ReadSize, err \in {"nil", "eof", "timeout", "failure", "closed"} : Read(n, err)

ReaderStep == Open \/ Decode \/ CountRX \/ observe("reader") \/ Deliver \/ Compact \/ Settle
WriterStep == WriterTakes \/ observe("writer") \/ WriterSeesClosing \/ WriterDrains
SenderStep == TrySend \/ observe("sender") \/ Leave
FinalizerStep == Freeze \/ observe("finalizer") \/ Finish
DispatcherStep ==
    /\ WorkerStep
    /\ UNCHANGED <<input, readerVars, pc, outbox, closing, stats, clockVars, engine>>

Next ==
    \/ Reads \/ ReaderStep \/ WriterStep \/ Enter \/ SenderStep \/ FinalizerStep
    \/ Close \/ EngineCloses \/ Tick \/ DispatcherStep

\* The goroutines of the session run, a read of a closed socket returns, and a
\* closing Engine closes its session.  Nothing is assumed of the peer and of the
\* Observer: a callback may block for ever.
Fairness ==
    /\ WF_vars(ReaderStep) /\ WF_vars(closing /\ Reads)
    /\ WF_vars(WriterStep) /\ WF_vars(SenderStep) /\ WF_vars(FinalizerStep)
    /\ WF_vars(engine = "Closing" /\ Close)

Spec == Init /\ [][Next]_vars
FairSpec == Spec /\ Fairness

----------------------------------------------------------------------------
(* Properties.                                                             *)

\* The reader may still be inside the message it has counted.
InHand == IF pc["reader"] \in {"emit", "deliver"} THEN <<msg.msg>> ELSE <<>>


Told(kind) == Len(SelectSeq(observed \o queue, LAMBDA k : k = kind))

Counted(p, c) == IF pc[p] = "emit" THEN stats[c] - 1 ELSE stats[c]

\* Every message, write, refusal and close that was counted is either an event the
\* dispatcher has taken or one in ObserverDroppedEvents: none is swallowed by the
\* stopped dispatcher.
NothingSwallowed ==
    Len(observed) + Len(queue) + dropped =
        Counted("reader", "messagesRX") + Counted("writer", "messagesTX")
        + Counted("sender", "backpressure")
        + (IF pc["finalizer"] \in {"onClose", "end"} THEN 1 ELSE 0)

\* Stats is what happened: a message is counted when it is about to be delivered and
\* never twice, every event is accounted for, and the Observer is never told what
\* Stats does not show yet.
StatsExact ==
    /\ TypeOK
    /\ stats.messagesRX = Len(delivered \o InHand)
    /\ stats.bytesRX = FoldSeq(LAMBDA m, sum : sum + Len(m.data), 0, delivered \o InHand)
    /\ NothingSwallowed
    /\ Told("read") <= stats.messagesRX /\ Told("write") <= stats.messagesTX
    /\ Told("backpressure") <= stats.backpressure /\ Told("close") <= 1

\* From the close event on, the session's Stats never change again: not its age, not
\* a counter (the writer waits for the TrySends inside the gate), not a gauge.
CloseIsFinal ==
    [][pc["finalizer"] \in {"onClose", "end"} =>
         Stats' = Stats /\ observed' \o queue' = observed \o queue]_vars

\* A closing Engine becomes Done although the Observer may never return from a
\* callback: a full queue drops events and never delays the reader, the writer, a
\* TrySend or the finalizer.
NeverBlocked == (engine = "Closing") ~> (engine = "Done")
=============================================================================
