------------------------------ MODULE SendPath ------------------------------
(***************************************************************************)
(* What the three kinds of session have in common on the sending side      *)
(* (Send, TrySend, handleOutbound and failPending of conn.go, packet.go    *)
(* and websocket.go; gate.go): the send gate, the frame slots, the write   *)
(* queue and the ack of each frame.  The actions leave the rest of a       *)
(* session to the module that extends this one.                            *)
(*                                                                         *)
(* A closed Go channel is a flag that stays TRUE, a select takes any       *)
(* branch that is ready.  A frame is the name of the call that sends it.   *)
(* prepareSend is one step; SendAdmission takes it apart.                  *)
(***************************************************************************)
EXTENDS Integers, Sequences, FiniteSets, Functions

CONSTANTS
    Senders,     \* calls of Send and TrySend, one frame each
    TrySenders,  \* the ones among them that are TrySend
    WriteQueue   \* Config.WriteQueue: capacity of the queue

NoFrame == "noFrame"

ASSUME SendPathAssumption ==
    /\ IsFiniteSet(Senders) /\ NoFrame \notin Senders
    /\ TrySenders \subseteq Senders
    /\ WriteQueue \in Nat \ {0}

VARIABLES
    gateClosed,  \* sendGate.closed
    closing,     \* is the session's closing channel closed?
    active,      \* sendGate.active
    queue,       \* frames admitted and not yet taken by the writer
    held,        \* frame slots (and their bytes of quota) in use
    ack,         \* what the writer told each Send
    frame,       \* the frame the writer is working on
    admitted,    \* history: frames in the order they entered the queue
    written,     \* history: frames in the order they reached the socket
    spc, sres    \* senders: where they are, what they returned

sendVars == <<active, queue, held, ack, frame, admitted, written, spc, sres>>

SendTypeOK ==
    /\ gateClosed \in BOOLEAN /\ closing \in BOOLEAN
    /\ active \in 0..Cardinality(Senders)
    /\ Range(queue) \subseteq Senders /\ Len(queue) <= WriteQueue
    /\ held \in 0..(WriteQueue + 1)
    /\ ack \in [Senders -> {"none", "nil", "err"}]
    /\ frame \in Senders \cup {NoFrame}
    /\ spc \in [Senders -> {"idle", "entered", "prepared", "queued", "leaving", "returned"}]
    /\ sres \in [Senders -> {"none", "nil", "ctx", "block", "err"}]

\* calling: the calls that happen in this behaviour.
SendInit(calling) ==
    /\ gateClosed = FALSE /\ closing = FALSE
    /\ active = 0
    /\ queue = <<>> /\ held = 0 /\ frame = NoFrame
    /\ ack = [s \in Senders |-> "none"]
    /\ admitted = <<>> /\ written = <<>>
    /\ spc = [s \in Senders |-> IF s \in calling THEN "idle" ELSE "returned"]
    /\ sres = [s \in Senders |-> "none"]

\* A mutant: the gate counts as drained as soon as it is closed.
GateClosedOnly == gateClosed

\* sendGate.done.
gateDone == gateClosed /\ active = 0

----------------------------------------------------------------------------
(* Send and TrySend.                                                       *)

SendTo(s, label) == spc' = [spc EXCEPT ![s] = label]
SendReturns(s, r) == SendTo(s, "leaving") /\ sres' = [sres EXCEPT ![s] = r]

\* gate.enter.
Enter(s) ==
    /\ spc[s] = "idle"
    /\ \/ /\ ~ gateClosed
          /\ active' = active + 1
          /\ SendTo(s, "entered")
          /\ UNCHANGED sres
       \/ /\ gateClosed
          /\ SendTo(s, "returned")
          /\ sres' = [sres EXCEPT ![s] = "err"]
          /\ UNCHANGED active
    /\ UNCHANGED <<queue, held, ack, frame, admitted, written>>

\* prepareSend, prepareTrySend: a slot and its bytes, or an error and neither.
\* What a TrySend cannot have at once may also be the encoder or the bytes.
Prepare(s) ==
    /\ spc[s] = "entered"
    /\ \/ /\ held < WriteQueue + 1
          /\ held' = held + 1
          /\ SendTo(s, "prepared")
          /\ UNCHANGED sres
       \/ /\ closing
          /\ SendReturns(s, "err")
          /\ UNCHANGED held
       \/ /\ s \in TrySenders
          /\ SendReturns(s, "block")
          /\ UNCHANGED held
    /\ UNCHANGED <<active, queue, ack, frame, admitted, written>>

\* The message is invalid or does not encode.
Reject(s) ==
    /\ spc[s] = "entered"
    /\ SendReturns(s, "err")
    /\ UNCHANGED <<active, queue, held, ack, frame, admitted, written>>

\* The select that hands the frame to the writer or gives its slot back.
Enqueue(s) ==
    /\ spc[s] = "prepared"
    /\ \/ /\ Len(queue) < WriteQueue
          /\ queue' = Append(queue, s)
          /\ admitted' = Append(admitted, s)
          /\ IF s \in TrySenders THEN SendReturns(s, "nil")
                                 ELSE SendTo(s, "queued") /\ UNCHANGED sres
          /\ UNCHANGED held
       \/ /\ closing
          /\ held' = held - 1
          /\ SendReturns(s, "err")
          /\ UNCHANGED <<queue, admitted>>
       \/ /\ s \in TrySenders
          /\ ~ closing /\ Len(queue) = WriteQueue
          /\ held' = held - 1
          /\ SendReturns(s, "block")
          /\ UNCHANGED <<queue, admitted>>
    /\ UNCHANGED <<active, ack, frame, written>>

\* Send waits for the writer's ack, or sees closing and no ack.
AwaitAck(s) ==
    /\ spc[s] = "queued"
    /\ \/ ack[s] # "none" /\ SendReturns(s, ack[s])
       \/ closing /\ ack[s] = "none" /\ SendReturns(s, "err")
    /\ UNCHANGED <<active, queue, held, ack, frame, admitted, written>>

\* A mutant: a frame in the queue still counts as the Send's.
OwnsSlotWhenQueued(s) == spc[s] \in {"prepared", "queued"}

\* Does the Send, and not the writer, have to return its slot and bytes?
OwnsSlot(s) == spc[s] = "prepared"

\* The context of a blocked Send expires; a frame in the queue stays there.
SendExpires(s) ==
    /\ spc[s] \in {"entered", "prepared", "queued"}
    /\ s \notin TrySenders
    /\ SendReturns(s, "ctx")
    /\ held' = IF OwnsSlot(s) THEN held - 1 ELSE held
    /\ UNCHANGED <<active, queue, ack, frame, admitted, written>>

\* The deferred gate.leave.
Leave(s) ==
    /\ spc[s] = "leaving"
    /\ active' = active - 1
    /\ SendTo(s, "returned")
    /\ UNCHANGED <<queue, held, ack, frame, admitted, written, sres>>

SenderStep(s) == Prepare(s) \/ Enqueue(s) \/ AwaitAck(s) \/ Leave(s)

----------------------------------------------------------------------------
(* The writer's part.                                                      *)

\* The writer receives from the queue.
TakeFrame ==
    /\ queue # <<>>
    /\ frame' = Head(queue)
    /\ queue' = Tail(queue)
    /\ UNCHANGED <<active, held, ack, admitted, written, spc, sres>>

Acked(s, r) == IF s \in TrySenders THEN ack ELSE [ack EXCEPT ![s] = r]

\* handleOutbound, when the write succeeds: the slot is returned and the Send
\* told.
FrameWritten ==
    /\ written' = Append(written, frame)
    /\ held' = held - 1
    /\ ack' = Acked(frame, "nil")
    /\ frame' = NoFrame
    /\ UNCHANGED <<active, queue, admitted, spc, sres>>

\* handleOutbound, when it fails: the slot is returned first, and the Send is
\* told once the session is closing.
FrameFailed ==
    /\ held' = held - 1
    /\ UNCHANGED <<active, queue, ack, frame, admitted, written, spc, sres>>

TellFailure ==
    /\ ack' = Acked(frame, "err")
    /\ frame' = NoFrame
    /\ UNCHANGED <<active, queue, held, admitted, written, spc, sres>>

\* A mutant: failPending forgets the slots.
SlotsLost(n) == held

SlotsReturned(n) == held - n

\* failPending, after the gate has drained.
FailPending ==
    /\ gateDone
    /\ queue' = <<>>
    /\ held' = SlotsReturned(Len(queue))
    /\ ack' = [s \in Senders |->
                 IF s \in Range(queue) /\ s \notin TrySenders THEN "err" ELSE ack[s]]
    /\ UNCHANGED <<active, frame, admitted, written, spc, sres>>

----------------------------------------------------------------------------
(* What holds of every session.                                            *)

\* The slots of frames that are not in the hands of the writer.
SlotsOutsideWriter == Len(queue) + Cardinality({s \in Senders : spc[s] = "prepared"})

\* No frame, slot or caller is left behind, and every Send whose frame was
\* admitted has had its answer.
NothingLeftBehind ==
    /\ queue = <<>> /\ held = 0 /\ gateClosed /\ active = 0
    /\ \A s \in Range(admitted) \ TrySenders : ack[s] # "none"

\* A Send returns nil only for a frame that reached the socket.
NilSendIsWritten ==
    \A s \in Senders \ TrySenders : sres[s] = "nil" => s \in Range(written)

\* No Send is left waiting for ever for a slot, the queue or its ack (a TrySend
\* never waits).
SendsReturn == \A s \in Senders \ TrySenders : (spc[s] # "idle") ~> (spc[s] = "returned")
=============================================================================
