--------------------------- MODULE SendAdmission ---------------------------
(***************************************************************************)
(* The resources a Send must own before its frame enters the write queue   *)
(* (transport/admission.go, quota.go, globalByteQuota in limits.go): a     *)
(* frame slot and the encoder of its session, then the bytes of the frame  *)
(* in the session's budget, then in the Engine's.  The writer, an abort or *)
(* a failed enqueue returns them.                                          *)
(*                                                                         *)
(* A quota wakes its waiters by closing a channel they took under its      *)
(* lock: attached[q] is who holds the quota's current channel, woken is    *)
(* whose channel has been closed.                                          *)
(***************************************************************************)
EXTENDS Integers, FiniteSets, FiniteSetsExt

CONSTANTS
    Sends,       \* calls of Send and TrySend
    TrySends,    \* the ones among them that are TrySend
    Sessions,
    SessionOf,   \* Sends -> Sessions
    Size,        \* Sends -> length of the encoded frame
    WriteQueue,  \* Config.WriteQueue
    LocalLimit,  \* Config.MaxQueuedBytes
    GlobalLimit, \* Limits.MaxQueuedBytesTotal; 0 is unlimited
    Engine,      \* the name of the Engine's quota
    Nobody

Quotas == Sessions \cup {Engine}

ASSUME SendAssumption ==
    /\ TrySends \subseteq Sends
    /\ SessionOf \in [Sends -> Sessions]
    /\ Size \in [Sends -> Nat]
    /\ WriteQueue \in Nat
    /\ LocalLimit \in Nat
    /\ GlobalLimit \in Nat
    /\ Engine \notin Sessions
    /\ Nobody \notin Sends

VARIABLES
    slots,     \* frame slots in use, per session
    encoder,   \* who holds the encodeSlot, per session
    bytes,     \* bytes in use, per quota
    attached,  \* waiters on the current changed channel, per quota
    woken,     \* waiters whose channel has been closed
    closing,   \* sessions that are closing
    pc

sendVars == <<slots, encoder, bytes, attached, woken, closing, pc>>

Waiting == {"localWait", "globalWait"}
Labels == Waiting \cup {"idle", "slot", "encode", "local", "global", "ready", "freeGlobal",
                        "freeSlot", "dropLocal", "undo", "undoSlot", "end"}

SendTypeOK ==
    /\ slots \in [Sessions -> 0..(WriteQueue + 1)]
    /\ encoder \in [Sessions -> Sends \cup {Nobody}]
    /\ bytes \in [Quotas -> Nat]
    /\ attached \in [Quotas -> SUBSET Sends]
    /\ woken \in SUBSET Sends
    /\ closing \in SUBSET Sessions
    /\ pc \in [Sends -> Labels]

SendInit ==
    /\ slots = [c \in Sessions |-> 0]
    /\ encoder = [c \in Sessions |-> Nobody]
    /\ bytes = [q \in Quotas |-> 0]
    /\ attached = [q \in Quotas |-> {}]
    /\ woken = {}
    /\ closing = {}
    /\ pc = [s \in Sends |-> "idle"]

Goto(s, label) == pc' = [pc EXCEPT ![s] = label]

Limit(q) == IF q = Engine THEN GlobalLimit ELSE LocalLimit

\* What s costs in q: nothing in the Engine's quota when that is unlimited.
Charge(q, s) == IF q = Engine /\ GlobalLimit = 0 THEN 0 ELSE Size[s]

----------------------------------------------------------------------------
(* acquireFrameSlot, acquireEncoder, encode and their Try forms.           *)

SlotFree(c) == slots[c] < WriteQueue + 1

AcquireFrameSlot(s) ==
    LET c == SessionOf[s] IN
    /\ pc[s] = "idle"
    /\ \/ /\ SlotFree(c)
          /\ slots' = [slots EXCEPT ![c] = @ + 1]
          /\ Goto(s, "slot")
       \/ /\ c \in closing \/ (s \in TrySends /\ ~ SlotFree(c))
          /\ Goto(s, "end")
          /\ UNCHANGED slots
    /\ UNCHANGED <<encoder, bytes, attached, woken, closing>>

\* The encoder slot is given back at once when the session is closing.
AcquireEncoder(s) ==
    LET c == SessionOf[s] IN
    /\ pc[s] = "slot"
    /\ \/ /\ encoder[c] = Nobody
          /\ c \notin closing
          /\ encoder' = [encoder EXCEPT ![c] = s]
          /\ Goto(s, "encode")
       \/ /\ c \in closing \/ (s \in TrySends /\ encoder[c] # Nobody)
          /\ Goto(s, "undoSlot")
          /\ UNCHANGED encoder
    /\ UNCHANGED <<slots, bytes, attached, woken, closing>>

\* The framer encodes the message or fails.
Encode(s) ==
    /\ pc[s] = "encode"
    /\ \E label \in {"local", "undo"} : Goto(s, label)
    /\ UNCHANGED <<slots, encoder, bytes, attached, woken, closing>>

----------------------------------------------------------------------------
(* byteQuota and globalByteQuota.                                          *)

Fits(q, s) == bytes[q] + Charge(q, s) <= Limit(q)

\* One critical section of the acquire loop: take the bytes, or join the
\* waiters of the current channel.  tryAcquire gives up instead, and so does
\* everybody whose frame can never fit.
Take(q, s, got, wait, fail) ==
    \/ /\ Fits(q, s)
       /\ bytes' = [bytes EXCEPT ![q] = @ + Charge(q, s)]
       /\ Goto(s, got)
       /\ UNCHANGED <<attached, woken>>
    \/ /\ ~ Fits(q, s)
       /\ IF s \in TrySends \/ Size[s] > Limit(q)
          THEN Goto(s, fail) /\ UNCHANGED <<attached, woken>>
          ELSE /\ attached' = [attached EXCEPT ![q] = @ \cup {s}]
               /\ woken' = woken \ {s}
               /\ Goto(s, wait)
       /\ UNCHANGED bytes

AcquireLocal(s) ==
    /\ pc[s] = "local"
    /\ Take(SessionOf[s], s, "global", "localWait", "undo")
    /\ UNCHANGED <<slots, encoder, closing>>

\* The parent quota.  Success ends prepareSend, which hands the encoder back.
AcquireGlobal(s) ==
    /\ pc[s] = "global"
    /\ Take(Engine, s, "ready", "globalWait", "dropLocal")
    /\ encoder' = IF pc'[s] = "ready" THEN [encoder EXCEPT ![SessionOf[s]] = Nobody]
                                      ELSE encoder
    /\ UNCHANGED <<slots, closing>>

\* The select of a waiter: its channel was closed, or the session is closing.
Wake(s) ==
    /\ pc[s] \in Waiting
    /\ \/ /\ s \in woken
          /\ Goto(s, IF pc[s] = "localWait" THEN "local" ELSE "global")
       \/ /\ SessionOf[s] \in closing
          /\ Goto(s, IF pc[s] = "localWait" THEN "undo" ELSE "dropLocal")
    /\ UNCHANGED <<slots, encoder, bytes, attached, woken, closing>>

\* The context of a blocked Send expires.
Expire(s) ==
    /\ s \notin TrySends
    /\ \/ pc[s] = "idle" /\ Goto(s, "end")
       \/ pc[s] = "slot" /\ Goto(s, "undoSlot")
       \/ pc[s] = "localWait" /\ Goto(s, "undo")
       \/ pc[s] = "globalWait" /\ Goto(s, "dropLocal")
    /\ UNCHANGED <<slots, encoder, bytes, attached, woken, closing>>

\* A mutant: the bytes are returned and nobody is told.
KeepWaiting(q) == UNCHANGED <<attached, woken>>

\* The changed channel is closed and forgotten.
Notify(q) ==
    /\ woken' = woken \cup attached[q]
    /\ attached' = [attached EXCEPT ![q] = {}]

\* releaseLocal and globalByteQuota.release.
GiveBack(q, s) ==
    IF Charge(q, s) > 0
    THEN /\ bytes' = [bytes EXCEPT ![q] = IF @ < Size[s] THEN 0 ELSE @ - Size[s]]
         /\ Notify(q)
    ELSE UNCHANGED <<bytes, attached, woken>>

\* A mutant: a refusal by the Engine's quota forgets the session's bytes.
KeepLocal(s) ==
    /\ pc[s] = "dropLocal"
    /\ Goto(s, "undo")
    /\ UNCHANGED <<bytes, attached, woken>>
    /\ UNCHANGED <<slots, encoder, closing>>

\* The Engine's quota refused: the session's bytes are returned.
DropLocal(s) ==
    /\ pc[s] = "dropLocal"
    /\ GiveBack(SessionOf[s], s)
    /\ Goto(s, "undo")
    /\ UNCHANGED <<slots, encoder, closing>>

\* The deferred calls of prepareSend that fails: releaseEncoder, and then
\* releaseFrameSlot.
UndoEncoder(s) ==
    /\ pc[s] = "undo"
    /\ encoder' = [encoder EXCEPT ![SessionOf[s]] = Nobody]
    /\ Goto(s, "undoSlot")
    /\ UNCHANGED <<slots, bytes, attached, woken, closing>>

UndoSlot(s) ==
    /\ pc[s] = "undoSlot"
    /\ slots' = [slots EXCEPT ![SessionOf[s]] = @ - 1]
    /\ Goto(s, "end")
    /\ UNCHANGED <<encoder, bytes, attached, woken, closing>>

\* The frame has been written, failed or was never queued: quota.release, the
\* session's bytes before the Engine's, and then releaseFrameSlot.
ReleaseLocal(s) ==
    /\ pc[s] = "ready"
    /\ GiveBack(SessionOf[s], s)
    /\ Goto(s, "freeGlobal")
    /\ UNCHANGED <<slots, encoder, closing>>

ReleaseGlobal(s) ==
    /\ pc[s] = "freeGlobal"
    /\ GiveBack(Engine, s)
    /\ Goto(s, "freeSlot")
    /\ UNCHANGED <<slots, encoder, closing>>

ReleaseFrameSlot(s) ==
    /\ pc[s] = "freeSlot"
    /\ slots' = [slots EXCEPT ![SessionOf[s]] = @ - 1]
    /\ Goto(s, "end")
    /\ UNCHANGED <<encoder, bytes, attached, woken, closing>>

\* The session begins to close.
CloseSession(c) ==
    /\ c \notin closing
    /\ closing' = closing \cup {c}
    /\ UNCHANGED <<slots, encoder, bytes, attached, woken, pc>>

----------------------------------------------------------------------------
Step(s) ==
    \/ AcquireFrameSlot(s) \/ AcquireEncoder(s) \/ Encode(s)
    \/ AcquireLocal(s) \/ AcquireGlobal(s) \/ Wake(s)
    \/ DropLocal(s) \/ UndoEncoder(s) \/ UndoSlot(s)
    \/ ReleaseLocal(s) \/ ReleaseGlobal(s) \/ ReleaseFrameSlot(s)

SendNext ==
    \/ \E s \in Sends : Step(s) \/ Expire(s)
    \/ \E c \in Sessions : CloseSession(c)

SendSpec == SendInit /\ [][SendNext]_sendVars

Progress == \E s \in Sends : Step(s)

\* A goroutine that can go on does, and a writer ends every write.  Contexts
\* need not expire and sessions need not close.  Each element of Sends is one
\* call and takes finitely many steps, so the fairness of one is that of all.
SendFairSpec == SendSpec /\ WF_sendVars(Progress)

----------------------------------------------------------------------------
(* Properties                                                              *)

HoldsSlot(s) == pc[s] \notin {"idle", "end"}
HoldsEncoder(s) == pc[s] \in Waiting \cup {"encode", "local", "global", "dropLocal", "undo"}
HoldsLocal(s) == pc[s] \in {"global", "globalWait", "dropLocal", "ready"}
HoldsGlobal(s) == pc[s] \in {"ready", "freeGlobal"}
SendsOf(c) == {s \in Sends : SessionOf[s] = c}
SizeOf(S) == FoldSet(LAMBDA s, n : n + Size[s], 0, S)

\* Slots, encoders and bytes are accounted for exactly, whatever fails: each
\* session's counters are the sum over the Sends that own a part of them, and
\* the Engine's bytes the sum over all sessions.  No counter leaves its range.
AccountingExact ==
    /\ SendTypeOK
    /\ \A c \in Sessions :
         /\ slots[c] = Cardinality({s \in SendsOf(c) : HoldsSlot(s)})
         /\ bytes[c] = SizeOf({s \in SendsOf(c) : HoldsLocal(s)})
         /\ {s \in SendsOf(c) : HoldsEncoder(s)} \subseteq {encoder[c]}
         /\ encoder[c] # Nobody => HoldsEncoder(encoder[c])
    /\ bytes[Engine] = SizeOf({s \in Sends : GlobalLimit # 0 /\ HoldsGlobal(s)})

\* The budgets are never exceeded.
BudgetHeld ==
    /\ \A c \in Sessions : bytes[c] <= LocalLimit
    /\ bytes[Engine] <= GlobalLimit

\* No wake-up is lost: a Send that sleeps on a quota, and that nobody has woken,
\* is attached to the channel the next release closes, and does not fit now.
NoLostWakeup ==
    \A s \in Sends :
        (pc[s] \in Waiting /\ s \notin woken)
        => LET q == IF pc[s] = "localWait" THEN SessionOf[s] ELSE Engine
           IN  s \in attached[q] /\ ~ Fits(q, s)

\* The quotas are safe: no budget is exceeded and no wake-up is lost, in whatever
\* order the critical sections of byteQuota and globalByteQuota run.
QuotasSafe == BudgetHeld /\ NoLostWakeup

\* Every Send obtains its resources or is refused, and returns them: nobody
\* waits for ever on a slot, an encoder or a budget, although the encoder is
\* held while waiting for bytes.
SendsEnd == []<>(\A s \in Sends : pc[s] \in {"idle", "end"})
=============================================================================
