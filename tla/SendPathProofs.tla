--------------------------- MODULE SendPathProofs ---------------------------
(***************************************************************************)
(* What the gate, the slots and the queue of a session keep to, for any    *)
(* number of calls and any queue: the lemmas on Send, TrySend and the      *)
(* writer's handleOutbound and failPending that the proofs about sessions  *)
(* rest on.                                                                *)
(***************************************************************************)
EXTENDS SendPath, FiniteSetTheorems, TLAPS

\* The calls inside the gate, and the ones that hold a slot not yet queued.
Within == {s \in Senders : spc[s] \in {"entered", "prepared", "queued", "leaving"}}
Prepared == {s \in Senders : spc[s] = "prepared"}

\* Every frame that was admitted and not answered is in the queue or in the
\* hands of the writer, and nil is only ever said of a frame that was written.
Answers ==
    /\ \A s \in Range(admitted) \ TrySenders : ack[s] = "none" => s \in Range(queue) \/ s = frame
    /\ \A s \in Senders : ack[s] = "nil" => s \in Range(written)
    /\ NilSendIsWritten

\* What the gate, the slots and the queue keep to, when the writer holds b slots.
SendInv(b) ==
    /\ SendTypeOK
    /\ queue \in Seq(Senders) /\ admitted \in Seq(Senders) /\ written \in Seq(Senders)
    /\ active = Cardinality(Within)
    /\ held = SlotsOutsideWriter + b
    /\ Answers

\* What was admitted is what was written, the frame that is being written (when
\* b is 1) and what is queued, in this order.
InOrder(b) ==
    /\ Len(admitted) = Len(written) + b + Len(queue)
    /\ \A i \in 1..Len(written) : written[i] = admitted[i]
    /\ b = 1 => frame = admitted[Len(written) + 1]
    /\ \A i \in 1..Len(queue) : queue[i] = admitted[Len(written) + b + i]

NoneFailed == \A s \in Senders : ack[s] # "err"

\* Every frame that was ever admitted has been written, and no other will be.
Delivered == gateDone /\ queue = <<>> /\ written = admitted /\ NoneFailed

----------------------------------------------------------------------------
(* Counting calls, and sequences of frames.                                *)

At(labels) == {s \in Senders : spc[s] \in labels}

Labels == {"idle", "entered", "prepared", "queued", "leaving", "returned"}

LEMMA AtFinite ==
  ASSUME NEW labels
  PROVE  /\ IsFiniteSet(At(labels)) /\ Cardinality(At(labels)) \in Nat
         /\ Cardinality(At(labels)) <= Cardinality(Senders)
         /\ Cardinality(Senders) \in Nat
         /\ Cardinality(At(labels)) = 0 => At(labels) = {}
  <1>1. IsFiniteSet(Senders) /\ At(labels) \subseteq Senders
    BY SendPathAssumption DEF At
  <1>. QED
    BY <1>1, FS_Subset, FS_CardinalityType, FS_EmptySet

\* How many calls are at some labels, when one call moves.
LEMMA Moves ==
  ASSUME spc \in [Senders -> Labels], NEW s \in Senders, NEW label,
         spc' = [spc EXCEPT ![s] = label], NEW labels
  PROVE  /\ spc[s] \in labels /\ label \notin labels =>
              /\ Cardinality(At(labels)) > 0
              /\ Cardinality(At(labels)') = Cardinality(At(labels)) - 1
         /\ spc[s] \notin labels /\ label \in labels =>
              Cardinality(At(labels)') = Cardinality(At(labels)) + 1
         /\ (spc[s] \in labels <=> label \in labels) => At(labels)' = At(labels)
  <1>0. \A x \in Senders : spc'[x] = IF x = s THEN label ELSE spc[x]
    OBVIOUS
  <1>1. IsFiniteSet(At(labels)) /\ Cardinality(At(labels)) \in Nat
    BY AtFinite
  <1>2. ASSUME spc[s] \in labels, label \notin labels
        PROVE  /\ Cardinality(At(labels)) > 0
               /\ Cardinality(At(labels)') = Cardinality(At(labels)) - 1
    <2>1. At(labels)' = At(labels) \ {s} /\ s \in At(labels)
      BY <1>0, <1>2 DEF At
    <2>2. Cardinality(At(labels)') = Cardinality(At(labels)) - 1
      BY <1>1, <2>1, FS_RemoveElement
    <2>3. Cardinality(At(labels)) # 0
      BY <2>1, AtFinite
    <2>. QED
      BY <1>1, <2>2, <2>3
  <1>3. ASSUME spc[s] \notin labels, label \in labels
        PROVE  Cardinality(At(labels)') = Cardinality(At(labels)) + 1
    <2>1. At(labels)' = At(labels) \cup {s} /\ s \notin At(labels)
      BY <1>0, <1>3 DEF At
    <2>. QED
      BY <1>1, <2>1, FS_AddElement
  <1>4. ASSUME spc[s] \in labels <=> label \in labels PROVE At(labels)' = At(labels)
    BY <1>0, <1>4 DEF At
  <1>. QED
    BY <1>2, <1>3, <1>4

LEMMA Appended ==
  ASSUME NEW q \in Seq(Senders), NEW s \in Senders
  PROVE  /\ Append(q, s) \in Seq(Senders)
         /\ Len(Append(q, s)) = Len(q) + 1
         /\ \A i \in 1..Len(q) : Append(q, s)[i] = q[i]
         /\ Append(q, s)[Len(q) + 1] = s
         /\ Range(Append(q, s)) = Range(q) \cup {s}
  <1>1. /\ Append(q, s) \in Seq(Senders)
        /\ Len(Append(q, s)) = Len(q) + 1
        /\ \A i \in 1..Len(q) : Append(q, s)[i] = q[i]
        /\ Append(q, s)[Len(q) + 1] = s
    OBVIOUS
  <1>2. Range(Append(q, s)) = Range(q) \cup {s}
    BY DEF Range
  <1>. QED
    BY <1>1, <1>2

LEMMA InRange ==
  ASSUME NEW q \in Seq(Senders)
  PROVE  /\ Range(q) \subseteq Senders
         /\ \A i \in 1..Len(q) : q[i] \in Range(q)
         /\ \A s \in Range(q) : \E i \in 1..Len(q) : s = q[i]
  BY DEF Range

LEMMA Taken ==
  ASSUME NEW q \in Seq(Senders), q # <<>>
  PROVE  /\ Tail(q) \in Seq(Senders) /\ Head(q) \in Senders
         /\ Len(q) \in Nat /\ Len(q) > 0 /\ Len(Tail(q)) = Len(q) - 1
         /\ Head(q) = q[1]
         /\ \A i \in 1..Len(Tail(q)) : Tail(q)[i] = q[i + 1]
         /\ Range(q) = Range(Tail(q)) \cup {Head(q)}
  <1>1. /\ Tail(q) \in Seq(Senders) /\ Head(q) \in Senders
        /\ Len(q) \in Nat /\ Len(q) > 0 /\ Len(Tail(q)) = Len(q) - 1
        /\ Head(q) = q[1]
        /\ \A i \in 1..Len(Tail(q)) : Tail(q)[i] = q[i + 1]
    OBVIOUS
  <1>2. Range(q) = Range(Tail(q)) \cup {Head(q)}
    <2>1. ASSUME NEW i \in 1..Len(q) PROVE q[i] \in Range(Tail(q)) \cup {Head(q)}
      <3>1. CASE i = 1
        BY <1>1, <3>1
      <3>2. CASE i # 1
        <4>1. i - 1 \in 1..Len(Tail(q)) /\ Tail(q)[i - 1] = q[i]
          BY <1>1, <3>2
        <4>. QED
          BY <1>1, <4>1, InRange
      <3>. QED
        BY <3>1, <3>2
    <2>2. ASSUME NEW i \in 1..Len(Tail(q)) PROVE Tail(q)[i] \in Range(q)
      BY <1>1 DEF Range
    <2>3. Head(q) \in Range(q)
      BY <1>1 DEF Range
    <2>. QED
      BY <1>1, <2>1, <2>2, <2>3 DEF Range
  <1>. QED
    BY <1>1, <1>2

----------------------------------------------------------------------------
(* The steps of Send and TrySend.                                          *)

LEMMA Counts ==
  ASSUME NEW b \in {0, 1}, SendInv(b)
  PROVE  /\ spc \in [Senders -> Labels] /\ active = Cardinality(Within)
         /\ Within = At({"entered", "prepared", "queued", "leaving"})
         /\ Prepared = At({"prepared"})
         /\ Cardinality(Within) \in Nat /\ Cardinality(Prepared) \in Nat
         /\ held = Len(queue) + Cardinality(Prepared) + b
         /\ Len(queue) \in Nat /\ held \in Nat
         /\ active = 0 => Within = {}
  <1>1. /\ spc \in [Senders -> Labels] /\ active = Cardinality(Within)
        /\ queue \in Seq(Senders)
    BY DEF SendInv, SendTypeOK, Labels
  <1>2. /\ Within = At({"entered", "prepared", "queued", "leaving"})
        /\ Prepared = At({"prepared"})
    BY DEF Within, Prepared, At
  <1>3. /\ Cardinality(Within) \in Nat /\ Cardinality(Prepared) \in Nat
        /\ Cardinality(Within) = 0 => Within = {}
    BY <1>2, AtFinite
  <1>4. held = Len(queue) + Cardinality(Prepared) + b
    BY DEF SendInv, SlotsOutsideWriter, Prepared
  <1>5. Len(queue) \in Nat
    BY <1>1
  <1>. QED
    BY <1>1, <1>2, <1>3, <1>4, <1>5

\* The parts of SendInv, put together after a step.
LEMMA Rebuilt ==
  ASSUME NEW b \in {0, 1}, SendInv(b),
         gateClosed' \in BOOLEAN, closing' \in BOOLEAN,
         queue' \in Seq(Senders), Len(queue') <= WriteQueue, admitted' \in Seq(Senders),
         written' \in Seq(Senders), ack' \in [Senders -> {"none", "nil", "err"}],
         frame' \in Senders \cup {NoFrame}, spc' \in [Senders -> Labels],
         sres' \in [Senders -> {"none", "nil", "ctx", "block", "err"}],
         active' = Cardinality(Within'), NEW d \in {0, 1},
         held' = Len(queue') + Cardinality(Prepared') + d, held' <= WriteQueue + 1,
         Answers'
  PROVE  SendInv(d)'
  <1>1. /\ Within' = At({"entered", "prepared", "queued", "leaving"})'
        /\ Prepared' = At({"prepared"})'
    BY DEF Within, Prepared, At
  <1>2. /\ Cardinality(Within') \in 0..Cardinality(Senders)
        /\ Cardinality(Prepared') \in Nat
    <2>1. \A labels : /\ Cardinality(At(labels)') \in Nat
                      /\ Cardinality(At(labels)') <= Cardinality(Senders)
                      /\ Cardinality(Senders) \in Nat
      <3>1. ASSUME NEW labels PROVE /\ Cardinality(At(labels)') \in Nat
                                    /\ Cardinality(At(labels)') <= Cardinality(Senders)
                                    /\ Cardinality(Senders) \in Nat
        <4>1. IsFiniteSet(Senders) /\ At(labels)' \subseteq Senders
          BY SendPathAssumption DEF At
        <4>. QED
          BY <4>1, FS_Subset, FS_CardinalityType
      <3>. QED
        BY <3>1
    <2>. QED
      BY <1>1, <2>1
  <1>3. WriteQueue \in Nat
    BY SendPathAssumption
  <1>4. held' \in 0..(WriteQueue + 1)
    BY <1>2, <1>3
  <1>5. Range(queue') \subseteq Senders
    BY InRange
  <1>6. SendTypeOK'
    BY <1>2, <1>4, <1>5 DEF SendTypeOK, Labels
  <1>7. held' = SlotsOutsideWriter' + d
    BY DEF SlotsOutsideWriter, Prepared
  <1>. QED
    BY <1>6, <1>7 DEF SendInv

\* Steps that leave the frames, the acks and the writer alone.
LEMMA AnswersKept ==
  ASSUME Answers, NEW b \in {0, 1}, SendInv(b), UNCHANGED <<queue, ack, frame, admitted, written>>,
         \A s \in Senders \ TrySenders : sres'[s] = "nil" => sres[s] = "nil" \/ ack[s] = "nil"
  PROVE  Answers'
  <1>1. \A s \in Range(admitted') \ TrySenders :
          ack'[s] = "none" => s \in Range(queue') \/ s = frame'
    BY DEF Answers
  <1>2. \A s \in Senders : ack'[s] = "nil" => s \in Range(written')
    BY DEF Answers
  <1>3. NilSendIsWritten'
    BY DEF Answers, NilSendIsWritten
  <1>. QED
    BY <1>1, <1>2, <1>3 DEF Answers

Inside == {"entered", "prepared", "queued", "leaving"}
Holding == {"prepared"}
Results == {"none", "nil", "ctx", "block", "err"}

LEMMA InsideMoves ==
  ASSUME spc \in [Senders -> Labels], NEW s \in Senders, NEW label,
         spc' = [spc EXCEPT ![s] = label]
  PROVE  /\ spc[s] \in Inside /\ label \notin Inside =>
              Cardinality(At(Inside)') = Cardinality(At(Inside)) - 1
         /\ spc[s] \notin Inside /\ label \in Inside =>
              Cardinality(At(Inside)') = Cardinality(At(Inside)) + 1
         /\ (spc[s] \in Inside <=> label \in Inside) => At(Inside)' = At(Inside)
  BY Moves

LEMMA HoldingMoves ==
  ASSUME spc \in [Senders -> Labels], NEW s \in Senders, NEW label,
         spc' = [spc EXCEPT ![s] = label]
  PROVE  /\ spc[s] \in Holding /\ label \notin Holding =>
              Cardinality(At(Holding)') = Cardinality(At(Holding)) - 1
         /\ spc[s] \notin Holding /\ label \in Holding =>
              Cardinality(At(Holding)') = Cardinality(At(Holding)) + 1
         /\ (spc[s] \in Holding <=> label \in Holding) => At(Holding)' = At(Holding)
  BY Moves

\* A call moves, with or without a result, and no frame does.
LEMMA CallMoves ==
  ASSUME NEW b \in {0, 1}, SendInv(b), NEW s \in Senders, NEW label \in Labels,
         SendTo(s, label), UNCHANGED <<gateClosed, closing, queue, ack, frame, admitted, written>>,
         sres' = sres \/ \E r \in Results : /\ sres' = [sres EXCEPT ![s] = r]
                                            /\ r = "nil" => ack[s] = "nil",
         spc[s] \in Inside /\ label \in Inside => active' = active,
         spc[s] \in Inside /\ label \notin Inside => active' = active - 1,
         spc[s] \notin Inside /\ label \in Inside => active' = active + 1,
         spc[s] \notin Inside /\ label \notin Inside => active' = active,
         spc[s] = "prepared" /\ label # "prepared" => held' = held - 1,
         spc[s] # "prepared" /\ label = "prepared" => held' = held + 1 /\ held < WriteQueue + 1,
         (spc[s] = "prepared" <=> label = "prepared") => held' = held
  PROVE  SendInv(b)'
  <1>1. /\ spc \in [Senders -> Labels] /\ active = Cardinality(Within)
        /\ Within = At(Inside) /\ Prepared = At(Holding)
        /\ Cardinality(Within) \in Nat /\ Cardinality(Prepared) \in Nat
        /\ held = Len(queue) + Cardinality(Prepared) + b
        /\ Len(queue) \in Nat /\ held \in Nat
    BY Counts DEF Inside, Holding
  <1>2. Within' = At(Inside)' /\ Prepared' = At(Holding)'
    BY DEF Within, Prepared, At, Inside, Holding
  <1>3. spc' = [spc EXCEPT ![s] = label]
    BY DEF SendTo
  <1>4. /\ spc[s] \in Inside /\ label \notin Inside =>
             Cardinality(Within') = Cardinality(Within) - 1
        /\ spc[s] \notin Inside /\ label \in Inside =>
             Cardinality(Within') = Cardinality(Within) + 1
        /\ (spc[s] \in Inside <=> label \in Inside) => Within' = Within
    BY <1>1, <1>2, <1>3, InsideMoves
  <1>5. active' = Cardinality(Within')
    BY <1>1, <1>4
  <1>6. /\ spc[s] \in Holding /\ label \notin Holding =>
             Cardinality(Prepared') = Cardinality(Prepared) - 1
        /\ spc[s] \notin Holding /\ label \in Holding =>
             Cardinality(Prepared') = Cardinality(Prepared) + 1
        /\ (spc[s] \in Holding <=> label \in Holding) => Prepared' = Prepared
    BY <1>1, <1>2, <1>3, HoldingMoves
  <1>7. held' = Len(queue') + Cardinality(Prepared') + b
    BY <1>1, <1>6 DEF Holding
  <1>8. held <= WriteQueue + 1 /\ WriteQueue \in Nat
    BY SendPathAssumption DEF SendInv, SendTypeOK
  <1>9. held' <= WriteQueue + 1
    <2>1. held' \in {held, held - 1} \/ (held' = held + 1 /\ held < WriteQueue + 1)
      OBVIOUS
    <2>2. held \in Nat
      BY <1>1
    <2>. QED
      BY <1>8, <2>1, <2>2
  <1>10. sres \in [Senders -> Results]
    BY DEF SendInv, SendTypeOK, Results
  <1>11. sres' \in [Senders -> Results]
    BY <1>10
  <1>12. \A x \in Senders \ TrySenders : sres'[x] = "nil" => sres[x] = "nil" \/ ack[x] = "nil"
    BY <1>10
  <1>13. Answers'
    BY <1>12, AnswersKept DEF SendInv
  <1>14. spc' \in [Senders -> Labels]
    BY <1>1, <1>3
  <1>15. /\ gateClosed \in BOOLEAN /\ closing \in BOOLEAN /\ Len(queue) <= WriteQueue
         /\ ack \in [Senders -> {"none", "nil", "err"}] /\ frame \in Senders \cup {NoFrame}
         /\ queue \in Seq(Senders) /\ admitted \in Seq(Senders) /\ written \in Seq(Senders)
    BY DEF SendInv, SendTypeOK
  <1>. QED
    BY <1>5, <1>7, <1>9, <1>11, <1>13, <1>14, <1>15, Rebuilt DEF Results

\* What a step of a sender leaves alone.
Calm(b) ==
    /\ UNCHANGED <<ack, frame, written>>
    /\ InOrder(b) => InOrder(b)'
    /\ gateDone => gateDone' /\ UNCHANGED <<queue, admitted>>

\* Once the gate has drained nobody is inside.
LEMMA Drained ==
  ASSUME NEW b \in {0, 1}, SendInv(b), gateDone
  PROVE  Within = {} /\ \A s \in Senders : spc[s] \in {"idle", "returned"}
  <1>1. Within = {} /\ spc \in [Senders -> Labels]
    BY Counts DEF gateDone
  <1>. QED
    BY <1>1 DEF Within, Labels

LEMMA OrderKept ==
  ASSUME NEW b \in {0, 1}, UNCHANGED <<queue, frame, admitted, written>>
  PROVE  InOrder(b) => InOrder(b)'
  BY DEF InOrder

LEMMA EnterInv ==
  ASSUME NEW b \in {0, 1}, SendInv(b), NEW s \in Senders, Enter(s), UNCHANGED <<gateClosed, closing>>
  PROVE  SendInv(b)' /\ Calm(b)
  <1>1. spc[s] = "idle" /\ UNCHANGED <<queue, held, ack, frame, admitted, written>>
    BY DEF Enter
  <1>2. CASE ~ gateClosed
    <2>1. active' = active + 1 /\ SendTo(s, "entered") /\ sres' = sres
      BY <1>2 DEF Enter
    <2>2. SendInv(b)'
      BY <1>1, <2>1, CallMoves DEF Inside, Labels
    <2>. QED
      BY <1>1, <1>2, <2>2, OrderKept DEF Calm, gateDone
  <1>3. CASE gateClosed
    <2>1. active' = active /\ SendTo(s, "returned") /\ sres' = [sres EXCEPT ![s] = "err"]
      BY <1>3 DEF Enter
    <2>2. SendInv(b)'
      BY <1>1, <2>1, CallMoves DEF Inside, Labels, Results
    <2>. QED
      BY <1>1, <2>1, <2>2, OrderKept DEF Calm, gateDone
  <1>. QED
    BY <1>2, <1>3

\* A call inside the gate moves to another place inside, or leaves it.
LEMMA InsideInv ==
  ASSUME NEW b \in {0, 1}, SendInv(b), NEW s \in Senders,
         Prepare(s) \/ Reject(s) \/ AwaitAck(s) \/ SendExpires(s) \/ Leave(s),
         UNCHANGED <<gateClosed, closing>>
  PROVE  SendInv(b)' /\ Calm(b)
  <1>1. spc[s] \in Inside /\ UNCHANGED <<queue, ack, frame, admitted, written>>
    BY DEF Prepare, Reject, AwaitAck, SendExpires, Leave, Inside
  <1>2. Calm(b)
    BY <1>1, Drained, OrderKept DEF Calm, Inside
  <1>3. ASSUME Prepare(s) PROVE SendInv(b)'
    <2>1. spc[s] = "entered" /\ active' = active
      BY <1>3 DEF Prepare
    <2>2. CASE held < WriteQueue + 1 /\ held' = held + 1 /\ SendTo(s, "prepared") /\ sres' = sres
      BY <1>1, <2>1, <2>2, CallMoves DEF Inside, Labels
    <2>3. ASSUME NEW r \in {"err", "block"}, SendReturns(s, r), held' = held PROVE SendInv(b)'
      <3>1. SendTo(s, "leaving") /\ sres' = [sres EXCEPT ![s] = r] /\ r \in Results /\ r # "nil"
        BY <2>3 DEF SendReturns, Results
      <3>. QED
        BY <1>1, <2>1, <2>3, <3>1, CallMoves DEF Inside, Labels
    <2>. QED
      BY <1>3, <2>2, <2>3 DEF Prepare
  <1>4. ASSUME Reject(s) PROVE SendInv(b)'
    <2>1. /\ spc[s] = "entered" /\ UNCHANGED <<active, held>>
          /\ SendTo(s, "leaving") /\ sres' = [sres EXCEPT ![s] = "err"]
      BY <1>4 DEF Reject, SendReturns
    <2>. QED
      BY <1>1, <2>1, CallMoves DEF Inside, Labels, Results
  <1>5. ASSUME AwaitAck(s) PROVE SendInv(b)'
    <2>1. spc[s] = "queued" /\ UNCHANGED <<active, held>> /\ SendTo(s, "leaving")
      BY <1>5 DEF AwaitAck, SendReturns
    <2>2. \E r \in Results : sres' = [sres EXCEPT ![s] = r] /\ (r = "nil" => ack[s] = "nil")
      <3>1. ack[s] \in {"none", "nil", "err"}
        BY DEF SendInv, SendTypeOK
      <3>2. sres' = [sres EXCEPT ![s] = ack[s]] \/ sres' = [sres EXCEPT ![s] = "err"]
        BY <1>5 DEF AwaitAck, SendReturns
      <3>. QED
        BY <3>1, <3>2 DEF Results
    <2>. QED
      BY <1>1, <2>1, <2>2, CallMoves DEF Inside, Labels
  <1>6. ASSUME SendExpires(s) PROVE SendInv(b)'
    <2>1. /\ spc[s] \in {"entered", "prepared", "queued"} /\ active' = active
          /\ SendTo(s, "leaving") /\ sres' = [sres EXCEPT ![s] = "ctx"]
          /\ spc[s] = "prepared" => held' = held - 1
          /\ spc[s] # "prepared" => held' = held
      BY <1>6 DEF SendExpires, SendReturns, OwnsSlot
    <2>. QED
      BY <1>1, <2>1, CallMoves DEF Inside, Labels, Results
  <1>7. ASSUME Leave(s) PROVE SendInv(b)'
    <2>1. /\ spc[s] = "leaving" /\ active' = active - 1 /\ held' = held
          /\ SendTo(s, "returned") /\ sres' = sres
      BY <1>7 DEF Leave
    <2>. QED
      BY <1>1, <2>1, CallMoves DEF Inside, Labels
  <1>. QED
    BY <1>2, <1>3, <1>4, <1>5, <1>6, <1>7

\* The frame enters the queue, or its slot is given back.
LEMMA EnqueueInv ==
  ASSUME NEW b \in {0, 1}, SendInv(b), NEW s \in Senders, Enqueue(s), UNCHANGED <<gateClosed, closing>>
  PROVE  SendInv(b)' /\ Calm(b)
  <1>1. spc[s] = "prepared" /\ UNCHANGED <<active, ack, frame, written>>
    BY DEF Enqueue
  <1>2. ~ gateDone
    BY <1>1, Drained
  <1>3. ASSUME NEW r \in {"err", "block"}, SendReturns(s, r), held' = held - 1,
               UNCHANGED <<queue, admitted>>
        PROVE  SendInv(b)' /\ Calm(b)
    <2>1. SendTo(s, "leaving") /\ sres' = [sres EXCEPT ![s] = r] /\ r \in Results /\ r # "nil"
      BY <1>3 DEF SendReturns, Results
    <2>2. SendInv(b)'
      BY <1>1, <1>3, <2>1, CallMoves DEF Inside, Labels
    <2>. QED
      BY <1>1, <1>2, <1>3, <2>2, OrderKept DEF Calm
  <1>4. ASSUME Len(queue) < WriteQueue, queue' = Append(queue, s), admitted' = Append(admitted, s),
               held' = held, NEW label \in {"leaving", "queued"}, SendTo(s, label),
               sres' = sres \/ (s \in TrySenders /\ sres' = [sres EXCEPT ![s] = "nil"])
        PROVE  SendInv(b)' /\ Calm(b)
    <2>0. /\ queue \in Seq(Senders) /\ admitted \in Seq(Senders) /\ written \in Seq(Senders)
          /\ Len(queue) \in Nat /\ Len(written) \in Nat /\ Len(admitted) \in Nat
          /\ sres \in [Senders -> Results] /\ WriteQueue \in Nat
      BY SendPathAssumption DEF SendInv, SendTypeOK, Results
    <2>1. /\ queue' \in Seq(Senders) /\ Len(queue') = Len(queue) + 1
          /\ \A i \in 1..Len(queue) : queue'[i] = queue[i]
          /\ queue'[Len(queue) + 1] = s /\ Range(queue') = Range(queue) \cup {s}
      BY <1>4, <2>0, Appended
    <2>2. /\ admitted' \in Seq(Senders) /\ Len(admitted') = Len(admitted) + 1
          /\ \A i \in 1..Len(admitted) : admitted'[i] = admitted[i]
          /\ admitted'[Len(admitted) + 1] = s /\ Range(admitted') = Range(admitted) \cup {s}
      BY <1>4, <2>0, Appended
    <2>3. Answers'
      <3>1. \A x \in Range(admitted') \ TrySenders :
              ack'[x] = "none" => x \in Range(queue') \/ x = frame'
        BY <1>1, <2>1, <2>2 DEF SendInv, Answers
      <3>2. \A x \in Senders : ack'[x] = "nil" => x \in Range(written')
        BY <1>1 DEF SendInv, Answers
      <3>3. \A x \in Senders \ TrySenders : sres'[x] = sres[x]
        BY <1>4, <2>0
      <3>4. NilSendIsWritten'
        BY <1>1, <3>3 DEF SendInv, Answers, NilSendIsWritten
      <3>. QED
        BY <3>1, <3>2, <3>4 DEF Answers
    <2>4. /\ spc \in [Senders -> Labels] /\ active = Cardinality(Within)
          /\ Within = At(Inside) /\ Prepared = At(Holding)
          /\ Cardinality(Prepared) \in Nat
          /\ held = Len(queue) + Cardinality(Prepared) + b
      BY Counts DEF Inside, Holding
    <2>5. Within' = At(Inside)' /\ Prepared' = At(Holding)'
      BY DEF Within, Prepared, At, Inside, Holding
    <2>6. spc' = [spc EXCEPT ![s] = label] /\ label \in Inside /\ label \notin Holding
      BY <1>4 DEF SendTo, Inside, Holding
    <2>7. Within' = Within
      BY <1>1, <2>4, <2>5, <2>6, Moves DEF Inside
    <2>8. Cardinality(Prepared') = Cardinality(Prepared) - 1
      BY <1>1, <2>4, <2>5, <2>6, Moves DEF Holding
    <2>9. held' = Len(queue') + Cardinality(Prepared') + b
      BY <1>4, <2>0, <2>1, <2>4, <2>8
    <2>10. /\ gateClosed \in BOOLEAN /\ closing \in BOOLEAN /\ held <= WriteQueue + 1
           /\ ack \in [Senders -> {"none", "nil", "err"}] /\ frame \in Senders \cup {NoFrame}
      BY DEF SendInv, SendTypeOK
    <2>11. spc' \in [Senders -> Labels] /\ sres' \in [Senders -> Results]
      BY <1>4, <2>0, <2>4, <2>6 DEF Labels, Results
    <2>12. Len(queue') <= WriteQueue
      BY <1>4, <2>0, <2>1
    <2>13. SendInv(b)'
      BY <1>1, <1>4, <2>0, <2>1, <2>2, <2>3, <2>4, <2>7, <2>9, <2>10, <2>11, <2>12, Rebuilt
         DEF Results
    <2>14. InOrder(b) => InOrder(b)'
      <3>. SUFFICES ASSUME InOrder(b) PROVE InOrder(b)'
        OBVIOUS
      <3>1. Len(admitted') = Len(written') + b + Len(queue')
        BY <1>1, <2>0, <2>1, <2>2 DEF InOrder
      <3>2. \A i \in 1..Len(written') : written'[i] = admitted'[i]
        BY <1>1, <2>0, <2>2 DEF InOrder
      <3>3. b = 1 => frame' = admitted'[Len(written') + 1]
        BY <1>1, <2>0, <2>2 DEF InOrder
      <3>4. ASSUME NEW i \in 1..Len(queue') PROVE queue'[i] = admitted'[Len(written') + b + i]
        <4>1. CASE i = Len(queue) + 1
          BY <1>1, <2>0, <2>1, <2>2, <4>1 DEF InOrder
        <4>2. CASE i # Len(queue) + 1
          <5>1. i \in 1..Len(queue) /\ Len(written) + b + i \in 1..Len(admitted)
            BY <2>0, <2>1, <4>2 DEF InOrder
          <5>. QED
            BY <1>1, <2>1, <2>2, <5>1 DEF InOrder
        <4>. QED
          BY <4>1, <4>2
      <3>. QED
        BY <3>1, <3>2, <3>3, <3>4 DEF InOrder
    <2>. QED
      BY <1>1, <1>2, <2>13, <2>14 DEF Calm
  <1>. QED
    BY <1>3, <1>4 DEF Enqueue, SendReturns

\* Any step of Send or TrySend.
LEMMA SenderInv ==
  ASSUME NEW b \in {0, 1}, SendInv(b), NEW s \in Senders,
         Enter(s) \/ SenderStep(s) \/ Reject(s) \/ SendExpires(s), UNCHANGED <<gateClosed, closing>>
  PROVE  SendInv(b)' /\ Calm(b)
  BY EnterInv, InsideInv, EnqueueInv DEF SenderStep

----------------------------------------------------------------------------
(* The writer's steps.                                                     *)

\* What the writer's steps never touch.
LEMMA WriterTypes ==
  ASSUME NEW b \in {0, 1}, SendInv(b)
  PROVE  /\ queue \in Seq(Senders) /\ admitted \in Seq(Senders) /\ written \in Seq(Senders)
         /\ Len(queue) \in Nat /\ Len(admitted) \in Nat /\ Len(written) \in Nat
         /\ Len(queue) <= WriteQueue /\ WriteQueue \in Nat
         /\ ack \in [Senders -> {"none", "nil", "err"}] /\ frame \in Senders \cup {NoFrame}
         /\ spc \in [Senders -> Labels] /\ sres \in [Senders -> Results]
         /\ gateClosed \in BOOLEAN /\ closing \in BOOLEAN
         /\ active = Cardinality(Within) /\ Cardinality(Prepared) \in Nat
         /\ held = Len(queue) + Cardinality(Prepared) + b /\ held <= WriteQueue + 1
  <1>1. active = Cardinality(Within) /\ Cardinality(Prepared) \in Nat
    BY Counts
  <1>2. held = Len(queue) + Cardinality(Prepared) + b
    BY Counts
  <1>. QED
    BY <1>1, <1>2, SendPathAssumption DEF SendInv, SendTypeOK, Labels, Results

\* A step of the writer, which moves no call.
LEMMA WriterRebuilt ==
  ASSUME NEW b \in {0, 1}, SendInv(b), NEW d \in {0, 1},
         UNCHANGED <<gateClosed, closing, active, admitted, spc, sres>>,
         queue' \in Seq(Senders), Len(queue') <= Len(queue), written' \in Seq(Senders),
         ack' \in [Senders -> {"none", "nil", "err"}], frame' \in Senders \cup {NoFrame},
         held' = Len(queue') + Cardinality(Prepared) + d, held' <= held, Answers'
  PROVE  SendInv(d)'
  <1>1. Within' = Within /\ Prepared' = Prepared
    BY DEF Within, Prepared
  <1>2. Len(queue') <= WriteQueue /\ held' <= WriteQueue + 1
    <2>1. /\ Len(queue) \in Nat /\ Len(queue) <= WriteQueue /\ WriteQueue \in Nat
          /\ Cardinality(Prepared) \in Nat
          /\ held = Len(queue) + Cardinality(Prepared) + b /\ held <= WriteQueue + 1
      BY WriterTypes
    <2>2. Len(queue') \in Nat
      OBVIOUS
    <2>. QED
      BY <2>1, <2>2
  <1>. QED
    BY <1>1, <1>2, WriterTypes, Rebuilt DEF Results

LEMMA TakeFrameInv ==
  ASSUME SendInv(0), InOrder(0), frame \notin Senders, TakeFrame, UNCHANGED <<gateClosed, closing>>
  PROVE  SendInv(1)' /\ InOrder(1)' /\ frame' \in Senders /\ UNCHANGED ack
  <1>0. /\ queue \in Seq(Senders) /\ admitted \in Seq(Senders)
        /\ Len(admitted) \in Nat /\ Len(written) \in Nat
        /\ held = Len(queue) + Cardinality(Prepared) /\ Cardinality(Prepared) \in Nat
    BY WriterTypes
  <1>1. /\ queue # <<>> /\ frame' = Head(queue) /\ queue' = Tail(queue)
        /\ UNCHANGED <<active, held, ack, admitted, written, spc, sres>>
    BY DEF TakeFrame
  <1>2. /\ queue' \in Seq(Senders) /\ frame' \in Senders
        /\ Len(queue) \in Nat /\ Len(queue) > 0 /\ Len(queue') = Len(queue) - 1
        /\ frame' = queue[1]
        /\ \A i \in 1..Len(queue') : queue'[i] = queue[i + 1]
        /\ Range(queue) = Range(queue') \cup {frame'}
    BY <1>0, <1>1, Taken
  <1>3. Answers'
    <2>1. \A s \in Range(admitted') \ TrySenders :
            ack'[s] = "none" => s \in Range(queue') \/ s = frame'
      <3>1. Range(admitted) \subseteq Senders
        BY <1>0, InRange
      <3>. QED
        BY <1>1, <1>2, <3>1 DEF SendInv, Answers
    <2>2. \A s \in Senders : ack'[s] = "nil" => s \in Range(written')
      BY <1>1 DEF SendInv, Answers
    <2>3. NilSendIsWritten'
      BY <1>1 DEF SendInv, Answers, NilSendIsWritten
    <2>. QED
      BY <2>1, <2>2, <2>3 DEF Answers
  <1>4. held' = Len(queue') + Cardinality(Prepared) + 1 /\ held' <= held
    BY <1>0, <1>1, <1>2
  <1>5. SendInv(1)'
    BY <1>1, <1>2, <1>3, <1>4, WriterTypes, WriterRebuilt
  <1>6. Len(admitted') = Len(written') + 1 + Len(queue')
    <2>1. Len(admitted) = Len(written) + 0 + Len(queue)
      BY DEF InOrder
    <2>2. Len(written') = Len(written) /\ Len(admitted') = Len(admitted)
      BY <1>1
    <2>. QED
      BY <1>0, <1>2, <2>1, <2>2
  <1>7. \A i \in 1..Len(written') : written'[i] = admitted'[i]
    BY <1>1 DEF InOrder
  <1>8. frame' = admitted'[Len(written') + 1]
    <2>1. queue[1] = admitted[Len(written) + 0 + 1]
      BY <1>2 DEF InOrder
    <2>. QED
      BY <1>0, <1>1, <1>2, <2>1
  <1>9. ASSUME NEW i \in 1..Len(queue') PROVE queue'[i] = admitted'[Len(written') + 1 + i]
    <2>1. i + 1 \in 1..Len(queue)
      BY <1>2
    <2>2. queue[i + 1] = admitted[Len(written) + 0 + (i + 1)]
      BY <2>1 DEF InOrder
    <2>3. Len(written) + 0 + (i + 1) = Len(written) + 1 + i
      BY <1>0, <1>2
    <2>. QED
      BY <1>1, <1>2, <2>2, <2>3
  <1>10. InOrder(1)'
    BY <1>6, <1>7, <1>8, <1>9 DEF InOrder
  <1>. QED
    BY <1>1, <1>2, <1>5, <1>10

LEMMA AckedType ==
  ASSUME NEW b \in {0, 1}, SendInv(b), frame \in Senders, NEW r \in {"nil", "err"}, ack' = Acked(frame, r)
  PROVE  /\ ack' \in [Senders -> {"none", "nil", "err"}]
         /\ \A s \in Senders \ {frame} : ack'[s] = ack[s]
         /\ frame \in TrySenders => ack' = ack
         /\ frame \notin TrySenders => ack'[frame] = r
  <1>1. ack \in [Senders -> {"none", "nil", "err"}]
    BY WriterTypes
  <1>. QED
    BY <1>1 DEF Acked

LEMMA FrameWrittenInv ==
  ASSUME SendInv(1), InOrder(1), frame \in Senders, FrameWritten, UNCHANGED <<gateClosed, closing>>
  PROVE  SendInv(0)' /\ InOrder(0)' /\ frame' = NoFrame /\ (NoneFailed => NoneFailed')
  <1>0. /\ queue \in Seq(Senders) /\ admitted \in Seq(Senders) /\ written \in Seq(Senders)
        /\ Len(queue) \in Nat /\ Len(admitted) \in Nat /\ Len(written) \in Nat
        /\ held = Len(queue) + Cardinality(Prepared) + 1 /\ Cardinality(Prepared) \in Nat
    BY WriterTypes
  <1>1. /\ written' = Append(written, frame) /\ held' = held - 1 /\ ack' = Acked(frame, "nil")
        /\ frame' = NoFrame /\ UNCHANGED <<active, queue, admitted, spc, sres>>
    BY DEF FrameWritten
  <1>2. /\ written' \in Seq(Senders) /\ Len(written') = Len(written) + 1
        /\ \A i \in 1..Len(written) : written'[i] = written[i]
        /\ written'[Len(written) + 1] = frame /\ Range(written') = Range(written) \cup {frame}
    BY <1>0, <1>1, Appended
  <1>3. /\ ack' \in [Senders -> {"none", "nil", "err"}]
        /\ \A s \in Senders \ {frame} : ack'[s] = ack[s]
        /\ frame \in TrySenders => ack' = ack
        /\ frame \notin TrySenders => ack'[frame] = "nil"
    BY <1>1, AckedType
  <1>4. Answers'
    <2>1. \A s \in Range(admitted') \ TrySenders :
            ack'[s] = "none" => s \in Range(queue') \/ s = frame'
      <3>1. Range(admitted) \subseteq Senders
        BY <1>0, InRange
      <3>. QED
        BY <1>1, <1>3, <3>1 DEF SendInv, Answers
    <2>2. \A s \in Senders : ack'[s] = "nil" => s \in Range(written')
      BY <1>2, <1>3 DEF SendInv, Answers
    <2>3. NilSendIsWritten'
      BY <1>1, <1>2 DEF SendInv, Answers, NilSendIsWritten
    <2>. QED
      BY <2>1, <2>2, <2>3 DEF Answers
  <1>5. held' = Len(queue') + Cardinality(Prepared) + 0 /\ held' <= held /\ Len(queue') <= Len(queue)
    BY <1>0, <1>1
  <1>6. SendInv(0)'
    BY <1>0, <1>1, <1>2, <1>3, <1>4, <1>5, WriterRebuilt
  <1>7. Len(admitted') = Len(written') + 0 + Len(queue')
    BY <1>0, <1>1, <1>2 DEF InOrder
  <1>8. ASSUME NEW i \in 1..Len(written') PROVE written'[i] = admitted'[i]
    <2>1. CASE i = Len(written) + 1
      BY <1>1, <1>2, <2>1 DEF InOrder
    <2>2. CASE i # Len(written) + 1
      <3>1. i \in 1..Len(written)
        BY <1>0, <1>2, <2>2
      <3>. QED
        BY <1>1, <1>2, <3>1 DEF InOrder
    <2>. QED
      BY <2>1, <2>2
  <1>9. ASSUME NEW i \in 1..Len(queue') PROVE queue'[i] = admitted'[Len(written') + 0 + i]
    <2>1. queue[i] = admitted[Len(written) + 1 + i]
      BY <1>1 DEF InOrder
    <2>2. Len(written') + 0 + i = Len(written) + 1 + i
      BY <1>0, <1>1, <1>2
    <2>. QED
      BY <1>1, <2>1, <2>2
  <1>10. InOrder(0)'
    BY <1>7, <1>8, <1>9 DEF InOrder
  <1>11. NoneFailed => NoneFailed'
    BY <1>3 DEF NoneFailed
  <1>. QED
    BY <1>1, <1>6, <1>10, <1>11

LEMMA FrameFailedInv ==
  ASSUME SendInv(1), FrameFailed, UNCHANGED <<gateClosed, closing>>
  PROVE  SendInv(0)' /\ UNCHANGED <<ack, frame>>
  <1>1. held' = held - 1 /\ UNCHANGED <<active, queue, ack, frame, admitted, written, spc, sres>>
    BY DEF FrameFailed
  <1>2. Answers'
    BY <1>1, AnswersKept DEF SendInv
  <1>3. /\ held' = Len(queue') + Cardinality(Prepared) + 0 /\ held' <= held
        /\ Len(queue') <= Len(queue)
    BY <1>1, WriterTypes
  <1>4. /\ queue' \in Seq(Senders) /\ written' \in Seq(Senders)
        /\ ack' \in [Senders -> {"none", "nil", "err"}] /\ frame' \in Senders \cup {NoFrame}
    BY <1>1, WriterTypes
  <1>. QED
    BY <1>1, <1>2, <1>3, <1>4, WriterRebuilt

LEMMA TellFailureInv ==
  ASSUME SendInv(0), frame \in Senders, TellFailure, UNCHANGED <<gateClosed, closing>>
  PROVE  SendInv(0)' /\ frame' = NoFrame
  <1>1. /\ ack' = Acked(frame, "err") /\ frame' = NoFrame
        /\ UNCHANGED <<active, queue, held, admitted, written, spc, sres>>
    BY DEF TellFailure
  <1>2. /\ ack' \in [Senders -> {"none", "nil", "err"}]
        /\ \A s \in Senders \ {frame} : ack'[s] = ack[s]
        /\ frame \in TrySenders => ack' = ack
        /\ frame \notin TrySenders => ack'[frame] = "err"
    BY <1>1, AckedType
  <1>3. admitted \in Seq(Senders)
    BY WriterTypes
  <1>4. Answers'
    <2>1. \A s \in Range(admitted') \ TrySenders :
            ack'[s] = "none" => s \in Range(queue') \/ s = frame'
      <3>1. Range(admitted) \subseteq Senders
        BY <1>3, InRange
      <3>. QED
        BY <1>1, <1>2, <3>1 DEF SendInv, Answers
    <2>2. \A s \in Senders : ack'[s] = "nil" => s \in Range(written')
      BY <1>1, <1>2 DEF SendInv, Answers
    <2>3. NilSendIsWritten'
      BY <1>1 DEF SendInv, Answers, NilSendIsWritten
    <2>. QED
      BY <2>1, <2>2, <2>3 DEF Answers
  <1>5. /\ held' = Len(queue') + Cardinality(Prepared) + 0 /\ held' <= held
        /\ Len(queue') <= Len(queue) /\ queue' \in Seq(Senders) /\ written' \in Seq(Senders)
    BY <1>1, WriterTypes
  <1>. QED
    BY <1>1, <1>2, <1>4, <1>5, WriterRebuilt

LEMMA FailPendingInv ==
  ASSUME SendInv(0), frame \notin Senders, FailPending, UNCHANGED <<gateClosed, closing>>
  PROVE  /\ SendInv(0)' /\ queue' = <<>> /\ UNCHANGED <<admitted, written, frame>> /\ gateDone'
         /\ queue = <<>> => ack' = ack
  <1>1. /\ gateDone /\ queue' = <<>> /\ held' = held - Len(queue)
        /\ ack' = [s \in Senders |->
                     IF s \in Range(queue) /\ s \notin TrySenders THEN "err" ELSE ack[s]]
        /\ UNCHANGED <<active, frame, admitted, written, spc, sres>>
    BY DEF FailPending, SlotsReturned
  <1>0. admitted \in Seq(Senders) /\ ack \in [Senders -> {"none", "nil", "err"}]
    BY WriterTypes
  <1>2. /\ ack' \in [Senders -> {"none", "nil", "err"}]
        /\ \A s \in Senders : ack'[s] = "nil" => ack[s] = "nil"
        /\ \A s \in Senders \ TrySenders : ack'[s] = "none" => ack[s] = "none" /\ s \notin Range(queue)
    BY <1>0, <1>1
  <1>3. Answers'
    <2>1. \A s \in Range(admitted') \ TrySenders :
            ack'[s] = "none" => s \in Range(queue') \/ s = frame'
      <3>1. Range(admitted) \subseteq Senders
        BY <1>0, InRange
      <3>. QED
        BY <1>1, <1>2, <3>1 DEF SendInv, Answers
    <2>2. \A s \in Senders : ack'[s] = "nil" => s \in Range(written')
      BY <1>1, <1>2 DEF SendInv, Answers
    <2>3. NilSendIsWritten'
      BY <1>1 DEF SendInv, Answers, NilSendIsWritten
    <2>. QED
      BY <2>1, <2>2, <2>3 DEF Answers
  <1>4. queue' \in Seq(Senders) /\ Len(queue') = 0
    BY <1>1
  <1>5. /\ held' = Len(queue') + Cardinality(Prepared) + 0 /\ held' <= held
        /\ Len(queue') <= Len(queue) /\ written' \in Seq(Senders)
        /\ frame' \in Senders \cup {NoFrame}
    BY <1>1, <1>4, WriterTypes
  <1>6. SendInv(0)'
    BY <1>1, <1>2, <1>3, <1>4, <1>5, WriterRebuilt
  <1>7. queue = <<>> => ack' = ack
    <2>1. Range(<<>>) = {}
      BY DEF Range
    <2>. QED
      BY <1>0, <1>1, <2>1
  <1>. QED
    BY <1>1, <1>6, <1>7 DEF gateDone

\* A step of the rest of the session, which may close the gate or closing.
LEMMA GateStep ==
  ASSUME NEW b \in {0, 1}, UNCHANGED sendVars,
         gateClosed' \in BOOLEAN, closing' \in BOOLEAN, gateClosed => gateClosed'
  PROVE  /\ SendInv(b) => SendInv(b)'
         /\ InOrder(b) => InOrder(b)'
         /\ NoneFailed => NoneFailed'
         /\ gateDone => gateDone'
         /\ Delivered => Delivered'
  <1>1. UNCHANGED <<active, queue, held, ack, frame, admitted, written, spc, sres>>
    BY DEF sendVars
  <1>2. InOrder(b) => InOrder(b)'
    BY <1>1, OrderKept
  <1>3. NoneFailed => NoneFailed'
    BY <1>1 DEF NoneFailed
  <1>4. gateDone => gateDone'
    BY <1>1 DEF gateDone
  <1>5. Delivered => Delivered'
    BY <1>1, <1>3, <1>4 DEF Delivered
  <1>6. ASSUME SendInv(b) PROVE SendInv(b)'
    <2>1. Answers'
      BY <1>1, <1>6, AnswersKept DEF SendInv
    <2>2. Within' = Within /\ SlotsOutsideWriter' = SlotsOutsideWriter
      BY <1>1 DEF Within, SlotsOutsideWriter
    <2>3. SendTypeOK'
      BY <1>1, <1>6 DEF SendInv, SendTypeOK
    <2>. QED
      BY <1>1, <1>6, <2>1, <2>2, <2>3 DEF SendInv
  <1>. QED
    BY <1>2, <1>3, <1>4, <1>5, <1>6

\* What the queue holds in order, once it is empty, is what was written.
LEMMA AllWritten ==
  ASSUME SendInv(0), InOrder(0), queue = <<>>
  PROVE  written = admitted
  <1>1. Len(written) = Len(admitted) /\ written \in Seq(Senders) /\ admitted \in Seq(Senders)
    BY WriterTypes DEF InOrder
  <1>2. \A i \in 1..Len(written) : written[i] = admitted[i]
    BY DEF InOrder
  <1>. QED
    BY <1>1, <1>2

\* When the gate has drained and the writer has emptied the queue, all is given
\* back and everybody answered.
LEMMA AllReleased ==
  ASSUME SendInv(0), gateDone, queue = <<>>, frame \notin Senders
  PROVE  NothingLeftBehind
  <1>1. held = 0
    <2>1. Within = {} /\ held = Len(queue) + Cardinality(Prepared) + 0 /\ Len(queue) = 0
      BY Drained, Counts
    <2>2. Prepared = {}
      BY <2>1 DEF Within, Prepared
    <2>. QED
      BY <2>1, <2>2, FS_EmptySet
  <1>2. \A s \in Range(admitted) \ TrySenders : ack[s] # "none"
    <2>1. Range(queue) = {}
      BY DEF Range
    <2>2. Range(admitted) \subseteq Senders
      BY InRange DEF SendInv
    <2>. QED
      BY <2>1, <2>2 DEF SendInv, Answers
  <1>. QED
    BY <1>1, <1>2 DEF NothingLeftBehind, gateDone

LEMMA SendInitInv ==
  ASSUME NEW calling, SendInit(calling)
  PROVE  SendInv(0) /\ InOrder(0) /\ NoneFailed /\ frame \notin Senders
  <1>1. /\ gateClosed = FALSE /\ closing = FALSE /\ active = 0
        /\ queue = <<>> /\ held = 0 /\ frame = NoFrame
        /\ ack = [s \in Senders |-> "none"] /\ admitted = <<>> /\ written = <<>>
        /\ spc \in [Senders -> {"idle", "returned"}] /\ sres = [s \in Senders |-> "none"]
    BY DEF SendInit
  <1>2. Within = {} /\ Prepared = {} /\ Cardinality({}) = 0
    BY <1>1, FS_EmptySet DEF Within, Prepared
  <1>3. Range(<<>>) = {}
    BY DEF Range
  <1>4. Answers
    BY <1>1, <1>3 DEF Answers, NilSendIsWritten
  <1>5. Cardinality(Senders) \in Nat /\ WriteQueue \in Nat
    BY SendPathAssumption, FS_CardinalityType
  <1>6. /\ queue \in Seq(Senders) /\ admitted \in Seq(Senders) /\ written \in Seq(Senders)
        /\ Len(queue) = 0
    BY <1>1
  <1>7. SendTypeOK
    <2>1. active \in 0..Cardinality(Senders) /\ held \in 0..(WriteQueue + 1) /\ Len(queue) <= WriteQueue
      BY <1>1, <1>5, <1>6
    <2>2. Range(queue) \subseteq Senders
      BY <1>1, <1>3
    <2>. QED
      BY <1>1, <2>1, <2>2 DEF SendTypeOK
  <1>8. held = SlotsOutsideWriter + 0
    <2>1. SlotsOutsideWriter = Len(queue) + Cardinality(Prepared)
      BY DEF SlotsOutsideWriter, Prepared
    <2>2. Cardinality(Prepared) = 0
      BY <1>2
    <2>. QED
      BY <1>1, <1>6, <2>1, <2>2
  <1>9. SendInv(0)
    BY <1>1, <1>2, <1>4, <1>6, <1>7, <1>8 DEF SendInv
  <1>10. InOrder(0)
    BY <1>1 DEF InOrder
  <1>11. NoneFailed /\ frame \notin Senders
    BY <1>1, SendPathAssumption DEF NoneFailed
  <1>. QED
    BY <1>9, <1>10, <1>11
=============================================================================
