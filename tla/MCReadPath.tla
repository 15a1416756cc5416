----------------------------- MODULE MCReadPath -----------------------------
(* Streams of up to three frames: of a peer with the same codec, in plain and   *)
(* sealed, whole and cut off inside a frame; with a frame that is larger than   *)
(* maxRead; and with a frame of a peer that speaks something else.              *)
EXTENDS ReadPath, TLC

Data(s) == [i \in DOMAIN s |-> Plain(s[i])]
Binary(s) == [type |-> "binary", data |-> Data(s)]
Text(s) == [type |-> "text", data |-> Data(s)]

Cipher(alg, key, aad) == [alg |-> alg, key |-> key, aad |-> aad, overhead |-> 1]
Codec(cipher, max) == [cipher |-> cipher, max |-> max]

PlainCodec == Codec(NoCipher, 0)
SealedCodec == Codec(Cipher("aesgcm", "k1", TRUE), 3)

Frames(c, msgs) == FlattenSeq([i \in DOMAIN msgs |-> Encode(c, msgs[i])])

\* The messages whose frames are all in the first n bytes.
Whole(c, msgs, n) ==
    SubSeq(msgs, 1, Max({k \in 0..Len(msgs) : Len(Frames(c, SubSeq(msgs, 1, k))) <= n}))

Cut(c, msgs, n) ==
    [codec |-> c, bytes |-> SubSeq(Frames(c, msgs), 1, n), sent |-> Whole(c, msgs, n),
     legal |-> \A i \in DOMAIN msgs : Len(Encode(c, msgs[i])) <= maxRead, busy |-> FALSE]

Uncut(c, msgs) == Cut(c, msgs, Len(Frames(c, msgs)))

\* One message, then a frame this codec does not take.
Then(c, first, frame) ==
    [codec |-> c, bytes |-> Encode(c, first) \o frame, sent |-> <<first>>,
     legal |-> FALSE, busy |-> FALSE]

With(frame, field, value) == [frame EXCEPT ![1] = [@ EXCEPT ![field] = value]]

Busy(in) == [in EXCEPT !.busy = TRUE]

Short == Binary(<<"a">>)
ShortFrame == Encode(PlainCodec, Short)
SealedBy(alg, key, aad) == Encode(Codec(Cipher(alg, key, aad), 3), Short)

MCStreams ==
    { Busy(Uncut(PlainCodec, <<Short, Binary(<<>>)>>)),
      Uncut(PlainCodec, <<Binary(<<"a", "b">>), Binary(<<>>), Text(<<"c">>)>>),
      Cut(PlainCodec, <<Text(<<"c">>), Binary(<<"a", "b">>)>>, 4),
      Cut(PlainCodec, <<Binary(<<>>), Binary(<<"a", "b">>)>>, 5),
      Uncut(PlainCodec, <<Binary(<<"a", "b", "c", "d">>), Binary(<<"e">>)>>),
      Uncut(SealedCodec, <<Text(<<"c">>), Binary(<<"a">>)>>),
      Then(PlainCodec, Short, With(ShortFrame, "version", 2)),
      Then(PlainCodec, Short, With(ShortFrame, "magic", "??")),
      Then(PlainCodec, Short, With(ShortFrame, "flags", {"compressed"})),
      Then(PlainCodec, Short, With(ShortFrame, "alg", "aesgcm")),
      Then(PlainCodec, Short, Encode(Codec(NoCipher, 9), Binary(<<"a", "b", "c", "d", "e">>))),
      Then(PlainCodec, Short, With(Encode(PlainCodec, Binary(<<"invalid">>)), "flags", {"text"})),
      Then(PlainCodec, Short, Encode(SealedCodec, Short)),
      Then(SealedCodec, Short, SealedBy("sm4gcm", "k1", TRUE)),
      Then(SealedCodec, Short, SealedBy("aesgcm", "k2", TRUE)),
      Then(SealedCodec, Short, SealedBy("aesgcm", "k1", FALSE))}
=============================================================================
