-------------------------------- MODULE Wire --------------------------------
(***************************************************************************)
(* The v1 envelope of wire/wire.go: what Codec.Encode makes of a message   *)
(* and what DecodeOne makes of the bytes that have arrived so far.         *)
(*                                                                         *)
(* A byte string is a sequence of units.  The ten bytes of a header are    *)
(* two units, its fixed fields and its length.  A unit of ciphertext or of *)
(* base64 text names the string it was made from and its place in it, so   *)
(* that only the complete string can be turned back.                       *)
(***************************************************************************)
EXTENDS Integers, Sequences, SequencesExt

CONSTANTS
    NoCipher,         \* Codec.Cipher is nil
    DefaultMaxPayload

\* A codec is [cipher, max]; a cipher is [alg, key, aad, overhead]: aad tells an
\* AuthenticatedCipher, overhead is what Seal adds (nonce and tag).
HeaderSize == 2
Magic == "OG"
Version == 1
AlgNone == "none"
knownFlags == {"text", "encrypted"}

\* Three kinds of payload unit.
Plain(b) == <<"plain", b, 0>>
Sealed(box, i) == <<"sealed", box, i>>
Coded(s, i) == <<"base64", s, i>>

maxPayload(c) == IF c.max = 0 THEN DefaultMaxPayload ELSE c.max

\* Message.Validate: any binary data, text that is valid UTF-8.
Validate(msg) == msg.type = "text" => Plain("invalid") \notin ToSet(msg.data)

semanticAAD(flags, alg) == <<Magic, Version, flags, alg>>

\* Seal binds the additional data only if the cipher authenticates it.
Seal(cipher, data, aad) ==
    LET box == [data |-> data, key |-> cipher.key, aad |-> IF cipher.aad THEN aad ELSE <<>>]
    IN  [i \in 1..(Len(data) + cipher.overhead) |-> Sealed(box, i)]

Opens(cipher, s, aad) ==
    s # <<>> /\ s[1][1] = "sealed" /\ s = Seal(cipher, s[1][2].data, aad)

\* base64.RawStdEncoding: six bits a unit, no padding.
EncodedLen(n) == (n * 8 + 5) \div 6
Base64(s) == [i \in 1..EncodedLen(Len(s)) |-> Coded(s, i)]
IsBase64(s) == s # <<>> => s[1][1] = "base64" /\ s = Base64(s[1][2])
FromBase64(s) == IF s = <<>> THEN <<>> ELSE s[1][2]

\* The frame of a message, or <<>> for an error.
Encode(c, msg) ==
    LET text == {f \in {"text"} : msg.type = f}
        flags == IF c.cipher = NoCipher THEN text ELSE text \cup {"encrypted"}
        alg == IF c.cipher = NoCipher THEN AlgNone ELSE c.cipher.alg
        sealed == IF c.cipher = NoCipher THEN msg.data
                  ELSE Seal(c.cipher, msg.data, semanticAAD(flags, alg))
        payload == IF flags = knownFlags THEN Base64(sealed) ELSE sealed
    IN  IF ~ Validate(msg) \/ Len(msg.data) > maxPayload(c) \/ Len(payload) > maxPayload(c)
        THEN <<>>
        ELSE <<[magic |-> Magic, version |-> Version, flags |-> flags, alg |-> alg],
               [length |-> Len(payload)]>> \o payload

NeedMore == [outcome |-> "needMore"]
Failed(err) == [outcome |-> "error", err |-> err]
Decoded(msg, n) == [outcome |-> "message", msg |-> msg, consumed |-> n]

\* The checks of a header in the order of the code; the first that applies decides.
HeaderTests(c, h, length) ==
    LET encrypted == "encrypted" \in h.flags
    IN  << <<h.magic # Magic, "ErrBadMagic">>,
           <<h.version # Version, "ErrUnsupportedVersion">>,
           <<~ (h.flags \subseteq knownFlags), "ErrUnsupportedFlags">>,
           <<~ encrypted /\ h.alg # AlgNone, "ErrAlgorithmMismatch">>,
           <<length > maxPayload(c), "ErrFrameTooLarge">>,
           <<encrypted /\ c.cipher = NoCipher, "ErrMissingCipher">>,
           <<encrypted /\ c.cipher # NoCipher /\ c.cipher.alg # h.alg, "ErrAlgorithmMismatch">> >>

HeaderErrors(c, h, length) == SelectSeq(HeaderTests(c, h, length), LAMBDA t : t[1])


\* How many units the frame of a payload of this length occupies.
Total(length) == HeaderSize + length

\* What a payload that is all there decodes to.
DecodePayload(c, h, raw) ==
    LET type == IF "text" \in h.flags THEN "text" ELSE "binary"
        encrypted == "encrypted" \in h.flags
        sealed == IF type = "text" THEN FromBase64(raw) ELSE raw
        data == IF encrypted THEN sealed[1][2].data ELSE raw
        msg == [type |-> type, data |-> data]
    IN  IF encrypted /\ type = "text" /\ ~ IsBase64(raw) THEN Failed("base64")
        ELSE IF encrypted /\ ~ Opens(c.cipher, sealed, semanticAAD(h.flags, h.alg))
             THEN Failed("decrypt")
        ELSE IF Len(data) > maxPayload(c) THEN Failed("ErrFrameTooLarge")
        ELSE IF ~ Validate(msg) THEN Failed("ErrInvalidUTF8")
        ELSE Decoded(msg, Total(Len(raw)))

DecodeOne(c, src) ==
    IF Len(src) < HeaderSize THEN NeedMore
    ELSE LET h == src[1]
             length == src[2].length
             errors == HeaderErrors(c, h, length)
         IN  IF errors # <<>> THEN Failed(errors[1][2])
             ELSE IF Len(src) < Total(length) THEN NeedMore
             ELSE DecodePayload(c, h, SubSeq(src, HeaderSize + 1, Total(length)))
=============================================================================
