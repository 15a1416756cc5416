----------------------------- MODULE ErrorModel -----------------------------
(***************************************************************************)
(* From a failure to the error a caller sees (error_model.go,              *)
(* error_classify*.go, timeouts.go and the callers of classifyOperational).*)
(* A Go error is its unwrap chain, outermost layer first.  A layer has the *)
(* sentinels and types errors.Is and errors.As find in it, whether it is a *)
(* net.Error, and the fields of an *Error or a *TimeoutError.              *)
(* One call fails.  Meanwhile the context of its caller may end and the    *)
(* deadline that the Engine put on the operation may pass, and the code    *)
(* looks at both contexts at different moments.                            *)
(***************************************************************************)
EXTENDS Naturals, Sequences, SequencesExt, FiniteSetsExt

Layer(marks, net, label) == [is |-> marks, net |-> net, label |-> label]

\* An error without a cause of its own, as the code tells such errors apart.
Plain(mark) == <<Layer({mark}, "none", <<>>)>>
NetError(mark) == <<Layer({mark}, "other", <<>>)>>
NetTimeout(mark) == <<Layer({mark}, "timeout", <<>>)>>
limit == <<Layer({"LimitError", "ErrResourceExhausted"}, "none", <<>>)>>

Is(err, mark) == \E i \in DOMAIN err : mark \in err[i].is

\* isTimeoutFailure: errors.As stops at the first net.Error.
isTimeoutFailure(err) ==
    LET nets == {i \in DOMAIN err : err[i].net # "none"}
    IN nets # {} /\ err[Min(nets)].net = "timeout"

TimeoutError(kind, cause) ==
    <<Layer({"TimeoutError", "ErrTimeout"}, "timeout", <<kind>>)>> \o cause

categorized(category, cause) ==
    IF Is(cause, category) THEN cause
    ELSE <<Layer({category}, "none", <<>>)>> \o cause

envelopeOperational(op, kind, cause) ==
    IF Is(cause, "Error") THEN cause
    ELSE <<Layer({"Error"}, "none", <<op, kind>>)>> \o cause

----------------------------------------------------------------------------
(* classifyOperational: the first rule that applies decides.               *)

establishedIOOp(op) == op \in {"OpRead", "OpWrite", "OpSend", "OpReceive", "OpClose"}

Rule(applies, kind, category) == [applies |-> applies, kind |-> kind, category |-> category]

Asked(cause, mark, kind) == Rule(Is(cause, mark), kind, mark)

\* error_classify.go: what the cause itself says, before the system's errors.
Sentinels(cause) ==
  <<Asked(cause, "ErrTimeout", "ErrorTimeout"),
    Rule(isTimeoutFailure(cause), "ErrorTimeout", "ErrTimeout"),
    Asked(cause, "ErrResourceExhausted", "ErrorResourceExhausted"),
    Asked(cause, "ErrClosed", "ErrorClosed"),
    Asked(cause, "ErrWouldBlock", "ErrorBackpressure"),
    Asked(cause, "ErrMessageTooLarge", "ErrorTooLarge"),
    Asked(cause, "ErrDatagramTooLarge", "ErrorTooLarge"),
    Rule(Is(cause, "ErrFrameTooLarge"), "ErrorTooLarge", "ErrMessageTooLarge"),
    Rule(Is(cause, "ErrFrameExceedsQueueBudget"), "ErrorResourceExhausted", "ErrResourceExhausted"),
    Rule(Is(cause, "ErrReadBufferFull"), "ErrorResourceExhausted", "ErrResourceExhausted"),
    Asked(cause, "ErrInvalidFramer", "ErrorUnknown"),
    Asked(cause, "ErrPeerClosed", "ErrorPeerClosed"),
    Asked(cause, "ErrConnectionRefused", "ErrorRefused"),
    Asked(cause, "ErrConnectionReset", "ErrorReset"),
    Asked(cause, "ErrDNS", "ErrorDNS"),
    Asked(cause, "ErrTLS", "ErrorTLS"),
    Asked(cause, "ErrProtocolViolation", "ErrorProtocol"),
    Rule(Is(cause, "DNSError"), "ErrorDNS", "ErrDNS")>>

classifyPlatformCause(op, cause) ==
  <<Rule(Is(cause, "ECONNREFUSED"), "ErrorRefused", "ErrConnectionRefused"),
    Rule(Is(cause, "ECONNRESET"), "ErrorReset", "ErrConnectionReset"),
    Rule(Is(cause, "EPIPE"), "ErrorPeerClosed", "ErrPeerClosed"),
    Rule(Is(cause, "ENOTCONN") /\ establishedIOOp(op), "ErrorPeerClosed", "ErrPeerClosed")>>

classifyWSStatus(cause) ==
  <<Rule(Is(cause, "StatusProtocolError"), "ErrorProtocol", "ErrProtocolViolation"),
    Rule(Is(cause, "StatusMessageTooBig"), "ErrorTooLarge", "ErrMessageTooLarge"),
    Rule(Is(cause, "StatusInternalError"), "ErrorUnknown", "none")>>

tlsRule(cause, hint) ==
  <<Rule(Is(cause, "x509") \/ hint = "hintTLSHandshake", "ErrorTLS", "ErrTLS")>>

decodeRule(hint) ==
  <<Rule(hint \in {"hintWireDecode", "hintMessageDecode", "hintWSUpgrade"},
         "ErrorProtocol", "ErrProtocolViolation"),
    Rule(TRUE, "ErrorUnknown", "none")>>


Rules(op, cause, hint) ==
    Sentinels(cause) \o classifyPlatformCause(op, cause) \o tlsRule(cause, hint)
        \o classifyWSStatus(cause) \o decodeRule(hint)

Applies(rule) == rule.applies

classifyOperational(op, cause, hint) ==
    IF cause = <<>> \/ Is(cause, "Error") THEN cause
    ELSE LET rules == Rules(op, cause, hint)
             rule == rules[SelectInSeq(rules, Applies)]
         IN envelopeOperational(op, rule.kind,
                IF rule.category = "none" THEN cause ELSE categorized(rule.category, cause))

----------------------------------------------------------------------------
(* The calls that end in classifyOperational.                              *)

\* asks: the code looks at the caller's context before it classifies.
\* bound: the kind of mapOperationTimeout, when the operation has a deadline.
\* relabel: the kind given to a timeout that is not yet a *TimeoutError.
\* clean: causes that are no failure.  http: the failure comes through net/http.
Call(op, hint, causes) ==
    [op |-> op, hint |-> hint, causes |-> causes, asks |-> TRUE, bound |-> "none",
     relabel |-> "none", clean |-> {}, http |-> FALSE, secure |-> FALSE]

other == Plain("other")
refused == NetError("ECONNREFUSED")
reset == NetError("ECONNRESET")
systemTimeout == NetTimeout("ETIMEDOUT")

connecting == {refused, systemTimeout, NetError("DNSError"), NetTimeout("DNSError"),
               NetError("ENOTCONN"), other}
handshaking == {reset, systemTimeout, Plain("EOF"), Plain("x509"), NetError("alert")}

dialTCP == [Call("OpDial", "hintNone", connecting) EXCEPT !.bound = "TimeoutConnect"]

dialPacket == [Call("OpDial", "hintNone", connecting) EXCEPT !.bound = "TimeoutConnect"]

listenTCP == Call("OpListen", "hintNone", {NetError("DNSError"), NetError("other")})

listenPacket == Call("OpListen", "hintNone", {NetError("DNSError"), NetError("other")})

dialTLS == [Call("OpHandshake", "hintTLSHandshake", handshaking) EXCEPT !.bound = "TimeoutHandshake"]

upgrade(causes, isSecure) ==
    [Call("OpUpgrade", "hintWSUpgrade", causes) EXCEPT
        !.relabel = "TimeoutHandshake", !.http = TRUE, !.secure = isSecure]

\* dialWebSocket may fail while it connects, in the TLS handshake, or in the upgrade.
dialWebSocket ==
    {[upgrade(connecting \cup {limit}, s) EXCEPT !.bound = "TimeoutConnect"] : s \in BOOLEAN}
    \cup {[upgrade(handshaking, TRUE) EXCEPT !.bound = "TimeoutHandshake"]}
    \cup {upgrade({NetTimeout("header"), reset, other}, s) : s \in BOOLEAN}

\* Admission refuses: the context is not looked at.
refusals ==
    {[Call(op, "hintNone", {limit, Plain("ErrClosed")}) EXCEPT !.asks = FALSE] :
        op \in {"OpDial", "OpHandshake", "OpUpgrade", "OpListen"}}

\* The writer's error is classified before Send sees it.
written == envelopeOperational("OpWrite", "ErrorReset", categorized("ErrConnectionReset", reset))

sendError == Call("OpSend", "hintNone",
    {Plain("ErrClosed"), Plain("ErrFrameExceedsQueueBudget"), Plain("ErrMessageTooLarge"),
     Plain("ErrDatagramTooLarge"), Plain("ErrFrameTooLarge"), written})

trySend == [Call("OpSend", "hintNone", {Plain("ErrWouldBlock"), Plain("ErrClosed")})
               EXCEPT !.asks = FALSE]

readerLoop ==
    {[Call(op, "hintNone", {reset, systemTimeout, Plain("EOF"), NetError("netErrClosed"),
                            NetError("ENOTCONN"), other})
        EXCEPT !.asks = FALSE, !.relabel = idle,
               !.clean = IF op = "OpRead" THEN {"EOF", "netErrClosed"} ELSE {"netErrClosed"}] :
        op \in {"OpRead", "OpReceive"}, idle \in {"TimeoutReadIdle", "none"}}

wsReaderLoop ==
    {[Call("OpRead", "hintNone", {Plain("StatusNormalClosure"), Plain("StatusProtocolError"),
            Plain("StatusMessageTooBig"), Plain("StatusInternalError"), reset, systemTimeout})
        EXCEPT !.asks = FALSE, !.relabel = idle,
               !.clean = {"EOF", "netErrClosed", "StatusNormalClosure"}] :
        idle \in {"TimeoutReadIdle", "none"}}

decode ==
    {[Call("OpRead", hint, {Plain("ErrFrameTooLarge"), Plain("ErrMessageTooLarge"), other})
        EXCEPT !.asks = FALSE] : hint \in {"hintWireDecode", "hintMessageDecode", "hintNone"}}
    \cup {[Call("OpRead", "hintNone", {Plain("ErrInvalidFramer"), Plain("ErrReadBufferFull")})
            EXCEPT !.asks = FALSE]}

writeFrame == [Call("OpWrite", "hintNone", {reset, NetError("EPIPE"), systemTimeout, other})
                  EXCEPT !.asks = FALSE, !.relabel = "TimeoutWrite"]

closeProtocolWrite == [Call("OpClose", "hintNone", {NetError("ENOTCONN"), NetError("EPIPE"),
                                                    systemTimeout, other})
                          EXCEPT !.asks = FALSE, !.relabel = "TimeoutWrite"]

Calls == {dialTCP, dialPacket, listenTCP, listenPacket, dialTLS, sendError, trySend, writeFrame,
          closeProtocolWrite}
    \cup dialWebSocket \cup refusals \cup readerLoop \cup wsReaderLoop \cup decode

----------------------------------------------------------------------------
VARIABLES
    call,       \* the call that fails
    step,       \* how far its code has come
    caller,     \* "live", or the cause with which the caller's context ended
    parent,     \* the same for the context the operation's deadline is put on
    operation,  \* the same for the context with that deadline
    failure,    \* the error the failure began with
    late,       \* the caller's context as it was when the failure occurred
    err,        \* the error as it is now
    result      \* what the call returns, or the session keeps as its error

vars == <<call, step, caller, parent, operation, failure, late, err, result>>

Begins ==
    /\ step = "running"
    /\ caller = "live" /\ parent = "live" /\ operation = "live" /\ late = "live"
    /\ failure = <<>> /\ err = <<>> /\ result = <<>>

Init == call \in Calls /\ Begins

\* The error of a context that ended.
Cause(context) ==
    IF context = "DeadlineExceeded" THEN NetTimeout(context) ELSE Plain(context)

\* A context ends with its parent unless it ended before.
Ends(context, cause) == IF context = "live" THEN cause ELSE context

\* The caller cancels, or its deadline passes.  net/http dials on a context of
\* its own, which it ends or leaves alone when the request's context ends.
ContextEnds ==
    /\ call.asks /\ caller = "live" /\ step # "returned"
    /\ \E cause \in {"Canceled", "DeadlineExceeded"} :
        /\ caller' = cause
        /\ \E seen \in IF call.http THEN {"live", "Canceled", cause} ELSE {cause} :
            /\ parent' = seen
            /\ operation' = IF seen = "live" THEN operation ELSE Ends(operation, seen)
    /\ UNCHANGED <<call, step, failure, late, err, result>>

\* The deadline of boundedOperationContext passes: "own" is DeadlineExceeded.
DeadlinePasses ==
    /\ call.bound # "none" /\ operation = "live"
    /\ step \in {"running", "map", "operation"}
    /\ operation' = "own"
    /\ UNCHANGED <<call, step, caller, parent, failure, late, err, result>>

\* The operation fails, for a reason of its own or because its context ended.
Fails ==
    /\ step = "running"
    /\ \E cause \in call.causes
            \cup (IF call.bound = "none" \/ operation = "live" THEN {}
                  ELSE {Cause(IF operation = "own" THEN "DeadlineExceeded" ELSE operation)}) :
        failure' = cause /\ err' = cause
    /\ late' = caller
    /\ step' = IF call.bound = "none" THEN "return" ELSE "map"
    /\ UNCHANGED <<call, caller, parent, operation, result>>

\* The request's context ended, and net/http does not wait for the dial.
Abandoned ==
    /\ call.http /\ caller # "live" /\ step \in {"running", "map", "operation"}
    /\ failure' = Cause(caller) /\ err' = failure' /\ late' = caller
    /\ step' = "return"
    /\ UNCHANGED <<call, caller, parent, operation, result>>

\* mapOperationTimeout looks at the parent, and after that at the operation.
MapParent ==
    /\ step = "map"
    /\ IF parent # "live" THEN err' = Cause(parent) /\ step' = "return"
       ELSE step' = "operation" /\ UNCHANGED err
    /\ UNCHANGED <<call, caller, parent, operation, failure, late, result>>

MapOperation ==
    /\ step = "operation"
    /\ err' = IF operation \in {"own", "DeadlineExceeded"} THEN TimeoutError(call.bound, err) ELSE err
    /\ step' = "return"
    /\ UNCHANGED <<call, caller, parent, operation, failure, late, result>>

\* What net/http and websocket.Dial put around an error: url.Error is a
\* net.Error that answers Timeout for the error directly below it.
ThroughHTTP(cause) ==
    <<Layer({}, "none", <<>>),
      Layer({}, IF Head(cause).net = "timeout" THEN "timeout" ELSE "other", <<>>)>> \o cause

Relabelled(cause) ==
    IF call.relabel # "none" /\ isTimeoutFailure(cause) /\ ~ Is(cause, "TimeoutError")
    THEN TimeoutError(call.relabel, cause) ELSE cause

\* dialWebSocket: over TLS a TLS failure belongs to the handshake.
AtHandshake(e) ==
    IF call.secure /\ Head(e).label = <<"OpUpgrade", "ErrorTLS">>
    THEN <<[Head(e) EXCEPT !.label = <<"OpHandshake", "ErrorTLS">>]>> \o Tail(e) ELSE e

Reported ==
    IF \E mark \in call.clean : Is(err, mark) THEN <<>>
    ELSE AtHandshake(classifyOperational(call.op,
            Relabelled(IF call.http THEN ThroughHTTP(err) ELSE err), call.hint))


\* The caller's context is looked at once more, and goes before the failure.
Return ==
    /\ step = "return"
    /\ result' = IF call.asks /\ caller # "live" THEN Cause(caller) ELSE Reported
    /\ step' = "returned"
    /\ UNCHANGED <<call, caller, parent, operation, failure, late, err>>

Next ==
    \/ ContextEnds \/ DeadlinePasses
    \/ Fails \/ Abandoned \/ MapParent \/ MapOperation \/ Return

Spec == Init /\ [][Next]_vars

TypeOK ==
    /\ call \in Calls
    /\ step \in {"running", "map", "operation", "return", "returned"}
    /\ {caller, parent, late} \subseteq {"live", "Canceled", "DeadlineExceeded"}
    /\ operation \in {"live", "own", "Canceled", "DeadlineExceeded"}

----------------------------------------------------------------------------

\* What a cause says by itself about its kind, and the sentinels of a kind.
Denotes ==
    [ErrorTimeout |-> {"ErrTimeout"}, ErrorClosed |-> {"ErrClosed"},
     ErrorBackpressure |-> {"ErrWouldBlock"},
     ErrorTooLarge |-> {"ErrMessageTooLarge", "ErrDatagramTooLarge"},
     ErrorResourceExhausted |-> {"ErrResourceExhausted"}, ErrorPeerClosed |-> {"ErrPeerClosed"},
     ErrorRefused |-> {"ErrConnectionRefused"}, ErrorReset |-> {"ErrConnectionReset"},
     ErrorDNS |-> {"ErrDNS"}, ErrorTLS |-> {"ErrTLS"}, ErrorProtocol |-> {"ErrProtocolViolation"}]

Evidence(op, cause) ==
    {k \in DOMAIN Denotes : \E mark \in Denotes[k] : Is(cause, mark)}
    \cup {p[2] : p \in {q \in {<<"ECONNREFUSED", "ErrorRefused">>, <<"ECONNRESET", "ErrorReset">>,
            <<"EPIPE", "ErrorPeerClosed">>, <<"DNSError", "ErrorDNS">>, <<"x509", "ErrorTLS">>,
            <<"ErrFrameTooLarge", "ErrorTooLarge">>, <<"StatusMessageTooBig", "ErrorTooLarge">>,
            <<"ErrFrameExceedsQueueBudget", "ErrorResourceExhausted">>,
            <<"ErrReadBufferFull", "ErrorResourceExhausted">>,
            <<"StatusProtocolError", "ErrorProtocol">>} : Is(cause, q[1])}}
    \cup (IF Is(cause, "ENOTCONN") /\ establishedIOOp(op) THEN {"ErrorPeerClosed"} ELSE {})
    \cup (IF isTimeoutFailure(cause) THEN {"ErrorTimeout"} ELSE {})

\* The kind that remains when the cause says nothing.
Guess(hint) ==
    CASE hint = "hintTLSHandshake" -> "ErrorTLS"
      [] hint = "hintNone" -> "ErrorUnknown"
      [] OTHER -> "ErrorProtocol"

=============================================================================
