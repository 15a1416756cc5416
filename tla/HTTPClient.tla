----------------------------- MODULE HTTPClient -----------------------------
(***************************************************************************)
(* client.HTTPClientTransport: the ordered protocol facade with its safe-  *)
(* replay fallback, composed with client.HTTP3Transport and the http3Dialer *)
(* that owns the UDP socket.  Requests run concurrently with each other and *)
(* with several calls of Close.                                            *)
(*                                                                         *)
(* An error is the set of things errors.Is and errors.As find in it.  The  *)
(* strict HTTP/1.1 and HTTP/2 transports and the quic-go library are        *)
(* external: they answer or fail with one of the errors they may return.   *)
(***************************************************************************)
EXTENDS Integers, Sequences, FiniteSets

CONSTANTS Requests, Closers,
          Orders,        \* HTTPClientConfig.Protocols: sequences without duplicates
          Mixes,         \* which requests are made: [Requests -> [scheme, safe, body]]
          NetErrors,     \* errors of an HTTP/1.1 or HTTP/2 attempt
          QuicErrors     \* errors of a QUIC dial or an HTTP/3 exchange

ASSUME HTTPClientAssumption ==
    \A o \in Orders : Len(o) > 0 /\ \A i, j \in 1 .. Len(o) : o[i] = o[j] => i = j

VARIABLES order, fallback,             \* the configuration
          closed, once,                \* HTTPClientTransport.closed, closeOnce
          h3closed, rawClosed,         \* HTTP3Transport.closed, http3.Transport closed
          dclosed, transport,          \* http3Dialer.closed; transport # nil
          quic, udp, conn,             \* the QUIC transport, its socket, a live connection
          xpc,                         \* where each Close is
          rpc, req, index, err, canceled,
          attempts,                    \* history: network attempts <<protocol, body>>
          late,                        \* history: attempts begun after cancellation
          failures, result

config == <<order, fallback>>
facade == <<closed, once>>
dialer == <<dclosed, transport>>
native == <<quic, udp, conn>>
h3 == <<h3closed, rawClosed, dialer, native>>
requests == <<rpc, req, index, err, canceled, attempts, late, failures, result>>
vars == <<config, facade, h3, xpc, requests>>

NoError == {}
Set(f, r, v) == [f EXCEPT ![r] = v]

Init ==
    /\ order \in Orders /\ fallback \in {"Disabled", "SafeReplay"}
    /\ closed = FALSE /\ once = "idle"
    /\ h3closed = FALSE /\ rawClosed = FALSE
    /\ dclosed = FALSE /\ transport = FALSE
    /\ quic = "none" /\ udp = "none" /\ conn = FALSE
    /\ xpc = [x \in Closers |-> "idle"]
    /\ rpc = [r \in Requests |-> "idle"]
    /\ req \in Mixes
    /\ index = [r \in Requests |-> 1]
    /\ err = [r \in Requests |-> NoError]
    /\ canceled = [r \in Requests |-> FALSE]
    /\ attempts = [r \in Requests |-> <<>>]
    /\ late = [r \in Requests |-> 0]
    /\ failures = [r \in Requests |-> <<>>]
    /\ result = [r \in Requests |-> "none"]

(***************************************************************************)
(* Pure decisions of the facade.                                           *)
(***************************************************************************)
protocolApplies(p, q) == q.scheme = "https" \/ (q.scheme = "http" /\ p = "HTTP1")
Applicable(r) == SelectSeq(order, LAMBDA p : protocolApplies(p, req[r]))
Protocol(r) == Applicable(r)[index[r]]

requestCanReplay(q) == q.safe /\ q.body # "once"

QuicTypes == {"quic.TransportError", "quic.ApplicationError", "quic.StatelessResetError",
              "quic.VersionNegotiationError", "quic.IdleTimeoutError",
              "quic.HandshakeTimeoutError"}

Is(e, kinds) == e \cap kinds # {}

mapHTTP3Error(e) ==
    CASE Is(e, {"Canceled", "DeadlineExceeded"}) -> e
      [] ~Is(e, {"Canceled", "DeadlineExceeded"})
         /\ Is(e, {"http3.ErrTransportClosed", "quic.ErrTransportClosed", "ErrHTTP3TransportClosed"})
            -> e \cup {"ErrHTTP3TransportClosed", "HTTP3Error", "HTTP3ErrorClosed"}
      [] OTHER -> IF Is(e, {"http3.Error"}) THEN e \cup {"HTTP3Error", "HTTP3ErrorProtocol"}
                  ELSE IF Is(e, QuicTypes) THEN e \cup {"HTTP3Error", "HTTP3ErrorTransport"}
                  ELSE e

\* The tests of the function in their order: the first that matches decides.
Tests ==
    << <<{"Canceled", "DeadlineExceeded"}, "Never">>,
       <<{"ErrHTTPClientTransportClosed", "ErrHTTP3TransportClosed"}, "Never">>,
       <<{"ProtocolUnavailable"}, "PreRequest">>,
       <<{"x509"}, "Never">>,
       <<{"AlertNoApplicationProtocol"}, "PreRequest">>,
       <<{"tls.AlertError"}, "Never">> >>
HTTP3Tests ==
    << <<{"HTTP3ErrorProtocol", "HTTP3ErrorClosed"}, "Never">>,
       <<{"quic.ApplicationError"}, "Never">>,
       <<{"quic.VersionNegotiationError", "quic.HandshakeTimeoutError"}, "PreRequest">>,
       <<{"quic.TransportError"}, "Never">>,
       <<{"quic.StatelessResetError", "quic.IdleTimeoutError", "quic.StreamError"}, "Ambiguous">>,
       <<{"HTTP3Error"}, "Never">> >>
NetTests ==
    << <<{"net.DNSError", "OpError.dial"}, "PreRequest">>,
       <<{"OpError.read", "OpError.write", "EOF", "UnexpectedEOF", "net.ErrClosed"}, "Ambiguous">> >>

FirstMatch(e, tests) ==
    LET hits == {i \in 1 .. Len(tests) : Is(e, tests[i][1])}
    IN  IF hits = {} THEN "Never"
        ELSE tests[CHOOSE i \in hits : \A j \in hits : i <= j][2]

\* A mutant: the network tests come before the tests of HTTP3Error.
ClassifyNetFirst(e) == FirstMatch(e, Tests \o NetTests \o HTTP3Tests)
classifyFallback(e) ==
    FirstMatch(e, Tests \o (IF "HTTP3Error" \in e THEN HTTP3Tests ELSE NetTests))

(***************************************************************************)
(* roundTrip.                                                              *)
(***************************************************************************)
Return(r, what) == rpc' = Set(rpc, r, "done") /\ result' = Set(result, r, what)
Step(r, l) == rpc' = Set(rpc, r, l)

Begin(r) ==
    /\ rpc[r] = "idle"
    /\ \/ closed /\ Return(r, "ErrHTTPClientTransportClosed")
       \/ ~closed /\ Applicable(r) = <<>> /\ Return(r, "ErrNoApplicableHTTPProtocol")
       \/ ~closed /\ Applicable(r) # <<>> /\ Step(r, "prepare") /\ UNCHANGED result
    /\ UNCHANGED <<config, facade, h3, xpc, req, index, err, canceled, attempts, late, failures>>

\* The context of the request is cancelled, at any time.
Cancel(r) ==
    /\ rpc[r] # "done" /\ ~canceled[r]
    /\ canceled' = Set(canceled, r, TRUE)
    /\ UNCHANGED <<config, facade, h3, xpc, rpc, req, index, err, attempts, late, failures, result>>

AttemptBody(r) ==
    CASE req[r].body = "none"                    -> "none"
      [] req[r].body # "none" /\ index[r] = 1    -> "original"
      [] OTHER                                   -> <<"GetBody", index[r]>>

\* cloneAttemptRequest and the call of the protocol's RoundTrip.
Attempt(r) ==
    /\ rpc[r] = "prepare"
    /\ req[r].body = "once" => index[r] = 1
    /\ attempts' = Set(attempts, r, Append(attempts[r], <<Protocol(r), AttemptBody(r)>>))
    /\ late' = Set(late, r, late[r] + IF canceled[r] THEN 1 ELSE 0)
    /\ Step(r, IF Protocol(r) = "HTTP3" THEN "h3check" ELSE "net")
    /\ UNCHANGED <<config, facade, h3, xpc, req, index, err, canceled, failures, result>>

\* GetBody fails or is missing.  The first attempt needs no GetBody.
PrepareFails(r) ==
    /\ rpc[r] = "prepare" /\ index[r] > 1 /\ req[r].body # "none"
    /\ failures' = Set(failures, r, Append(failures[r], <<Protocol(r), {"prepare"}>>))
    /\ Return(r, "HTTPFallbackError")
    /\ UNCHANGED <<config, facade, h3, xpc, req, index, err, canceled, attempts, late>>

\* A response ends the request whatever its status.
NetAnswers(r) ==
    /\ rpc[r] = "net"
    /\ Return(r, "response")
    /\ UNCHANGED <<config, facade, h3, xpc, req, index, err, canceled, attempts, late, failures>>

Fail(r, e) == Step(r, "failed") /\ err' = Set(err, r, e)

NetFails(r) ==
    /\ rpc[r] = "net"
    /\ \E e \in NetErrors : Fail(r, e)
    /\ UNCHANGED <<config, facade, h3, xpc, req, index, canceled, attempts, late, failures, result>>

Report(fs) == IF Len(fs) = 1 THEN "error" ELSE "HTTPFallbackError"

MayFallBack(r) ==
    /\ index[r] < Len(Applicable(r))
    /\ fallback = "SafeReplay" /\ requestCanReplay(req[r])
    /\ classifyFallback(err[r]) # "Never"

Cancelled(r) ==
    /\ rpc[r] = "failed" /\ canceled[r]
    /\ Return(r, "cause")
    /\ UNCHANGED <<config, facade, h3, xpc, req, index, err, canceled, attempts, late, failures>>

\* A mutant: the context is not looked at between two attempts.
JudgeWithoutContext(r) ==
    /\ rpc[r] = "failed"
    /\ failures' = Set(failures, r, Append(failures[r], <<Protocol(r), err[r]>>))
    /\ err' = Set(err, r, NoError)
    /\ IF MayFallBack(r)
       THEN Step(r, "prepare") /\ index' = Set(index, r, index[r] + 1) /\ UNCHANGED result
       ELSE Return(r, Report(failures'[r])) /\ UNCHANGED index
    /\ UNCHANGED <<config, facade, h3, xpc, req, canceled, attempts, late>>

Judge(r) ==
    /\ rpc[r] = "failed" /\ ~canceled[r]
    /\ failures' = Set(failures, r, Append(failures[r], <<Protocol(r), err[r]>>))
    /\ err' = Set(err, r, NoError)
    /\ IF MayFallBack(r)
       THEN Step(r, "prepare") /\ index' = Set(index, r, index[r] + 1) /\ UNCHANGED result
       ELSE Return(r, Report(failures'[r])) /\ UNCHANGED index
    /\ UNCHANGED <<config, facade, h3, xpc, req, canceled, attempts, late>>

(***************************************************************************)
(* HTTP3Transport.RoundTrip and http3Dialer.Dial.                          *)
(***************************************************************************)
request == <<req, index, canceled, attempts, late, failures, result>>

\* What RoundTrip makes of an error of the library.
H3Fail(r, e) == Fail(r, IF canceled[r] THEN {"Canceled"} ELSE mapHTTP3Error(e))

H3Checks(r) ==
    /\ rpc[r] = "h3check"
    /\ IF h3closed THEN Fail(r, mapHTTP3Error({"ErrHTTP3TransportClosed"}))
                   ELSE Step(r, "h3raw") /\ UNCHANGED err
    /\ UNCHANGED <<config, facade, h3, xpc, request>>

\* http3.Transport uses its connection or dials one.
H3Pool(r) ==
    /\ rpc[r] = "h3raw"
    /\ IF rawClosed THEN H3Fail(r, {"http3.ErrTransportClosed"})
                    ELSE Step(r, IF conn THEN "h3send" ELSE "h3dial") /\ UNCHANGED err
    /\ UNCHANGED <<config, facade, h3, xpc, request>>

\* The name does not resolve, or no socket can be had: nothing is kept.
DialFails(r) ==
    /\ rpc[r] = "h3dial"
    /\ \E e \in {{"net.DNSError"}, {"OpError.listen"}} :
          (e = {"OpError.listen"} => ~dclosed /\ ~transport) /\ H3Fail(r, e)
    /\ UNCHANGED <<config, facade, h3, xpc, request>>

\* The part of Dial under the mutex: one socket for all dials.
Dial(r) ==
    /\ rpc[r] = "h3dial"
    /\ IF dclosed THEN H3Fail(r, {"ErrHTTP3TransportClosed"}) /\ UNCHANGED <<transport, quic, udp>>
       ELSE /\ IF transport THEN UNCHANGED <<transport, quic, udp>>
                            ELSE transport' = TRUE /\ quic' = "open" /\ udp' = "open"
            /\ Step(r, "h3dialing") /\ UNCHANGED err
    /\ UNCHANGED <<config, facade, h3closed, rawClosed, dclosed, conn, xpc, request>>

\* dialQUIC, outside the mutex, on the transport Dial has seen.
DialQUIC(r) ==
    /\ rpc[r] = "h3dialing"
    /\ \/ quic = "open" /\ Step(r, "h3send") /\ conn' = TRUE /\ UNCHANGED err
       \/ quic = "open" /\ UNCHANGED conn /\ \E e \in QuicErrors : H3Fail(r, e)
       \/ quic = "closed" /\ UNCHANGED conn /\ H3Fail(r, {"quic.ErrTransportClosed"})
    /\ UNCHANGED <<config, facade, h3closed, rawClosed, dialer, quic, udp, xpc, request>>

H3Answers(r) ==
    /\ rpc[r] = "h3send" /\ conn
    /\ Return(r, "response")
    /\ UNCHANGED <<config, facade, h3, xpc, req, index, err, canceled, attempts, late, failures>>

\* The exchange fails, and with it perhaps the connection; closing it locally
\* is an application error.
H3Fails(r) ==
    /\ rpc[r] = "h3send"
    /\ conn' \in {FALSE, conn}
    /\ \E e \in QuicErrors \cup {{"http3.Error", "quic.ApplicationError"}} : H3Fail(r, e)
    /\ UNCHANGED <<config, facade, h3closed, rawClosed, dialer, quic, udp, xpc, request>>

(***************************************************************************)
(* HTTPClientTransport.Close: closeOnce runs the body once, and a second   *)
(* call waits in Do until the first has finished.                          *)
(***************************************************************************)
Goto(x, l) == xpc' = Set(xpc, x, l)

CloseEnters(x) ==
    /\ xpc[x] = "idle" /\ once = "idle"
    /\ once' = "running" /\ Goto(x, "store")
    /\ UNCHANGED <<config, closed, h3, requests>>

\* A mutant: a second Close does not wait for the first.
CloseSkips(x) ==
    /\ xpc[x] = "idle" /\ once # "idle"
    /\ Goto(x, "returned")
    /\ UNCHANGED <<config, facade, h3, requests>>

CloseJoins(x) ==
    /\ xpc[x] = "idle" /\ once = "done"
    /\ Goto(x, "returned")
    /\ UNCHANGED <<config, facade, h3, requests>>

\* The idle HTTP/1.1 and HTTP/2 connections are not modelled.
CloseStores(x) ==
    /\ xpc[x] = "store"
    /\ closed' = TRUE
    /\ Goto(x, IF \E i \in 1 .. Len(order) : order[i] = "HTTP3" THEN "h3" ELSE "finish")
    /\ UNCHANGED <<config, once, h3, requests>>

\* HTTP3Transport.Close: the flag, the library's pool, the dialer.
H3CloseStores(x) ==
    /\ xpc[x] = "h3"
    /\ h3closed' = TRUE /\ Goto(x, "raw")
    /\ UNCHANGED <<config, facade, rawClosed, dialer, native, requests>>

H3CloseRaw(x) ==
    /\ xpc[x] = "raw"
    /\ rawClosed' = TRUE /\ conn' = FALSE /\ Goto(x, "dialer")
    /\ UNCHANGED <<config, facade, h3closed, dialer, quic, udp, requests>>

\* http3Dialer.Close takes both resources under the mutex and closes them
\* after it.
DialerClose(x) ==
    /\ xpc[x] = "dialer"
    /\ dclosed' = TRUE /\ transport' = FALSE
    /\ Goto(x, IF transport THEN "quic" ELSE "finish")
    /\ UNCHANGED <<config, facade, h3closed, rawClosed, native, requests>>

DialerClosesQUIC(x) ==
    /\ xpc[x] = "quic"
    /\ quic' = "closed" /\ conn' = FALSE /\ Goto(x, "udp")
    /\ UNCHANGED <<config, facade, h3closed, rawClosed, dialer, udp, requests>>

DialerClosesUDP(x) ==
    /\ xpc[x] = "udp"
    /\ udp' = "closed" /\ Goto(x, "finish")
    /\ UNCHANGED <<config, facade, h3closed, rawClosed, dialer, quic, conn, requests>>

CloseReturns(x) ==
    /\ xpc[x] = "finish"
    /\ once' = "done" /\ Goto(x, "returned")
    /\ UNCHANGED <<config, closed, h3, requests>>

-----------------------------------------------------------------------------
RequestStep(r) ==
    \/ Begin(r) \/ Attempt(r) \/ PrepareFails(r) \/ NetAnswers(r) \/ NetFails(r)
    \/ Cancelled(r) \/ Judge(r)
    \/ H3Checks(r) \/ H3Pool(r) \/ DialFails(r) \/ Dial(r) \/ DialQUIC(r)
    \/ H3Answers(r) \/ H3Fails(r)

CloseStep(x) ==
    \/ CloseEnters(x) \/ CloseJoins(x) \/ CloseStores(x) \/ H3CloseStores(x) \/ H3CloseRaw(x)
    \/ DialerClose(x) \/ DialerClosesQUIC(x) \/ DialerClosesUDP(x) \/ CloseReturns(x)

Next ==
    \/ \E r \in Requests : RequestStep(r) \/ Cancel(r)
    \/ \E x \in Closers : CloseStep(x)

Spec == Init /\ [][Next]_vars

-----------------------------------------------------------------------------
\* Errors after which the next protocol is never tried (docs/http-client.md,
\* "Fallback policy").
Final == {"Canceled", "DeadlineExceeded", "x509", "HTTP3ErrorProtocol", "HTTP3ErrorClosed",
          "quic.ApplicationError", "quic.TransportError", "Unknown", "prepare"}

\* A request is sent a second time only if the configuration allows it, its
\* method is safe, and every failure so far was one that may be retried.  The
\* attempts follow the configured order, and no two of them share a body reader:
\* the first has consumed the original one.
ReplayIsSafe ==
    \A r \in Requests :
        LET n == Len(attempts[r]) IN
        /\ n > 1 => fallback = "SafeReplay" /\ req[r].safe
        /\ \A i \in 1 .. n :
              /\ attempts[r][i][1] = Applicable(r)[i]
              /\ i < n => failures[r][i][2] \cap Final = {}
              /\ \A j \in 1 .. i - 1 :
                    attempts[r][i][2] # attempts[r][j][2] \/ req[r].body = "none"

\* What a request returns accounts for everything it did: an error that stands
\* for several attempts lists each of them in order, a plain error is the error
\* of the only attempt, and the cause of the context is returned only if it was
\* cancelled.  After the cancellation at most one more attempt begins.
OutcomeAccounts ==
    \A r \in Requests :
        LET protocols(s) == [i \in 1 .. Len(s) |-> s[i][1]]
            n == Len(attempts[r])
        IN
        /\ late[r] <= 1
        /\ result[r] = "cause" => canceled[r]
        /\ result[r] = "error" => n = 1 /\ Len(failures[r]) = 1
        /\ result[r] = "HTTPFallbackError" =>
              /\ Len(failures[r]) \in {n, n + 1} /\ Len(failures[r]) > 1
              /\ protocols(failures[r]) = SubSeq(Applicable(r), 1, Len(failures[r]))

\* Once any call of Close has returned, the UDP socket and the QUIC transport
\* are closed and stay closed, whatever requests were in the middle of a dial,
\* and a live connection never outlasts its socket.
CloseReleases ==
    /\ \A x \in Closers : xpc[x] = "returned" => udp # "open" /\ quic # "open" /\ ~conn
    /\ conn => quic = "open" /\ udp = "open"
====
