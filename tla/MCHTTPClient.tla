---------------------------- MODULE MCHTTPClient ----------------------------
(* A request of every other kind beside a plain GET, and two closers.  The     *)
(* errors are one of each class, and some that match several tests of the      *)
(* classifier.                                                                *)
EXTENDS HTTPClient, TLC

CONSTANTS r1, r2, x1, x2

TwoRequests == {r1, r2}
TwoClosers == {x1, x2}
Symmetry == Permutations(TwoClosers)

MCOrders == {<<"HTTP3", "HTTP2">>, <<"HTTP2", "HTTP3", "HTTP1">>}
Request(scheme, safe, body) == [scheme |-> scheme, safe |-> safe, body |-> body]
Get == Request("https", TRUE, "none")
MCMixes ==
    {(r1 :> q @@ r2 :> Get) : q \in {Request("https", TRUE, "GetBody"),
                                     Request("https", TRUE, "once"),
                                     Request("https", FALSE, "GetBody"),
                                     Request("http", TRUE, "GetBody")}}
MCNetErrors == {{"OpError.dial"}, {"OpError.dial", "DeadlineExceeded"}, {"EOF"}, {"Unknown"}}
MCQuicErrors == {{"quic.HandshakeTimeoutError", "net.ErrClosed"},
                 {"quic.TransportError", "net.ErrClosed"}}
====
