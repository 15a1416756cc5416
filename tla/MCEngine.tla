------------------------------ MODULE MCEngine ------------------------------
(* A TLS connection accepted by a listener, a UDP socket, and two calls of    *)
(* Shutdown or Close.                                                        *)
EXTENDS Engine, TLC

CONSTANTS tlsAccept, udp, lsn, p1, s1, s2

MCConns == {tlsAccept, udp}
MCListeners == {lsn}
MCPeers == {p1}
MCCallers == {s1, s2}
MCKind == (tlsAccept :> "acceptTLS") @@ (udp :> "packet")
MCListenerOf == (tlsAccept :> lsn)
MCPeerOf == (tlsAccept :> p1) @@ (udp :> NoPeer)
=============================================================================
