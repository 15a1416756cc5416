-------------------------- MODULE MCPacketSession --------------------------
(* A Send, a TrySend and one goroutine that ends the connection, a queue of  *)
(* one datagram.                                                             *)
EXTENDS PacketSession

CONSTANTS s1, t1, e1

OneOfEach == {s1, t1}
OneTry == {t1}
OneEnder == {e1}
=============================================================================
