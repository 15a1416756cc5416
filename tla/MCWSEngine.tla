----------------------------- MODULE MCWSEngine -----------------------------
(* Two connections of the listener; two dials, one of them WSS; and a connection *)
(* and the WSS dial, which compete for the one handshake.  One upgrade may be    *)
(* pending.                                                                      *)
EXTENDS WSEngine

CONSTANTS c1, c2, d1, d2

MCConns == {c1, c2}
MCDials == {d1, d2}
MCWSSDials == {d1}
MCCasts == {{c1, c2}, {d1, d2}, {c1, d1}}
OneConn == {{c1}}
OneDial == {{d1}}
=============================================================================
