---------------------------- MODULE MCWSSession ----------------------------
(* A call that closes; the session has a ping loop and a Send, or a clock.   *)
EXTENDS WSSession

CONSTANTS s1, c1

OneSend == {s1}
OneCloser == {c1}
PingOrClock == {{"ping", s1}, {"clock"}}
=============================================================================
