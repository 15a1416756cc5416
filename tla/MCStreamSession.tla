-------------------------- MODULE MCStreamSession --------------------------
(* A call that sends, one or two that close, a queue of one frame.           *)
EXTENDS StreamSession, TLC

CONSTANTS s1, c1, c2

OneSend == {s1}
TwoClosers == {c1, c2}
OneCloser == {c1}

\* Close may come from either; no constant tells them apart.
Symmetry == Permutations(TwoClosers)
=============================================================================
