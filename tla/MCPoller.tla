------------------------------ MODULE MCPoller ------------------------------
(* Two waiters, a caller and a closer, who may call Close again, on each of    *)
(* the three pollers.                                                         *)
EXTENDS Poller

AllKinds == {"epoll", "kqueue", "iocp"}
\* For ever, at once, a part of a millisecond, and more than the kernel can count,
\* which leaves a part of a millisecond for the second wait.
MCTimeouts == {-1, 0, 1, 5}
====
