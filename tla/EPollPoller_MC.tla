--------------------------- MODULE EPollPoller_MC ---------------------------
(* Small instances of EPollPoller.                                         *)
EXTENDS EPollPoller, TLC

CONSTANTS c1, c2, c3, f1, f2

(* Two file descriptors, one of which is closed and used again.            *)
ReusedFd == (c1 :> f1) @@ (c2 :> f2) @@ (c3 :> f1)
=============================================================================
