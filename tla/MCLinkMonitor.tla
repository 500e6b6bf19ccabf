----------------------------- MODULE MCLinkMonitor -----------------------------
(* Instances of LinkMonitor for TLC.                                       *)
EXTENDS LinkMonitorInv

CONSTANTS vme, f1       \* a kind of remote hardware, a file
=============================================================================
