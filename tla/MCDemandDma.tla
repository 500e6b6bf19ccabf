----------------------------- MODULE MCDemandDma -----------------------------
(* Instances of DemandDma for TLC: which thread uses which device file.    *)
EXTENDS DemandDmaRingInv, TLC

CONSTANTS t1, t2, f1, f2

OneProcess   == (t1 :> f1)
TwoProcesses == (t1 :> f1) @@ (t2 :> f2)

\* The two processes are interchangeable, each together with its file.
Swap == {(t1 :> t2) @@ (t2 :> t1) @@ (f1 :> f2) @@ (f2 :> f1)}
=============================================================================
