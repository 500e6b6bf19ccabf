--------------------------- MODULE MCIrqDelivery ---------------------------
(* IrqDelivery for TLC: two files of two processes. *)
EXTENDS IrqDelivery, TLC

FilePid == ("f1" :> 1) @@ ("f2" :> 2)

\* One file orders the level together with the front panel, the other the level.
FileMasks == ("f1" :> {{1, 8}}) @@ ("f2" :> {{1}})
OneMasks == ("f1" :> {{1, 8, 16, 20}})
OnePid == ("f1" :> 1)
=============================================================================
