---------------------------- MODULE LinkMonitorInv ----------------------------
(* The inductive invariants behind LinkMonitorProofs.                      *)
EXTENDS LinkMonitor

\* told follows old_remote_hw, or remote_hw between the two steps that set them.
ToldInv ==
    \A f \in Fds : told[f] <=> (IF pc[f] = "store" THEN remote ELSE old[f]) # Invalid

\* remote_hw changes between the second and the third read of an irq_get.
GetRaced == remote' # remote /\ \E f \in Fds : pc[f] = "store"

\* What a process was told and the old_remote_hw that decides whether it is told again
\* agree whatever the link, the handler and the irq thread do between the reads of
\* irq_get, irq_ctl and open: only a change between the two reads of one irq_get that
\* reports the link parts them (DownIsTold is then lost).
ToldKept == [][ToldInv => ToldInv' \/ GetRaced]_vars

\* The irq thread will come to HandlerEnable.
EnableComing ==
    timer \/ "up" \in command \/ (pc[Handler] = "taken" /\ tcmd)

\* A disabled interrupt will be enabled again.
DisabledInv == /\ ~en => EnableComing
               /\ ipc = "clear" => timer

\* Nothing has changed since the irq thread or a reset has looked at the link.
LookingInv ==
    /\ \A a \in Actors : pc[a] = "set" \/ (a = Handler /\ pc[a] \in {"synch", "init"})
          => ~chg /\ en /\ ipc \in {"idle", "post"}
    /\ \A a \in Actors : pc[a] = "set" => up /\ attached \in Types /\ reg[a] = attached
    /\ pc[Handler] = "init" => up

\* A remote side that is known is there, or its loss is on the way to the handler.
ValidInv ==
    remote # Invalid =>
        /\ en
        /\ up => ~chg /\ ipc \in {"idle", "post"} /\ remote = attached
        /\ ~up => chg /\ (ipc \in {"idle", "post"} \/ (ipc = "act" /\ ~iup))

\* A remote side that is not known although it is there will be looked for.
MissingInv ==
    up /\ attached \in Types /\ remote = Invalid =>
        \/ (chg /\ en) \/ ipc \in {"act", "clear"} \/ EnableComing
        \/ pc[Handler] \in {"synch", "init", "set"}
        \/ \E f \in Fds : pc[f] = "set"

\* A reset finds what is known; irq_ctl stores what it has read.
CallInv == \A f \in Fds : pc[f] \in {"set", "ctl"} => reg[f] = remote

LinkInv == DisabledInv /\ LookingInv /\ ValidInv /\ MissingInv
=============================================================================
