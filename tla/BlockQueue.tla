------------------------------ MODULE BlockQueue ------------------------------
(***************************************************************************)
(* What demand-mode DMA promises to the process that uses it: between a    *)
(* start and a stop it is a bounded queue.  Blocks come out in the order   *)
(* in which the front end filled them, none is lost, none is duplicated,   *)
(* and the one the process holds keeps its content until it is freed.      *)
(* Data is numbered from 0 at each start, modulo TagMod.                   *)
(***************************************************************************)
EXTENDS Integers, Sequences

CONSTANTS Capacity, TagMod

VARIABLES
    on,      \* the stream is running
    queue,   \* full blocks, oldest first
    next,    \* number of the next block of the stream
    held     \* the process holds the head of the queue
qvars == <<on, queue, next, held>>

Succ(n) == (n + 1) % TagMod

Init == on = FALSE /\ queue = <<>> /\ next = 0 /\ held = FALSE

\* A new stream; what an earlier one left in the queue is forgotten.
Start == ~on /\ on' = TRUE /\ queue' = <<>> /\ next' = 0 /\ held' = FALSE

\* The next block of the stream is complete.
Produce ==
    /\ on /\ Len(queue) < Capacity
    /\ queue' = Append(queue, next) /\ next' = Succ(next)
    /\ UNCHANGED <<on, held>>

Hand == queue # <<>> /\ held' = TRUE /\ UNCHANGED <<on, queue, next>>

Free == held /\ held' = FALSE /\ queue' = Tail(queue) /\ UNCHANGED <<on, next>>

\* The stream ends; blocks that arrive from now on, or that had arrived but were
\* not yet queued, are dropped.
Stop == on /\ on' = FALSE /\ next' \in {next, Succ(next)} /\ UNCHANGED <<queue, held>>
Drop == ~on /\ next' = Succ(next) /\ UNCHANGED <<on, queue, held>>

Next == Start \/ Produce \/ Hand \/ Free \/ Stop \/ Drop
QueueSpec == Init /\ [][Next]_qvars
=============================================================================
