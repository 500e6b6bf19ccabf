--------------------------- MODULE MCBlockTransfer ---------------------------
(* Instances of BlockTransfer: a chunk is two words, a request three.  With *)
(* words of one byte the request crosses the boundary, with words of four   *)
(* it does not reach it, but in Crossing.                                   *)
EXTENDS BlockTransfer
Rq(words, addr, size) == [words |-> words, addr |-> addr, size |-> size]
BytesAndWords == {Rq(3, 15, 1), Rq(3, 0, 4)}
OneByte == {Rq(3, 15, 1)}
Crossing == {Rq(3, 4, 4)}
=============================================================================
