--------------------------- MODULE MCInterleaver ---------------------------
(* Interleaver on two streams, for TLC.                                    *)
EXTENDS Interleaver

(* One time before the zero that end-of-stream packets carry, one after.   *)
MCTimes == {-1, 1}

(* The room in the queues does not depend on the times: one is enough.     *)
MCOneTime == {1}
=============================================================================
