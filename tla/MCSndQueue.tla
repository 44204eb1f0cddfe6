----------------------------- MODULE MCSndQueue -----------------------------
(* Model-checking instance of SndQueue.                                    *)
EXTENDS SndQueue

(* Fragment lengths above twice the header, so that only the first        *)
(* fragment of the stream loses its first 167 bytes.                       *)
MCChunks == {400, 500}

(* One read that takes part of a fragment and one that takes all of it.   *)
MCReadSizes == {300, 1000}
(* A first fragment shorter than twice the header.                       *)
MCSmallChunks == {200}
=============================================================================
