---------------------------- MODULE MCBufferPool ----------------------------
(***************************************************************************)
(* The buffer pool for TLC.  In every configuration the files have more    *)
(* pages than the pool has frames, so that pages are evicted.              *)
(***************************************************************************)
EXTENDS BufferPool, TLC

Symmetry == Permutations(Clients) \cup Permutations(Files)
=============================================================================
