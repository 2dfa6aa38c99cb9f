------------------------- MODULE MCBufferPoolFaults -------------------------
(***************************************************************************)
(* The buffer pool with failing reads and writes, for TLC.                 *)
(***************************************************************************)
EXTENDS BufferPoolFaults, TLC

Symmetry == Permutations(Clients)
=============================================================================
