---------------------------- MODULE MCIndexTree ----------------------------
(***************************************************************************)
(* IndexSteps alone, with eight keys of one column.                        *)
(***************************************************************************)
EXTENDS IndexSteps

MCKeys == {<<i>> : i \in 1..8}

=============================================================================
