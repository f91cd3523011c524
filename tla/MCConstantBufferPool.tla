------------------------ MODULE MCConstantBufferPool ------------------------
(***************************************************************************)
(* ConstantBufferPool with the alignment of the code and a pool of a few   *)
(* alignments.                                                             *)
(***************************************************************************)
EXTENDS ConstantBufferPool

MCAskedSizes == {64, 256, 600}
=============================================================================
