---------------------------- MODULE MCRingBuffer ----------------------------
(***************************************************************************)
(* RingBuffer on a small ring.                                             *)
(***************************************************************************)
EXTENDS RingBuffer

MCSizes == {1, 2, 3, 5}
=============================================================================
