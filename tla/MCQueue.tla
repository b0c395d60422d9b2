------------------------------ MODULE MCQueue ------------------------------
(***************************************************************************)
(* Small instances of Queue for TLC.  Bytes are model values and no        *)
(* operation compares them, so permuting them is sound.                    *)
(***************************************************************************)
EXTENDS Queue, TLC

Symmetry == Permutations(Item)
=============================================================================
