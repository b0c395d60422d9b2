------------------------------ MODULE MCBitmap ------------------------------
(***************************************************************************)
(* A small instance of Bitmap for TLC.                                     *)
(***************************************************************************)
EXTENDS Bitmap
=============================================================================
