--------------------------- MODULE MCSktcpClient ---------------------------
(***************************************************************************)
(* A small instance of SktcpClient for TLC.                                *)
(***************************************************************************)
EXTENDS SktcpClient
=============================================================================
