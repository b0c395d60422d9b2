--------------------------- MODULE MCSktcpServer ---------------------------
(***************************************************************************)
(* Small instances of SktcpServer for TLC.  Descriptors are numbers in the *)
(* code, but only their identity counts, as for addresses.                 *)
(***************************************************************************)
EXTENDS SktcpServer, TLC

Symmetry == Permutations(Fd) \union Permutations(Handle)
=============================================================================
