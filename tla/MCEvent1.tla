------------------------------ MODULE MCEvent1 ------------------------------
(***************************************************************************)
(* A small instance of Event1 for TLC: waits for all or any of two bits,   *)
(* that take them away or leave them, with and without a timeout.          *)
(***************************************************************************)
EXTENDS Event1

CONSTANTS x, y

Wait(set, all, clear, timed) ==
  [set |-> set, all |-> all, clear |-> clear, timed |-> timed]

Requests == {Wait({x, y}, TRUE, TRUE, FALSE),
             Wait({x}, FALSE, TRUE, FALSE),
             Wait({x, y}, FALSE, FALSE, FALSE),
             Wait({x, y}, TRUE, TRUE, TRUE),
             Wait({y}, FALSE, FALSE, TRUE)}
=============================================================================
