----------------------------- MODULE MCLogging ------------------------------
(***************************************************************************)
(* TLC instance of Logging: the console device and client devices that can *)
(* fill the array, handled by threads that are interchangeable.            *)
(***************************************************************************)
EXTENDS Logging, TLC

CONSTANTS con, d1, d2, d3, t1, t2, t3

Symmetric == Permutations(ClientDevices) \cup Permutations(Threads)
=============================================================================
