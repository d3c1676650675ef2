---------------------------- MODULE MCMainLoop ------------------------------
(***************************************************************************)
(* TLC instance of MainLoop: the world layer and two others, the main      *)
(* thread and one client thread.                                           *)
(***************************************************************************)
EXTENDS MainLoop

CONSTANTS main, t1, world, a, b
=============================================================================
