---------------------------- MODULE MCHashtable -----------------------------
(***************************************************************************)
(* TLC instance of Hashtable: a table that starts at two slots and may     *)
(* grow, fill up and be refused more.                                      *)
(***************************************************************************)
EXTENDS Hashtable
=============================================================================
