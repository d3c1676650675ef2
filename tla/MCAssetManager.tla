-------------------------- MODULE MCAssetManager ----------------------------
(***************************************************************************)
(* TLC instance of AssetManager: room for a handle of the manager, one     *)
(* that leaks or is being created, and one of another client.              *)
(***************************************************************************)
EXTENDS AssetManager

CONSTANTS h1, h2, h3, s1, s2, s3, k1, k2, k3, k4
=============================================================================
