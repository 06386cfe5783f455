----------------------------- MODULE MCIolinkDL -----------------------------
(***************************************************************************)
(* TLC instance of IolinkDL: the constants are in the .cfg files.           *)
(***************************************************************************)
EXTENDS IolinkDL
=============================================================================
