------------------------- MODULE MCServerConnection -------------------------
(***************************************************************************)
(* ServerConnection for TLC: the bounds are in the cfg files.              *)
(***************************************************************************)
EXTENDS ServerConnection
=============================================================================
