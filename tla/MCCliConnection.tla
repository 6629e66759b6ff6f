--------------------------- MODULE MCCliConnection ---------------------------
(***************************************************************************)
(* CliConnection for TLC: the bounds are in the cfg files.                 *)
(***************************************************************************)
EXTENDS CliConnection
=============================================================================
