---------------------------- MODULE MCLifecycle -----------------------------
(***************************************************************************)
(* Lifecycle with two configurations and three actions of the user.        *)
(***************************************************************************)
EXTENDS Lifecycle, TLC

MCPlatforms == {"gtk", "gtk4", "qt", "win", "mac", "mac_ne", "ios", "android", "harmony"}
=============================================================================
