---------------------------- MODULE MCConnection ----------------------------
(* Small instances of Connection for TLC; the .cfg files give the constants. *)
EXTENDS Connection
=============================================================================
