---------------------------- MODULE MCPathManager ----------------------------
(* The path manager with the interfaces of the test bed as model values. *)
EXTENDS PathManager
CONSTANTS wifi, lte, sat
=============================================================================
