---------------------------- MODULE MCIndexFile ----------------------------
(***************************************************************************)
(* Small volumes for TLC.                                                  *)
(***************************************************************************)
EXTENDS IndexFile

=============================================================================
