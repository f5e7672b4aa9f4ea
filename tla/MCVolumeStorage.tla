-------------------------- MODULE MCVolumeStorage --------------------------
(* Three slots and clusters, and headers with room for few pointers, so     *)
(* that space is fragmented and files get extension segments at once.       *)
EXTENDS VolumeStorage

\* The write of any step may fail.
AnyStep == Steps \ {"none"}
=============================================================================
