---------------------------- MODULE MCNodeHealth ----------------------------
(* Instance of NodeHealth for TLC.                                         *)
EXTENDS NodeHealth

=============================================================================
