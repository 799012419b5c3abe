---------------------------- MODULE MCServerStart ----------------------------
(* The model values of ServerStart for TLC.                                *)
EXTENDS ServerStart
=============================================================================
