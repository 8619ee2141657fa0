------------------------------- MODULE MCTimer -------------------------------
(* Timer on a few devices, for TLC.                                          *)
EXTENDS Timer
=============================================================================
