------------------------------- MODULE MCOsStub -------------------------------
(* Inputs for TLC.                                                           *)
EXTENDS OsStub

AllInputs == [start_time : [Procs -> 0 .. 2], size : [Procs -> 1 .. 2]]
=============================================================================
